---------------------------- MODULE Registration ----------------------------
(***************************************************************************)
(* How a service stays published on the relay: Relay.register and          *)
(* watchHolder (sessionnet/relay.go) at one end, the holder's Serve,        *)
(* registerOnce, run, watchCtrl and Close (sessionnet/holder.go) at the     *)
(* other, and between them control connections that can go quiet without    *)
(* closing.                                                                 *)
(*                                                                          *)
(* A connection is a number; its two ends close separately, and an end      *)
(* learns that the other closed only while the link delivers.  register     *)
(* holds Relay.mu three times and probes or waits outside it: each stretch  *)
(* between two of those points is a step of the connection's handler.       *)
(***************************************************************************)
EXTENDS Naturals, FiniteSets

CONSTANTS
  Holder,    \* holderListeners, one for each Serve, each from its own source
  Key,       \* routeKey: a (pin, service)
  KeyOf,     \* what a holder publishes
  Ceiling,   \* Relay.MaxLiveTunnels
  MaxConns,  \* bound on the connections that exist at a time
  Faults,    \* what may go wrong, see FaultKinds
  MaxFaults, \* bound on how often
  NoConn

\* "link": a link goes quiet; "slow": an answer comes after its deadline;
\* "limit": a source's bucket is empty; "restart": the relay restarts;
\* "crash": a holder's process dies; "close": a holder is closed.
FaultKinds == {"link", "slow", "limit", "restart", "crash", "close"}

Conn == 1 .. MaxConns

ASSUME RegistrationAssumption ==
  /\ Holder # {}
  /\ KeyOf \in [Holder -> Key]
  /\ Ceiling \in Nat
  /\ MaxConns \in Nat
  /\ Faults \subseteq FaultKinds
  /\ MaxFaults \in Nat
  /\ NoConn \notin Nat

VARIABLES
  table,             \* Relay.holders
  known,             \* Relay.known: the holders with a free pass
  stage, old, cur,   \* where register is on a connection, and its locals
  by, near, far,     \* who dialled a connection; the holder's and relay's end
  quiet,             \* connections whose link delivers nothing any more
  okd,               \* connections with an "ok" on them not yet read
  run, line,         \* where a holder is, and the connection it is on
  ctrl, published,   \* l.ctrl, and whether Serve has returned a listener
  shut,              \* how far Close has come
  spent              \* faults so far

relay == <<table, known>>
handler == <<stage, old, cur>>
wire == <<by, near, far, quiet, okd>>
holder == <<run, line, ctrl, published, shut>>
vars == <<relay, handler, wire, holder, spent>>

Stage == {"none", "arriving", "probe", "limit", "admit", "reprobe", "readmit",
          "evict", "reply", "held"}

TypeOK ==
  /\ table \in [Key -> Conn \cup {NoConn}]
  /\ known \subseteq Holder
  /\ stage \in [Conn -> Stage]
  /\ old \in [Conn -> Conn \cup {NoConn}]
  /\ cur \in [Conn -> Conn \cup {NoConn}]
  /\ by \in [Conn -> Holder]
  /\ near \in [Conn -> BOOLEAN]
  /\ far \in [Conn -> BOOLEAN]
  /\ quiet \subseteq Conn
  /\ okd \subseteq Conn
  /\ run \in [Holder -> {"idle", "dialing", "awaiting", "pumping", "stopped"}]
  /\ line \in [Holder -> Conn \cup {NoConn}]
  /\ ctrl \in [Holder -> Conn \cup {NoConn}]
  /\ published \in [Holder -> BOOLEAN]
  /\ shut \in [Holder -> {"open", "cancelled", "closed"}]
  /\ spent \in Nat

Init ==
  /\ table = [k \in Key |-> NoConn]
  /\ known = {}
  /\ stage = [c \in Conn |-> "none"]
  /\ old = [c \in Conn |-> NoConn]
  /\ cur = [c \in Conn |-> NoConn]
  /\ by = [c \in Conn |-> CHOOSE h \in Holder : TRUE]
  /\ near = [c \in Conn |-> FALSE]
  /\ far = [c \in Conn |-> FALSE]
  /\ quiet = {}
  /\ okd = {}
  /\ run = [h \in Holder |-> "idle"]
  /\ line = [h \in Holder |-> NoConn]
  /\ ctrl = [h \in Holder |-> NoConn]
  /\ published = [h \in Holder |-> FALSE]
  /\ shut = [h \in Holder |-> "open"]
  /\ spent = 0

-----------------------------------------------------------------------------
Fault(kind) == kind \in Faults /\ spent < MaxFaults /\ spent' = spent + 1

\* Mutant: the probe looks at the relay's own socket only.
AnswersHere(c) == far[c] /\ c \notin quiet

\* A ping on the connection comes back: relayConn.pump reads for ever, so only
\* a closed end or a quiet link leaves it unanswered.
Answers(c) == near[c] /\ far[c] /\ c \notin quiet

\* The relay's read or write on the connection fails.
RelaySeesEnd(c) == ~far[c] \/ (~near[c] /\ c \notin quiet)
HolderSeesEnd(c) == ~near[c] \/ (~far[c] /\ c \notin quiet)

KeyAt(c) == KeyOf[by[c]]
Live == {k \in Key : table[k] # NoConn}

\* Nobody has a use for this number any more.
Unused ==
  {c \in Conn :
     /\ stage[c] = "none" /\ ~near[c]
     /\ \A k \in Key : table[k] # c
     /\ \A d \in Conn : old[d] # c /\ cur[d] # c
     /\ \A h \in Holder : line[h] # c /\ ctrl[h] # c}

-----------------------------------------------------------------------------
(* The relay's handler of one connection: register. *)

GoOn(c, to) == stage' = [stage EXCEPT ![c] = to]

\* register returns with the connection closed: busy, rate-limited or full has
\* been written, which the holder takes like the end of the connection.
Refuse(c) ==
  /\ GoOn(c, "none")
  /\ far' = [far EXCEPT ![c] = FALSE]
  /\ old' = [old EXCEPT ![c] = NoConn]
  /\ cur' = [cur EXCEPT ![c] = NoConn]
  /\ UNCHANGED <<relay, by, near, quiet, okd, holder>>

\* The register line arrives, however late; the slot is read.
Lookup(c) ==
  /\ stage[c] = "arriving" /\ c \notin quiet
  /\ old' = [old EXCEPT ![c] = table[KeyAt(c)]]
  /\ GoOn(c, IF table[KeyAt(c)] = NoConn THEN "limit" ELSE "probe")
  /\ UNCHANGED <<relay, cur, wire, holder, spent>>

\* The line never arrives: handle's read fails, at once or by its deadline.
NeverArrives(c) ==
  /\ stage[c] = "arriving" /\ (c \in quiet \/ RelaySeesEnd(c))
  /\ GoOn(c, "none")
  /\ far' = [far EXCEPT ![c] = FALSE]
  /\ UNCHANGED <<relay, old, cur, by, near, quiet, okd, holder, spent>>

Probe(c) ==
  /\ stage[c] = "probe"
  /\ IF Answers(old[c])
     THEN Refuse(c)
     ELSE GoOn(c, "limit") /\ UNCHANGED <<relay, old, cur, wire, holder>>
  /\ UNCHANGED spent

\* allowRegister lets it pass: known, or a token was there.
Limit(c) ==
  /\ stage[c] = "limit"
  /\ GoOn(c, "admit")
  /\ UNCHANGED <<relay, old, cur, wire, holder, spent>>

RateLimited(c) ==
  /\ stage[c] = "limit" /\ by[c] \notin known
  /\ Fault("limit")
  /\ Refuse(c)

Full(o) == o = NoConn /\ Cardinality(Live) >= Ceiling

\* Mutant: after a lost race the connection to close is still the first one.
InstallKeepsOld(c, o) ==
  IF Full(o)
  THEN Refuse(c)
  ELSE /\ table' = [table EXCEPT ![KeyAt(c)] = c]
       /\ GoOn(c, "evict")
       /\ UNCHANGED old
       /\ cur' = [cur EXCEPT ![c] = NoConn]
       /\ UNCHANGED <<known, wire, holder>>

\* Taking the slot from o, or from nobody, at the end of a stretch under mu.
Install(c, o) ==
  IF Full(o)
  THEN Refuse(c)
  ELSE /\ table' = [table EXCEPT ![KeyAt(c)] = c]
       /\ GoOn(c, "evict")
       /\ old' = [old EXCEPT ![c] = o]
       /\ cur' = [cur EXCEPT ![c] = NoConn]
       /\ UNCHANGED <<known, wire, holder>>

\* Mutant: nobody checks that the slot is still what was probed.
NeverContested(c) == FALSE

\* Another registration has won the race.
Contested(c) == table[KeyAt(c)] \notin {NoConn, old[c]}

Admit(c) ==
  /\ stage[c] = "admit"
  /\ IF Contested(c)
     THEN /\ cur' = [cur EXCEPT ![c] = table[KeyAt(c)]]
          /\ GoOn(c, "reprobe")
          /\ UNCHANGED <<relay, old, wire, holder>>
     ELSE Install(c, old[c])
  /\ UNCHANGED spent

Reprobe(c) ==
  /\ stage[c] = "reprobe"
  /\ IF Answers(cur[c])
     THEN Refuse(c)
     ELSE GoOn(c, "readmit") /\ UNCHANGED <<relay, old, cur, wire, holder>>
  /\ UNCHANGED spent

Readmit(c) ==
  /\ stage[c] = "readmit"
  /\ IF table[KeyAt(c)] \in {NoConn, cur[c]}
     THEN Install(c, table[KeyAt(c)])
     ELSE Refuse(c)
  /\ UNCHANGED spent

\* holderAlive's second runs out although the incumbent is there.
ProbeTimesOut(c) ==
  /\ Fault("slow")
  /\ \/ stage[c] = "probe" /\ GoOn(c, "limit")
     \/ stage[c] = "reprobe" /\ GoOn(c, "readmit")
  /\ UNCHANGED <<relay, old, cur, wire, holder>>

\* Mutant: what is remembered is the service, whoever registered it.
EvictRemembersKey(c) ==
  /\ stage[c] = "evict"
  /\ far' = [d \in Conn |-> far[d] /\ d # old[c]]
  /\ known' = known \cup {KeyAt(c)}
  /\ GoOn(c, "reply")
  /\ old' = [old EXCEPT ![c] = NoConn]
  /\ UNCHANGED <<table, cur, by, near, quiet, okd, holder, spent>>

\* The displaced connection is closed and the source remembered.
Evict(c) ==
  /\ stage[c] = "evict"
  /\ far' = [d \in Conn |-> far[d] /\ d # old[c]]
  /\ known' = known \cup {by[c]}
  /\ GoOn(c, "reply")
  /\ old' = [old EXCEPT ![c] = NoConn]
  /\ UNCHANGED <<table, cur, by, near, quiet, okd, holder, spent>>

ReplyOk(c) ==
  /\ stage[c] = "reply" /\ far[c]
  /\ okd' = IF near[c] THEN okd \cup {c} ELSE okd
  /\ GoOn(c, "held")
  /\ UNCHANGED <<relay, old, cur, by, near, far, quiet, holder, spent>>

\* The "ok" cannot be written: register closes the connection and returns.
ReplyFails(c) ==
  /\ stage[c] = "reply" /\ RelaySeesEnd(c)
  /\ far' = [far EXCEPT ![c] = FALSE]
  /\ GoOn(c, "none")
  /\ UNCHANGED <<relay, old, cur, by, near, quiet, okd, holder, spent>>

\* register's read fails: it takes the entry out if it is still its own.
Deregister(c) ==
  /\ stage[c] = "held" /\ RelaySeesEnd(c)
  /\ table' = [k \in Key |-> IF table[k] = c THEN NoConn ELSE table[k]]
  /\ far' = [far EXCEPT ![c] = FALSE]
  /\ GoOn(c, "none")
  /\ UNCHANGED <<known, old, cur, by, near, quiet, okd, holder, spent>>

\* watchHolder's ping is not answered: closing makes register's read fail.
Unanswered(c) ==
  /\ stage[c] = "held" /\ far[c] /\ ~Answers(c)
  /\ far' = [far EXCEPT ![c] = FALSE]
  /\ UNCHANGED <<relay, handler, by, near, quiet, okd, holder, spent>>

\* ... or is answered too late.
AnsweredLate(c) ==
  /\ stage[c] = "held" /\ Answers(c)
  /\ Fault("slow")
  /\ far' = [far EXCEPT ![c] = FALSE]
  /\ UNCHANGED <<relay, handler, by, near, quiet, okd, holder>>

\* Relay.Close, or the process dying: nothing of it is kept.
RelayRestarts ==
  /\ Fault("restart")
  /\ table' = [k \in Key |-> NoConn]
  /\ known' = {}
  /\ stage' = [c \in Conn |-> "none"]
  /\ far' = [c \in Conn |-> FALSE]
  /\ old' = [c \in Conn |-> NoConn]
  /\ cur' = [c \in Conn |-> NoConn]
  /\ UNCHANGED <<by, near, quiet, okd, holder>>

-----------------------------------------------------------------------------
(* A holder. *)

Serve(h) ==
  /\ run[h] = "idle"
  /\ run' = [run EXCEPT ![h] = "dialing"]
  /\ UNCHANGED <<relay, handler, wire, line, ctrl, published, shut, spent>>

\* registerOnce as far as its read: dialRelay, and the register line written.
Dial(h) ==
  /\ run[h] = "dialing" /\ shut[h] = "open"
  /\ \E c \in Unused :
       /\ \A d \in Unused : c <= d
       /\ by' = [by EXCEPT ![c] = h]
       /\ near' = [near EXCEPT ![c] = TRUE]
       /\ far' = [far EXCEPT ![c] = TRUE]
       /\ quiet' = quiet \ {c}
       /\ GoOn(c, "arriving")
       /\ line' = [line EXCEPT ![h] = c]
  /\ run' = [run EXCEPT ![h] = "awaiting"]
  /\ UNCHANGED <<relay, old, cur, okd, ctrl, published, shut, spent>>

\* Dialling under a cancelled context fails, and run returns.
DialCancelled(h) ==
  /\ run[h] = "dialing" /\ shut[h] # "open"
  /\ run' = [run EXCEPT ![h] = "stopped"]
  /\ UNCHANGED <<relay, handler, wire, line, ctrl, published, shut, spent>>

\* The "ok" is read: l.ctrl is set, and pump reads whether or not Close has
\* cancelled the context meanwhile (dialRelay's WithoutCancel).
Registered(h) ==
  /\ run[h] = "awaiting" /\ line[h] \in okd \ quiet
  /\ ctrl' = [ctrl EXCEPT ![h] = line[h]]
  /\ run' = [run EXCEPT ![h] = "pumping"]
  /\ published' = [published EXCEPT ![h] = TRUE]
  /\ okd' = okd \ {line[h]}
  /\ UNCHANGED <<relay, handler, by, near, far, quiet, line, shut, spent>>

\* registerOnce fails: Serve returns the error, run tries again.
TryAgain(h) ==
  /\ near' = [c \in Conn |-> near[c] /\ c # line[h]]
  /\ run' = [run EXCEPT ![h] = IF published[h] THEN "dialing" ELSE "idle"]
  /\ line' = [line EXCEPT ![h] = NoConn]
  /\ okd' = okd \ {line[h]}
  /\ UNCHANGED <<relay, handler, by, far, quiet, ctrl, published, shut>>

\* A refusal or the end of the connection is read, or nothing for 15 seconds.
Refused(h) ==
  /\ run[h] = "awaiting"
  /\ line[h] \in quiet \/ (line[h] \notin okd /\ ~far[line[h]])
  /\ TryAgain(h)
  /\ UNCHANGED spent

GivesUp(h) ==
  /\ run[h] = "awaiting"
  /\ Fault("slow")
  /\ TryAgain(h)

\* pump's read fails; run closes the connection and dials again.  l.ctrl goes
\* on naming it, but to close it a second time is nothing.
PumpEnds(h) ==
  /\ run[h] = "pumping" /\ HolderSeesEnd(line[h])
  /\ near' = [near EXCEPT ![line[h]] = FALSE]
  /\ run' = [run EXCEPT ![h] = IF shut[h] = "open" THEN "dialing" ELSE "stopped"]
  /\ line' = [line EXCEPT ![h] = NoConn]
  /\ ctrl' = [ctrl EXCEPT ![h] = NoConn]
  /\ UNCHANGED <<relay, handler, by, far, quiet, okd, published, shut, spent>>

\* Mutant: only the relay watches.
NobodyWatches(h) == FALSE

\* watchCtrl's ping is not answered; it only watches until the context ends.
NoPong(h) ==
  /\ run[h] = "pumping" /\ shut[h] = "open"
  /\ near[line[h]] /\ ~Answers(line[h])
  /\ near' = [near EXCEPT ![line[h]] = FALSE]
  /\ UNCHANGED <<relay, handler, by, far, quiet, okd, holder, spent>>

PongLate(h) ==
  /\ run[h] = "pumping" /\ shut[h] = "open" /\ Answers(line[h])
  /\ Fault("slow")
  /\ near' = [near EXCEPT ![line[h]] = FALSE]
  /\ UNCHANGED <<relay, handler, by, far, quiet, okd, holder>>

\* Close: the context is cancelled, ...
Cancel(h) ==
  /\ published[h] /\ shut[h] = "open"
  /\ Fault("close")
  /\ shut' = [shut EXCEPT ![h] = "cancelled"]
  /\ UNCHANGED <<relay, handler, wire, run, line, ctrl, published>>

\* ... then whatever l.ctrl holds by then is closed.
CloseCtrl(h) ==
  /\ shut[h] = "cancelled"
  /\ near' = [c \in Conn |-> near[c] /\ c # ctrl[h]]
  /\ shut' = [shut EXCEPT ![h] = "closed"]
  /\ UNCHANGED <<relay, handler, by, far, quiet, okd, run, line, ctrl, published, spent>>

\* The process dies; whoever starts it again calls Serve afresh.
Crash(h) ==
  /\ run[h] # "idle"
  /\ Fault("crash")
  /\ near' = [c \in Conn |-> near[c] /\ by[c] # h]
  /\ okd' = {c \in okd : by[c] # h}
  /\ run' = [run EXCEPT ![h] = "idle"]
  /\ line' = [line EXCEPT ![h] = NoConn]
  /\ ctrl' = [ctrl EXCEPT ![h] = NoConn]
  /\ published' = [published EXCEPT ![h] = FALSE]
  /\ shut' = [shut EXCEPT ![h] = "open"]
  /\ UNCHANGED <<relay, handler, by, far, quiet>>

\* A carrier handover: the connection reads as open and delivers nothing.
GoesQuiet(c) ==
  /\ (near[c] \/ far[c]) /\ c \notin quiet
  /\ Fault("link")
  /\ quiet' = quiet \cup {c}
  /\ UNCHANGED <<relay, handler, by, near, far, okd, holder>>

-----------------------------------------------------------------------------
Register(c) ==
  \/ Lookup(c) \/ NeverArrives(c) \/ Probe(c) \/ Limit(c) \/ Admit(c)
  \/ Reprobe(c) \/ Readmit(c) \/ Evict(c) \/ ReplyOk(c) \/ ReplyFails(c)
  \/ Deregister(c) \/ Unanswered(c)

Hold(h) ==
  \/ Dial(h) \/ DialCancelled(h) \/ Registered(h) \/ Refused(h)
  \/ PumpEnds(h) \/ NoPong(h) \/ CloseCtrl(h)

Next ==
  \/ \E c \in Conn :
       \/ Register(c)
       \/ RateLimited(c) \/ ProbeTimesOut(c) \/ AnsweredLate(c) \/ GoesQuiet(c)
  \/ \E h \in Holder :
       \/ Hold(h)
       \/ Serve(h) \/ GivesUp(h) \/ PongLate(h) \/ Cancel(h) \/ Crash(h)
  \/ RelayRestarts

Spec == Init /\ [][Next]_vars

\* Goroutines go on, deadlines and pings come due, and run always redials;
\* nobody is obliged to call Serve again.
Fairness ==
  /\ \A c \in Conn : WF_vars(Register(c))
  /\ \A h \in Holder : WF_vars(Hold(h))

FairSpec == Spec /\ Fairness

-----------------------------------------------------------------------------
(* What the relay and its holders owe each other. *)

\* A tunnel whose holder still answers the relay's pings is never taken from
\* it: however many registrations probe and race for the slot, register only
\* displaces a connection it has found dead (relay.go, "refuse while the
\* incumbent answers ping").
LiveTunnelStays ==
  [][\A k \in Key, c \in Conn :
       table[k] = c /\ Answers(c) /\ Answers(c)' => table'[k] = c]_vars

\* A connection the relay holds open as a tunnel is the one clients are routed
\* to, or its displacer is about to close it: nobody sits on a tunnel that was
\* given to somebody else.
NoOrphanTunnel ==
  \A c \in Conn :
    stage[c] = "held" /\ far[c] =>
      \/ table[KeyAt(c)] = c
      \/ \E d \in Conn : stage[d] = "evict" /\ old[d] = c

\* A holder that reconnects is refused as busy only for somebody else's
\* tunnel, never for what is left of its own (relay.go, "never refused as
\* "busy"").  A refusal leaves the table as it is, a restart does not.
BusyMeansSomebodyElse ==
  [][\A c \in Conn :
       /\ stage[c] \in {"probe", "reprobe"} /\ stage'[c] = "none"
       /\ table' = table
       /\ run[by[c]] = "awaiting" /\ line[by[c]] = c
       /\ table[KeyAt(c)] # NoConn
       => by[table[KeyAt(c)]] # by[c]]_vars

\* While a service has an open holder, its tunnel comes back for good once
\* links stay up: quiet links, restarts, refusals and races end with one
\* registered connection that its holder pumps and that answers (holder.go,
\* "a relay restart, a dropped tunnel or a hostile network reconnects").
Wanted(k) == \E h \in Holder : KeyOf[h] = k /\ published[h] /\ shut[h] = "open"
Served(k) ==
  \E h \in Holder :
    /\ run[h] = "pumping" /\ shut[h] = "open"
    /\ table[k] = line[h] /\ line[h] # NoConn /\ Answers(line[h])
StaysPublished == \A k \in Key : <>[]Wanted(k) => <>[]Served(k)

\* After Close the relay lets the service's slot go (holder.go, Close "kills
\* the control connection").
ClosedLetsGo ==
  \A h \in Holder :
    shut[h] = "closed" ~> (\A k \in Key : table[k] # NoConn => by[table[k]] # h)

=============================================================================
