----------------------------- MODULE Placement -----------------------------
(***************************************************************************)
(* Automatic placement: placement/loop.go in every member, the lease part  *)
(* of the control-plane client each of them reads through, and the member  *)
(* cycle that renews (controlplane/membersync_outbox.go, the loops of       *)
(* joindaemon/join.go and hoststart/hoststart.go).  The control plane and  *)
(* the relay are not in the repository: what they answer is modelled from   *)
(* how the client uses it.                                                  *)
(*                                                                          *)
(* A member's process runs its cycle and its tick either on one goroutine   *)
(* (a join daemon) or on two (a host, m \in Concurrent).                    *)
(***************************************************************************)
EXTENDS Ranking, FiniteSets

CONSTANTS
  Serves,      \* pairs <<m, s>> for which Loop.Serves answers true
  Able,        \* pairs <<m, s>> for which Loop.Start can succeed at all
  Relayed,     \* services whose Start registers on the relay
  Concurrent,  \* members whose cycle runs beside their tick: the hosts
  Faults,      \* what may go wrong, see FaultKinds
  MaxFaults,   \* bound on how often
  MaxWorld     \* bound on how often the rest of the document changes

\* "lag": the stream delivers frames late; "network": a request or its answer
\* is lost; "stall": an owner does not renew for a whole TTL; "crash": a
\* process dies; "operator": take --force and hand-off; "takeover": a host
\* retakes the session; "close": a join daemon is closed.
FaultKinds ==
  {"lag", "network", "stall", "crash", "operator", "takeover", "close"}

ASSUME PlacementAssumption ==
  /\ Serves \subseteq Member \X Service
  /\ Able \subseteq Member \X Service
  /\ Relayed \subseteq Service
  /\ Concurrent \subseteq Member
  /\ Faults \subseteq FaultKinds
  /\ MaxFaults \in Nat
  /\ MaxWorld \in Nat

VARIABLES
  lease, presence, world,   \* the control plane's session document
  cache,                    \* Client.cache: a member's copy of the document
  wire,                     \* the pushed frame on its way to a member
  phase, at, snap,          \* where a member's loop is: Tick's locals
  held, failed,             \* Loop.held and Loop.failed
  hold,                     \* Outbox.hold
  answer,                   \* a MemberSync reply not applied yet
  serving,                  \* services whose process runs on the member
  up, closing,              \* the member's process, and how far Close got
  spent                     \* faults so far

document == <<lease, presence, world>>
view == <<cache, wire>>
tick == <<phase, at, snap>>
loop == <<held, failed, serving>>
outbox == <<hold, answer>>
life == <<up, closing>>
vars == <<document, view, tick, loop, outbox, life, spent>>

\* The document of a session in which nothing has happened; also the value of
\* a snapshot nobody reads any more.
Blank ==
  [lease |-> [s \in Service |-> Free], presence |-> [m \in Member |-> "online"],
   world |-> 0]

Doc == [lease |-> lease, presence |-> presence, world |-> world]

Phase == {"idle", "cycled", "ticking", "starting", "exited"}
Closing == {"open", "closing", "released", "left", "stopped"}
FingerprintType ==
  [owner : [Service -> Member \cup {NoOne}], roster : SUBSET Member, world : Nat]

TypeOK ==
  /\ lease \in [Service -> Lease]
  /\ presence \in [Member -> Presence]
  /\ world \in Nat
  /\ cache \in [Member -> Document]
  /\ wire \in [Member -> SUBSET Document]
  /\ phase \in [Member -> Phase]
  /\ at \in [Member -> 1 .. Len(Services)]
  /\ snap \in [Member -> Document]
  /\ held \in [Member -> SUBSET Service]
  /\ failed \in [Member -> [Service -> SUBSET FingerprintType]]
  /\ hold \in [Member -> SUBSET Service]
  /\ answer \in [Member -> SUBSET [lost : SUBSET Service, snapshot : SUBSET Document]]
  /\ serving \in [Member -> SUBSET Service]
  /\ up \in [Member -> BOOLEAN]
  /\ closing \in [Member -> Closing]
  /\ spent \in Nat

\* A session starts with nothing served, or with its host serving: the host
\* adopts the leases of what it already runs (claimServedLeases, Loop.Adopt).
Init ==
  \E founders \in {{}} \cup {{h} : h \in Concurrent} :
    LET Founded(m) == {s \in Service : m \in founders /\ <<m, s>> \in Serves \cap Able}
    IN  /\ serving = [m \in Member |-> Founded(m)]
        /\ held = serving
        /\ lease = [s \in Service |->
             IF \E h \in founders : s \in Founded(h)
             THEN OwnedBy(CHOOSE h \in founders : TRUE) ELSE Free]
        /\ presence = [m \in Member |-> "online"]
        /\ world = 0
        /\ cache = [m \in Member |-> IF "lag" \in Faults THEN Doc ELSE Blank]
        /\ wire = [m \in Member |-> {}]
        /\ phase = [m \in Member |-> "idle"]
        /\ at = [m \in Member |-> 1]
        /\ snap = [m \in Member |-> Blank]
        /\ failed = [m \in Member |-> [s \in Service |-> {}]]
        /\ hold = [m \in Member |-> {}]
        /\ answer = [m \in Member |-> {}]
        /\ up = [m \in Member |-> TRUE]
        /\ closing = [m \in Member |-> "open"]
        /\ spent = 0

-----------------------------------------------------------------------------
Fault(kind) == kind \in Faults /\ spent < MaxFaults /\ spent' = spent + 1

\* What Session() answers: the cached document while a Watch is held, a GET
\* after CloseWatch.  Without "lag" the stream is caught up.
Session(m) == IF "lag" \in Faults /\ closing[m] = "open" THEN cache[m] ELSE Doc

\* setCachedLease
Cached(m, s, l) ==
  IF "lag" \in Faults THEN [cache EXCEPT ![m].lease[s] = l] ELSE cache

At(m) == Services[at[m]]
Ticking(m, s) == up[m] /\ phase[m] = "ticking" /\ At(m) = s

\* Mutant: Tick's loop runs past the last service.
AdvancePastLast(m) ==
  /\ at' = [at EXCEPT ![m] = @ + 1]
  /\ phase' = [phase EXCEPT ![m] = IF at[m] = Len(Services) THEN "idle" ELSE "ticking"]
  /\ UNCHANGED snap

\* The body of Tick's loop is done for this service.
Advance(m) ==
  /\ at' = [at EXCEPT ![m] = IF @ = Len(Services) THEN 1 ELSE @ + 1]
  /\ IF at[m] = Len(Services)
     THEN /\ phase' = [phase EXCEPT ![m] = "idle"]
          /\ snap' = [snap EXCEPT ![m] = Blank]
     ELSE /\ phase' = [phase EXCEPT ![m] = "ticking"]
          /\ UNCHANGED snap

TickBegin(m) ==
  /\ up[m]
  /\ phase[m] = IF m \in Concurrent THEN "idle" ELSE "cycled"
  /\ snap' = [snap EXCEPT ![m] = Session(m)]
  /\ phase' = [phase EXCEPT ![m] = "ticking"]
  /\ UNCHANGED <<document, view, at, loop, outbox, life, spent>>

\* renew: deposit the service for the next Flush.
Renew(m, s) ==
  /\ Ticking(m, s) /\ s \in held[m]
  /\ hold' = [hold EXCEPT ![m] = @ \cup {s}]
  /\ Advance(m)
  /\ UNCHANGED <<document, view, loop, answer, life, spent>>

\* Not held here, ours to run, and either recorded as ours or free and ours to
\* claim.
Wants(m, s) ==
  /\ s \notin held[m]
  /\ <<m, s>> \in Serves
  /\ Holds(snap[m], s, m) \/ ShouldClaim(snap[m], s, m)

\* Mutant: no anti-flap rule.
NeverStuck(m, s) == FALSE

\* stillFailing: a start failed here against exactly this document.
Stuck(m, s) == Fingerprint(snap[m]) \in failed[m][s]

Pass(m, s) ==
  /\ Ticking(m, s) /\ s \notin held[m]
  /\ ~ Wants(m, s) \/ (Stuck(m, s) /\ ~ Holds(snap[m], s, m))
  /\ Advance(m)
  /\ UNCHANGED <<document, view, loop, outbox, life, spent>>

\* ReportStartFailure: frees the lease in the control plane and in the cache,
\* unless it is no longer this member's or the request is lost.
ReportArrives(m, s) ==
  /\ lease[s].owner = m
  /\ lease' = [lease EXCEPT ![s] = Free]
  /\ cache' = Cached(m, s, Free)
  /\ UNCHANGED spent
ReportRefused(m, s) == lease[s].owner # m /\ UNCHANGED <<lease, cache, spent>>
ReportLost == Fault("network") /\ UNCHANGED <<lease, cache>>
Report(m, s) == ReportArrives(m, s) \/ ReportRefused(m, s) \/ ReportLost

\* reconcile, stuck on a lease the document says is ours: hand it back.
HandBack(m, s) ==
  /\ Ticking(m, s) /\ Wants(m, s) /\ Stuck(m, s) /\ Holds(snap[m], s, m)
  /\ Report(m, s)
  /\ Advance(m)
  /\ UNCHANGED <<presence, world, wire, loop, outbox, life>>

\* take, first half: ClaimLease.  The control plane refuses a live lease of
\* another member.
Takes(m, s) == Ticking(m, s) /\ Wants(m, s) /\ ~ Stuck(m, s)
Grantable(m, s) == ~ lease[s].live \/ lease[s].owner = m

ClaimGranted(m, s) ==
  /\ Takes(m, s) /\ Grantable(m, s)
  /\ lease' = [lease EXCEPT ![s] = OwnedBy(m)]
  /\ cache' = Cached(m, s, OwnedBy(m))
  /\ phase' = [phase EXCEPT ![m] = "starting"]
  /\ UNCHANGED <<presence, world, wire, at, snap, loop, outbox, life, spent>>

\* Mutant: take starts the service although the claim was refused.
ClaimRefusedIsTaken(m, s) ==
  /\ Takes(m, s) /\ ~ Grantable(m, s)
  /\ phase' = [phase EXCEPT ![m] = "starting"]
  /\ UNCHANGED <<document, view, at, snap, loop, outbox, life, spent>>

ClaimRefused(m, s) ==
  /\ Takes(m, s) /\ ~ Grantable(m, s)
  /\ Advance(m)
  /\ UNCHANGED <<document, view, loop, outbox, life, spent>>

\* Mutant: take starts the service although the claim got no answer.
ClaimFailsIsTaken(m, s) ==
  /\ Takes(m, s) /\ Fault("network")
  /\ phase' = [phase EXCEPT ![m] = "starting"]
  /\ UNCHANGED <<document, view, at, snap, loop, outbox, life>>

\* The control plane cannot be reached, or granted the lease and its answer
\* is lost: take returns the error and nothing starts.
ClaimFails(m, s) ==
  /\ Takes(m, s) /\ Fault("network")
  /\ \/ Grantable(m, s) /\ lease' = [lease EXCEPT ![s] = OwnedBy(m)]
     \/ UNCHANGED lease
  /\ Advance(m)
  /\ UNCHANGED <<presence, world, view, loop, outbox, life>>

\* take, second half: Loop.Start.  The relay admits one live registration per
\* service, so a relayed service cannot start while another member serves it.
Starting(m, s) == up[m] /\ phase[m] = "starting" /\ At(m) = s
CanStart(m, s) ==
  /\ <<m, s>> \in Able
  /\ s \in Relayed => \A n \in Member \ {m} : s \notin serving[n]

StartSucceeds(m, s) ==
  /\ Starting(m, s) /\ CanStart(m, s)
  /\ serving' = [serving EXCEPT ![m] = @ \cup {s}]
  /\ held' = [held EXCEPT ![m] = @ \cup {s}]
  /\ failed' = [failed EXCEPT ![m][s] = {}]
  /\ Advance(m)
  /\ UNCHANGED <<document, view, outbox, life, spent>>

StartFails(m, s) ==
  /\ Starting(m, s) /\ ~ CanStart(m, s)
  /\ failed' = [failed EXCEPT ![m][s] = {Fingerprint(snap[m])}]
  /\ Report(m, s)
  /\ Advance(m)
  /\ UNCHANGED <<presence, world, wire, held, serving, outbox, life>>

-----------------------------------------------------------------------------
(* The member cycle: Hold what is held, Flush, ApplyLost.                   *)

CycleDue(m) ==
  /\ up[m] /\ answer[m] = {}
  /\ m \notin Concurrent => phase[m] = "idle"

Deposited(m) == hold[m] \cup held[m]
Renewable(m) == {s \in Deposited(m) : lease[s].owner = m}

\* The control plane's half of MemberSync.  It renews what the member owns; a
\* lease of this member's that ran out unclaimed may go either way.
SyncOutcome(m, lost) ==
  /\ Deposited(m) \ Renewable(m) \subseteq lost
  /\ lost \subseteq {s \in Deposited(m) : ~ Holds(Doc, s, m)}
  /\ lease' = [s \in Service |->
       IF s \in Deposited(m) \ lost THEN OwnedBy(m) ELSE lease[s]]
  /\ presence' = [presence EXCEPT ![m] = IF @ = "left" THEN @ ELSE "online"]

\* outbox.flush clears the deposits before the request is sent.  The reply
\* carries a snapshot when one was asked for.
CycleSend(m) ==
  /\ CycleDue(m)
  /\ hold' = [hold EXCEPT ![m] = {}]
  /\ UNCHANGED world
  /\ \E lost \in SUBSET Deposited(m) :
       /\ SyncOutcome(m, lost)
       /\ \/ answer' = [answer EXCEPT ![m] = {[lost |-> lost, snapshot |-> {}]}]
          \/ /\ "lag" \in Faults
             /\ answer' = [answer EXCEPT ![m] = {[lost |-> lost, snapshot |-> {Doc'}]}]
  /\ UNCHANGED <<view, tick, loop, life, spent>>

CycleDone(m) ==
  phase' = [phase EXCEPT ![m] = IF m \in Concurrent THEN @ ELSE "cycled"]

\* standDownWhatWasTaken: on host.takeover a join daemon syncs once off its
\* cycle; no tick follows.
OffCycle(m) == "takeover" \in Faults /\ m \notin Concurrent /\ UNCHANGED phase

\* Mutant: a member that cannot reach the control plane stands down.
CycleFailsStandsDown(m) ==
  /\ CycleDue(m) /\ Fault("network")
  /\ serving' = [serving EXCEPT ![m] = {}]
  /\ held' = [held EXCEPT ![m] = {}]
  /\ CycleDone(m)
  /\ UNCHANGED <<document, view, at, snap, failed, outbox, life>>

\* Flush failed: the deposits are gone, nothing is stood down.
CycleFails(m) ==
  /\ CycleDue(m) /\ Fault("network")
  /\ hold' = [hold EXCEPT ![m] = {}]
  /\ \/ \E lost \in SUBSET Deposited(m) : SyncOutcome(m, lost)
     \/ UNCHANGED <<lease, presence>>
  /\ CycleDone(m) \/ OffCycle(m)
  /\ UNCHANGED <<world, view, at, snap, loop, answer, life>>

\* Mutants: standDown forgets the service without stopping it; the cycle never
\* calls ApplyLost.
CycleApplyForgets(m) ==
  /\ up[m] /\ answer[m] # {}
  /\ \E a \in answer[m] : held' = [held EXCEPT ![m] = @ \ a.lost]
  /\ answer' = [answer EXCEPT ![m] = {}]
  /\ CycleDone(m)
  /\ UNCHANGED <<document, view, at, snap, failed, serving, hold, life, spent>>
CycleApplyIgnoresLost(m) ==
  /\ up[m] /\ answer[m] # {}
  /\ answer' = [answer EXCEPT ![m] = {}]
  /\ CycleDone(m)
  /\ UNCHANGED <<document, view, at, snap, loop, hold, life, spent>>

\* The reply: MemberSync replaces the cached document, ApplyLost stops every
\* reported service that is still held.
CycleApply(m) ==
  /\ up[m] /\ answer[m] # {}
  /\ \E a \in answer[m] :
       /\ serving' = [serving EXCEPT ![m] = @ \ (a.lost \cap held[m])]
       /\ held' = [held EXCEPT ![m] = @ \ a.lost]
       /\ cache' = [cache EXCEPT ![m] =
            IF a.snapshot = {} THEN @ ELSE CHOOSE d \in a.snapshot : TRUE]
       /\ CycleDone(m) \/ (OffCycle(m) /\ a.lost # {})
  /\ answer' = [answer EXCEPT ![m] = {}]
  /\ UNCHANGED <<document, wire, at, snap, failed, hold, life, spent>>

\* Outbox.FlushChange: a merge landed on main and the conductor says so at
\* once, with whatever was deposited; what it learns about lost leases is
\* discarded.
FlushChange(m) ==
  /\ up[m] /\ "conductor" \in serving[m] /\ world < MaxWorld
  /\ world' = world + 1
  /\ hold' = [hold EXCEPT ![m] = {}]
  /\ lease' = [s \in Service |->
       IF s \in hold[m] /\ lease[s].owner = m THEN OwnedBy(m) ELSE lease[s]]
  /\ presence' = [presence EXCEPT ![m] = IF @ = "left" THEN @ ELSE "online"]
  /\ UNCHANGED <<view, tick, loop, answer, life, spent>>

-----------------------------------------------------------------------------
(* The stream, the clocks and the other writers of the document.            *)

Push(m) ==
  /\ "lag" \in Faults /\ up[m] /\ closing[m] = "open"
  /\ wire[m] = {} /\ cache[m] # Doc
  /\ wire' = [wire EXCEPT ![m] = {Doc}]
  /\ UNCHANGED <<document, cache, tick, loop, outbox, life, spent>>

Deliver(m) ==
  /\ up[m] /\ closing[m] = "open"
  /\ \E d \in wire[m] : cache' = [cache EXCEPT ![m] = d]
  /\ wire' = [wire EXCEPT ![m] = {}]
  /\ UNCHANGED <<document, tick, loop, outbox, life, spent>>

\* Lease.Live against the reader's own clock: a cached expiry passes although
\* the owner has renewed since.
CacheExpires(m, s) ==
  /\ "lag" \in Faults /\ up[m] /\ cache[m].lease[s].live
  /\ cache' = [cache EXCEPT ![m].lease[s].live = FALSE]
  /\ UNCHANGED <<document, wire, tick, loop, outbox, life, spent>>

\* The member's loop is there and serves, or is starting, the service.
Engaged(m, s) ==
  up[m] /\ phase[m] # "exited" /\ (s \in serving[m] \/ Starting(m, s))

\* The TTL runs out on an owner that neither serves nor starts the service;
\* on one that does, only when it stalls.
Expire(s) ==
  /\ lease[s].live /\ ~ Engaged(lease[s].owner, s)
  /\ lease' = [lease EXCEPT ![s].live = FALSE]
  /\ UNCHANGED <<presence, world, view, tick, loop, outbox, life, spent>>

Stall(s) ==
  /\ lease[s].live /\ Engaged(lease[s].owner, s) /\ Fault("stall")
  /\ lease' = [lease EXCEPT ![s].live = FALSE]
  /\ UNCHANGED <<presence, world, view, tick, loop, outbox, life>>

PresenceLapses(m) ==
  /\ presence[m] = "online" /\ (~ up[m] \/ phase[m] = "exited")
  /\ presence' = [presence EXCEPT ![m] = "away"]
  /\ UNCHANGED <<lease, world, view, tick, loop, outbox, life, spent>>

PresenceStalls(m) ==
  /\ presence[m] = "online" /\ up[m] /\ Fault("stall")
  /\ presence' = [presence EXCEPT ![m] = "away"]
  /\ UNCHANGED <<lease, world, view, tick, loop, outbox, life>>

\* A generation, an endpoint or main moved.
WorldMoves ==
  /\ world < MaxWorld
  /\ world' = world + 1
  /\ UNCHANGED <<lease, presence, view, tick, loop, outbox, life, spent>>

\* take --force and hand-off, run by another process: the caches do not see it.
Operator(s) ==
  /\ Fault("operator")
  /\ \E l \in {Free} \cup {OwnedBy(m) : m \in {n \in Member : presence[n] = "online"}} :
       lease' = [lease EXCEPT ![s] = l]
  /\ UNCHANGED <<presence, world, view, tick, loop, outbox, life>>

-----------------------------------------------------------------------------
(* Processes.                                                               *)

Forget(m) ==
  /\ held' = [held EXCEPT ![m] = {}]
  /\ failed' = [failed EXCEPT ![m] = [s \in Service |-> {}]]
  /\ hold' = [hold EXCEPT ![m] = {}]
  /\ answer' = [answer EXCEPT ![m] = {}]
  /\ wire' = [wire EXCEPT ![m] = {}]

Crash(m) ==
  /\ up[m] /\ Fault("crash")
  /\ up' = [up EXCEPT ![m] = FALSE]
  /\ serving' = [serving EXCEPT ![m] = {}]
  /\ phase' = [phase EXCEPT ![m] = "exited"]
  /\ at' = [at EXCEPT ![m] = 1]
  /\ snap' = [snap EXCEPT ![m] = Blank]
  /\ closing' = [closing EXCEPT ![m] = "open"]
  /\ Forget(m)
  /\ UNCHANGED <<document, cache>>

\* A join daemon is started again; joining announces the member.  (A host's
\* start-up is more than this and is not modelled here.)
Restart(m) ==
  /\ ~ up[m] /\ m \notin Concurrent
  /\ up' = [up EXCEPT ![m] = TRUE]
  /\ phase' = [phase EXCEPT ![m] = "idle"]
  /\ presence' = [presence EXCEPT ![m] = "online"]
  /\ UNCHANGED <<lease, world>>
  /\ cache' = IF "lag" \in Faults THEN [cache EXCEPT ![m] = Doc'] ELSE cache
  /\ UNCHANGED <<wire, at, snap, loop, outbox, closing, spent>>

\* A host outside the model retakes the session: the store deletes every lease
\* with the generation bump.
Takeover ==
  /\ world < MaxWorld /\ Fault("takeover")
  /\ lease' = [s \in Service |-> Free]
  /\ world' = world + 1
  /\ UNCHANGED <<presence, view, tick, loop, outbox, life>>

\* Joined.Close, on the goroutine that asked for it, while the loop runs on.
CloseBegin(m) ==
  /\ up[m] /\ m \notin Concurrent /\ closing[m] = "open" /\ Fault("close")
  /\ closing' = [closing EXCEPT ![m] = "closing"]
  /\ wire' = [wire EXCEPT ![m] = {}]
  /\ UNCHANGED <<document, cache, tick, loop, outbox, up>>

\* ReleaseAll
CloseRelease(m) ==
  /\ up[m] /\ closing[m] = "closing"
  /\ closing' = [closing EXCEPT ![m] = "released"]
  /\ lease' = [s \in Service |->
       IF s \in held[m] /\ lease[s].owner = m THEN Free ELSE lease[s]]
  /\ held' = [held EXCEPT ![m] = {}]
  /\ UNCHANGED <<presence, world, view, tick, failed, serving, outbox, up, spent>>

\* LeaveMember
CloseLeave(m) ==
  /\ up[m] /\ closing[m] = "released"
  /\ closing' = [closing EXCEPT ![m] = "left"]
  /\ presence' = [presence EXCEPT ![m] = "left"]
  /\ UNCHANGED <<lease, world, view, tick, loop, outbox, up, spent>>

\* Mutant: Close stops the services but not the loop.
CloseStopLeavesLoop(m) ==
  /\ up[m] /\ closing[m] = "left" /\ serving[m] # {}
  /\ serving' = [serving EXCEPT ![m] = {}]
  /\ UNCHANGED <<document, view, tick, held, failed, outbox, life, spent>>

\* close(j.stop), then stopService for each service
CloseStop(m) ==
  /\ up[m] /\ closing[m] = "left"
  /\ closing' = [closing EXCEPT ![m] = "stopped"]
  /\ serving' = [serving EXCEPT ![m] = {}]
  /\ UNCHANGED <<document, view, tick, held, failed, outbox, up, spent>>

\* The loop's select sees the stop channel; a ticker that fired as well may be
\* chosen first, so this is not forced.
LoopExits(m) ==
  /\ up[m] /\ closing[m] = "stopped" /\ phase[m] = "idle" /\ answer[m] = {}
  /\ phase' = [phase EXCEPT ![m] = "exited"]
  /\ UNCHANGED <<document, view, at, snap, loop, outbox, life, spent>>

-----------------------------------------------------------------------------
Reconcile(m, s) ==
  \/ Renew(m, s) \/ Pass(m, s) \/ HandBack(m, s)
  \/ ClaimGranted(m, s) \/ ClaimRefused(m, s) \/ ClaimFails(m, s)
  \/ StartSucceeds(m, s) \/ StartFails(m, s)

Cycle(m) == CycleSend(m) \/ CycleApply(m)

Close(m) == CloseRelease(m) \/ CloseLeave(m) \/ CloseStop(m)

MemberStep(m) ==
  \/ TickBegin(m) \/ Cycle(m) \/ CycleFails(m) \/ FlushChange(m)
  \/ Push(m) \/ Deliver(m)
  \/ PresenceLapses(m) \/ PresenceStalls(m) \/ Crash(m) \/ Restart(m)
  \/ CloseBegin(m) \/ Close(m) \/ LoopExits(m)
  \/ \E s \in Service : Reconcile(m, s) \/ CacheExpires(m, s)

Next ==
  \/ \E m \in Member : MemberStep(m)
  \/ \E s \in Service : Expire(s) \/ Stall(s) \/ Operator(s)
  \/ Takeover \/ WorldMoves

Spec == Init /\ [][Next]_vars

\* Both loops run on tickers and every call in them has a deadline; the stream
\* delivers or reconnects; clocks run.  select picks at random between a closed
\* stop channel and the ticker, so the stop is taken eventually.
MemberFairness(m) ==
  /\ WF_vars(TickBegin(m))
  /\ WF_vars(\E s \in Service : Reconcile(m, s))
  /\ WF_vars(CycleSend(m)) /\ WF_vars(CycleApply(m))
  /\ WF_vars(Push(m)) /\ WF_vars(Deliver(m))
  /\ WF_vars(PresenceLapses(m))
  /\ WF_vars(Close(m)) /\ SF_vars(LoopExits(m))
  /\ \A s \in Service : WF_vars(CacheExpires(m, s))

Fairness ==
  /\ \A m \in Member : MemberFairness(m)
  /\ \A s \in Service : WF_vars(Expire(s))

FairSpec == Spec /\ Fairness

-----------------------------------------------------------------------------
(* Properties.                                                              *)

\* No fault takes a lease from a member that is serving it.
Punctual == Faults \cap {"stall", "operator", "takeover", "close"} = {}

\* Placement as LeaseContract sees it: a lease counts while it is live.
Contract ==
  INSTANCE LeaseContract WITH
    holder <- [s \in Service |-> IF lease[s].live THEN lease[s].owner ELSE NoOne],
    running <- [s \in Service |-> \E m \in Member : s \in serving[m]]

\* Placement implements its contract when no owner stalls and nobody overrules
\* it.
ImplementsContract == Contract!Spec

\* No two members serve the same service.
ExclusiveService ==
  \A s \in Service : \A m, n \in Member :
    s \in serving[m] /\ s \in serving[n] => m = n

\* Whoever serves or starts a service holds its live lease.
LeasedWhileEngaged ==
  \A m \in Member, s \in Service : Engaged(m, s) => Holds(Doc, s, m)

\* Whatever a member serves is in its Loop.held, so that a lost lease can stand
\* it down.
ServingIsHeld == \A m \in Member : serving[m] \subseteq held[m]

\* A process that is running stops a service only when its live lease is not
\* its own.
NoNeedlessStandDown ==
  [][\A m \in Member, s \in Service :
       (s \in serving[m] /\ s \notin serving'[m] /\ up'[m]) => ~ Holds(Doc, s, m)]_vars

\* A member that serves a service it no longer owns stands it down or gets it
\* back.
LostIsStoodDown ==
  \A m \in Member, s \in Service :
    (s \in serving[m] /\ lease[s].owner # m)
      ~> (s \notin serving[m] \/ lease[s].owner = m)

\* Once the faults are over every service is served for good, by a member that
\* is not leaving, if there is one.
EventuallyServed ==
  \A s \in Service :
    <>[]((\E m \in Member : up[m] /\ closing[m] = "open")
           => \E m \in Member : s \in serving[m] /\ closing[m] = "open")

\* Starts stop failing: a failure is not retried for ever.
QuietWhenStuck ==
  <>[][\A m \in Member, s \in Service : ~ StartFails(m, s)]_vars

\* A service somebody could not start is started by somebody.
NextBestGetsItsTurn ==
  \A s \in Service : \A m \in Member :
    failed[m][s] # {} ~> (\E n \in Member : s \in serving[n])

\* After Close nothing is left running.
NothingServedAfterClose ==
  \A m \in Member : closing[m] = "stopped" /\ phase[m] = "exited" => serving[m] = {}
=============================================================================
