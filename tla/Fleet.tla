------------------------------- MODULE Fleet -------------------------------
(***************************************************************************)
(* A member that conducts: the fleet that startConductor builds             *)
(* (joindaemon/placement.go, conductor/sessionfleet.go), its tick           *)
(* (conductor/fleet.go), the setup role, which scaffolds the project beside *)
(* the ticks (conductor/setup.go, setup_handover.go), and the error-watcher *)
(* (conductor/errorwatcher.go, health.go).                                  *)
(*                                                                          *)
(* main is what the roles tell apart of it.  A role works in a clone of the *)
(* hub and pushes; moved says that main has moved since it cloned.  Time is *)
(* told apart where the code does: whether the burst has settled, whether   *)
(* the cooldown is over, whether the next refresh is due.                   *)
(***************************************************************************)
EXTENDS Naturals, Sequences, FiniteSets, SequencesExt

CONSTANTS
  Kind,          \* what a line on stderr may say; each has its fingerprint
  HealthStreak,  \* probes that fail in a row before the watcher acts
  MaxFleets,     \* bound on the fleets the member builds
  MaxLogged,     \* bound on the lines on stderr
  MaxAhead,      \* bound on the pushes of other members
  FleetFaults,   \* what may go wrong, see FleetFaultKinds
  MaxFleetFaults \* bound on how often

\* "agent": a harness fails; "drop": it loses the contract; "git": a clone or
\* a push fails; "ail": the dev server stops answering.
FleetFaultKinds == {"agent", "drop", "git", "ail"}

Fleets == 1 .. MaxFleets

ASSUME FleetAssumption ==
  /\ HealthStreak \in Nat \ {0} /\ MaxFleets \in Nat /\ MaxLogged \in Nat
  /\ MaxAhead \in Nat
  /\ FleetFaults \subseteq FleetFaultKinds /\ MaxFleetFaults \in Nat

Main == [brief : BOOLEAN, project : BOOLEAN, marker : {"none", "scaffold", "adapt"},
         protocol : BOOLEAN]

\* whole: the work tree has the protocol; moved: main is not what was cloned.
Job == [at : {"none", "clone", "agent", "merge", "push"},
        mode : {"scaffold", "adapt"}, whole : BOOLEAN, moved : BOOLEAN]
NoJob == [at |-> "none", mode |-> "scaffold", whole |-> TRUE, moved |-> FALSE]

VARIABLES
  scene, \* bound: a session that scaffolds, or a fleet whose dev server has errors
  hub, replica, afar, \* main, this machine's mirror of it, and whether it needs one
  ahead, pushes,      \* a branch is ahead of main
  conducts, built,    \* j.fleet, and how many there have been
  ticking, roles,     \* the fleet being ticked, and which of its Roles still run
  due,                \* RefreshGate: the floor has passed
  slot,               \* Fleet.inFlight
  job,                \* Setup.Tick of each fleet: where it is, its mode, its work tree
  scaffolds,          \* history: setup's commits on main, up to 2
  logs, endpoints,    \* stderr, and whether dev has published its endpoints
  watches, watcher,   \* what each fleet watches; the fleet whose ErrorWatcher it is
  seen, pending, ripe, cooling, fixed, unhealthy, healthFixed, \* ErrorWatcher
  fixing, movedFix,   \* what its harness works on, and its clone
  ailing, tried, shadowed, \* the dev server; history: kinds fixed, or behind another
  fleetSpent

mains == <<scene, hub, replica, afar>>
others == <<ahead, pushes, logs, endpoints, ailing>>
ticker == <<conducts, built, ticking, roles, due>>
setup == <<slot, job, scaffolds>>
watch == <<watches, watcher, seen, pending, ripe, cooling, fixed, unhealthy, healthFixed,
           fixing, movedFix, tried, shadowed>>
fleetVars == <<mains, others, ticker, setup, watch, fleetSpent>>

FleetTypeOK ==
  /\ scene \in {"scaffold", "errors"}
  /\ hub \in Main /\ replica \in Main /\ afar \in BOOLEAN
  /\ ahead \in BOOLEAN /\ pushes \in 0 .. MaxAhead
  /\ conducts \in {0} \cup Fleets /\ built \in 0 .. MaxFleets
  /\ ticking \in {0} \cup Fleets /\ roles \subseteq {"merger", "error-watcher"}
  /\ due \in BOOLEAN
  /\ slot \in [Fleets -> BOOLEAN]
  /\ job \in [Fleets -> Job] /\ \A f \in Fleets : slot[f] = (job[f].at # "none")
  /\ scaffolds \in 0 .. 2
  /\ logs \in Seq(Kind) /\ endpoints \in BOOLEAN
  /\ watches \in [Fleets -> SUBSET {"logs", "health"}] /\ watcher \in {0} \cup Fleets
  /\ seen \in 0 .. MaxLogged /\ pending \in Seq(Kind)
  /\ ripe \in BOOLEAN /\ cooling \in BOOLEAN /\ fixed \subseteq Kind
  /\ unhealthy \in 0 .. HealthStreak /\ healthFixed \in BOOLEAN
  /\ fixing \in {"none", "logs", "health"}
  /\ movedFix \in BOOLEAN /\ ailing \in BOOLEAN
  /\ tried \subseteq Kind /\ shadowed \subseteq Kind
  /\ fleetSpent \in 0 .. MaxFleetFaults

\* The session begins with its contracts, and a project may have been brought;
\* its brief and dev's endpoints come later.
FleetInit ==
  /\ scene \in {"scaffold", "errors"}
  /\ hub \in [brief : {FALSE}, project : BOOLEAN, marker : {"none"}, protocol : {TRUE}]
  /\ (scene = "errors" => hub.project)
  /\ replica = hub /\ afar \in BOOLEAN
  /\ ahead = FALSE /\ pushes = 0
  /\ conducts = 0 /\ built = 0 /\ ticking = 0 /\ roles = {} /\ due = TRUE
  /\ slot = [f \in Fleets |-> FALSE] /\ job = [f \in Fleets |-> NoJob]
  /\ scaffolds = 0
  /\ logs = <<>> /\ endpoints = FALSE
  /\ watches = [f \in Fleets |-> {}] /\ watcher = 0
  /\ seen = 0 /\ pending = <<>> /\ ripe = FALSE /\ cooling = FALSE /\ fixed = {}
  /\ unhealthy = 0 /\ healthFixed = FALSE /\ fixing = "none" /\ movedFix = FALSE
  /\ ailing = FALSE /\ tried = {} /\ shadowed = {} /\ fleetSpent = 0

FleetFault(kind) ==
  kind \in FleetFaults /\ fleetSpent < MaxFleetFaults /\ fleetSpent' = fleetSpent + 1

\* main advances: whoever has cloned it will be refused.  On the hub itself
\* the mirror is main.
MainMoves(new) ==
  /\ hub' = new
  /\ replica' = IF afar THEN replica ELSE new
  /\ movedFix' = (fixing # "none")
  /\ UNCHANGED <<scene, afar>>

MainStays == UNCHANGED <<mains, movedFix>>

Cloned(f) == job[f].at \in {"agent", "merge", "push"}
Overtaken == [f \in Fleets |-> [job[f] EXCEPT !.moved = @ \/ Cloned(f)]]

-----------------------------------------------------------------------------
(* What the others do. *)

WriteBrief ==
  /\ scene = "scaffold" /\ ~hub.brief
  /\ MainMoves([hub EXCEPT !.brief = TRUE])
  /\ job' = Overtaken
  /\ UNCHANGED <<others, ticker, slot, scaffolds, watches, watcher, seen, pending, ripe,
                 cooling, fixed, unhealthy, healthFixed, fixing, tried, shadowed,
                 fleetSpent>>

Push ==
  /\ ~ahead /\ pushes < MaxAhead
  /\ ahead' = TRUE /\ pushes' = pushes + 1
  /\ UNCHANGED <<mains, logs, endpoints, ailing, ticker, setup, watch, fleetSpent>>

Log(k) ==
  /\ scene = "errors" /\ Len(logs) < MaxLogged
  /\ logs' = Append(logs, k)
  /\ UNCHANGED <<mains, ahead, pushes, endpoints, ailing, ticker, setup, watch,
                 fleetSpent>>

\* Only a fleet that is built later has any use of it.
PublishEndpoints ==
  /\ scene = "errors" /\ ~endpoints /\ conducts = 0 /\ endpoints' = TRUE
  /\ UNCHANGED <<mains, ahead, pushes, logs, ailing, ticker, setup, watch, fleetSpent>>

Ail ==
  /\ scene = "errors" /\ ~ailing /\ FleetFault("ail") /\ ailing' = TRUE
  /\ UNCHANGED <<mains, ahead, pushes, logs, endpoints, ticker, setup, watch>>

Recover ==
  /\ ailing /\ ailing' = FALSE
  /\ UNCHANGED <<mains, ahead, pushes, logs, endpoints, ticker, setup, watch,
                 fleetSpent>>

-----------------------------------------------------------------------------
(* The lease comes and goes, and the loop ticks. *)

\* BuildSessionFleet: a member away from the hub derives the address of the logs,
\* the others need dev's endpoints.
Watchable ==
  {w \in {"logs", "health"} : scene = "errors" /\ (endpoints \/ (afar /\ w = "logs"))}

\* startConductor: another fleet, and what it watches is settled for good.
Elect ==
  /\ conducts = 0 /\ built < MaxFleets
  /\ built' = built + 1 /\ conducts' = built + 1
  /\ replica' = hub
  /\ watches' = [watches EXCEPT ![built + 1] = Watchable]
  /\ UNCHANGED <<scene, hub, afar, others, ticking, roles, due, setup, watcher, seen,
                 pending, ripe, cooling, fixed, unhealthy, healthFixed, fixing,
                 movedFix, tried, shadowed, fleetSpent>>

\* stopService: the pointers go; a tick that runs and the detached role go on.
LetGoOfTheFleet ==
  /\ scene = "scaffold" /\ conducts # 0
  /\ conducts' = 0
  /\ UNCHANGED <<mains, others, built, ticking, roles, due, setup, watch,
                 fleetSpent>>

FloorPasses ==
  /\ scene = "scaffold" /\ ~due /\ due' = TRUE
  /\ UNCHANGED <<mains, others, conducts, built, ticking, roles, setup, watch,
                 fleetSpent>>

\* Setup.Tick has something to do: there is a brief and no marker.
Wanted(bare) == bare.brief /\ bare.marker = "none"

\* tickFleet: refreshes when that is due, or a frame came, and always on the hub;
\* starts setup unless it still runs, which reads the mirror and may return at
\* once; begins its Roles.
BeginTick ==
  /\ conducts # 0 /\ ticking = 0
  /\ ticking' = conducts
  /\ \/ ~due /\ UNCHANGED <<replica, due>>
     \/ replica' = hub /\ due' = ~afar
  /\ IF slot[conducts] \/ ~Wanted(replica')
     THEN UNCHANGED <<slot, job>>
     ELSE /\ slot' = [slot EXCEPT ![conducts] = TRUE]
          /\ job' = [job EXCEPT ![conducts] =
                       [NoJob EXCEPT !.at = "clone",
                          !.mode = IF replica'.project THEN "adapt" ELSE "scaffold"]]
  /\ roles' = {"merger"} \cup {r \in {"error-watcher"} : "logs" \in watches[conducts]}
  /\ IF watcher = conducts
     THEN UNCHANGED <<watcher, seen, pending, ripe, cooling, fixed, unhealthy,
                      healthFixed>>
     ELSE /\ watcher' = conducts
          /\ seen' = 0 /\ pending' = <<>> /\ ripe' = FALSE /\ cooling' = FALSE
          /\ fixed' = {} /\ unhealthy' = 0 /\ healthFixed' = FALSE
  /\ UNCHANGED <<scene, hub, afar, others, conducts, built, scaffolds,
                 watches, fixing, movedFix, tried, shadowed, fleetSpent>>

\* Mutant: the detached role is waited for too.
WaitsForAll == roles # {} \/ (ticking # 0 /\ slot[ticking])

\* runRoles waits for its Roles, and nothing else does.
Waits == roles # {}

EndTick ==
  /\ ticking # 0 /\ ~Waits
  /\ ticking' = 0
  /\ UNCHANGED <<mains, others, conducts, built, roles, due, setup, watch,
                 fleetSpent>>

\* The merger's tick merges what is ahead, or fails and is back in the next one.
Merge ==
  /\ "merger" \in roles
  /\ roles' = roles \ {"merger"}
  /\ \/ ahead /\ ahead' = FALSE /\ MainMoves(hub) /\ job' = Overtaken
        /\ UNCHANGED fleetSpent
     \/ ahead /\ FleetFault("git") /\ MainStays /\ UNCHANGED <<ahead, job>>
     \/ ~ahead /\ MainStays /\ UNCHANGED <<ahead, job, fleetSpent>>
  /\ UNCHANGED <<pushes, logs, endpoints, ailing, conducts, built, ticking, due, slot,
                 scaffolds, watches, watcher, seen, pending, ripe, cooling, fixed,
                 unhealthy, healthFixed, fixing, tried, shadowed>>

-----------------------------------------------------------------------------
(* Setup.Tick, in its own goroutine, once per fleet at a time. *)

\* Mutant: the slot is given back when the role has landed something.
ReleasedIfLanded(f, landed) == IF landed THEN [slot EXCEPT ![f] = FALSE] ELSE slot

\* The deferred release.
Released(f, landed) == [slot EXCEPT ![f] = FALSE]

SetupReturns(f, landed) ==
  job' = [job EXCEPT ![f] = NoJob] /\ slot' = Released(f, landed)

SetupIs(f, at, whole) ==
  job' = [job EXCEPT ![f].at = at, ![f].whole = whole] /\ UNCHANGED slot

\* What it works in is cloned from the hub, and not read again.
SetupClones(f) ==
  /\ job[f].at = "clone"
  /\ \/ SetupIs(f, "agent", hub.protocol) /\ UNCHANGED fleetSpent
     \/ SetupReturns(f, FALSE) /\ FleetFault("git")
  /\ UNCHANGED <<mains, others, ticker, scaffolds, watch>>

\* Mutant: what the merge turn left is not looked at.
LooksFine(kept) == TRUE

\* heldFiles.verify
Verified(kept) == kept

HandsOver(f, kept) ==
  IF Verified(kept) THEN SetupIs(f, "push", kept) ELSE SetupReturns(f, FALSE)

\* A turn of the agent.  A scaffold starts without slopball's files, which
\* return afterwards, and those it wrote itself are for a second turn to merge.
\* An adaptation has no such turn, and what it loses is not looked for.
AgentTurn(f) ==
  /\ job[f].at = "agent"
  /\ \/ SetupReturns(f, FALSE) /\ FleetFault("agent")
     \/ /\ job[f].mode = "adapt"
        /\ \/ SetupIs(f, "push", job[f].whole) /\ UNCHANGED fleetSpent
           \/ SetupIs(f, "push", FALSE) /\ FleetFault("drop")
     \/ /\ job[f].mode = "scaffold" /\ UNCHANGED fleetSpent
        /\ SetupIs(f, "merge", job[f].whole) \/ HandsOver(f, job[f].whole)
  /\ UNCHANGED <<mains, others, ticker, scaffolds, watch>>

\* The second turn.
MergeTurn(f) ==
  /\ job[f].at = "merge"
  /\ \/ SetupReturns(f, FALSE) /\ FleetFault("agent")
     \/ HandsOver(f, job[f].whole) /\ UNCHANGED fleetSpent
     \/ HandsOver(f, FALSE) /\ FleetFault("drop")
  /\ UNCHANGED <<mains, others, ticker, scaffolds, watch>>

\* One commit with the project, the port and the marker, unless main has moved.
SetupPushes(f) ==
  /\ job[f].at = "push"
  /\ \/ /\ ~job[f].moved
        /\ MainMoves([hub EXCEPT !.project = TRUE, !.marker = job[f].mode,
                                 !.protocol = job[f].whole])
        /\ job' = [Overtaken EXCEPT ![f] = NoJob] /\ slot' = Released(f, TRUE)
        /\ scaffolds' = Min({scaffolds + 1, 2}) /\ UNCHANGED fleetSpent
     \/ /\ IF job[f].moved THEN UNCHANGED fleetSpent ELSE FleetFault("git")
        /\ SetupReturns(f, FALSE) /\ MainStays /\ UNCHANGED scaffolds
  /\ UNCHANGED <<others, ticker, watches, watcher, seen, pending, ripe, cooling,
                 fixed, unhealthy, healthFixed, fixing, tried, shadowed>>

-----------------------------------------------------------------------------
(* ErrorWatcher.Tick. *)

\* The burst has been quiet for Settle, or has waited for MaxWait.
Ripen ==
  /\ pending # <<>> /\ ~ripe /\ ripe' = TRUE
  /\ UNCHANGED <<mains, others, ticker, setup, watches, watcher, seen, pending,
                 cooling, fixed, unhealthy, healthFixed, fixing, movedFix, tried,
                 shadowed, fleetSpent>>

CoolOff ==
  /\ cooling /\ cooling' = FALSE
  /\ UNCHANGED <<mains, others, ticker, setup, watches, watcher, seen, pending,
                 ripe, fixed, unhealthy, healthFixed, fixing, movedFix, tried,
                 shadowed, fleetSpent>>

WatcherReturns == roles' = roles \ {"error-watcher"}

\* Mutant: the cooldown drops what has come.
HeldNot(burst) == <<>>

\* The cooldown holds what has come for a later tick.
Held(burst) == burst

\* bank: what it acted on is not acted on again.
Bank ==
  /\ cooling' = TRUE /\ pending' = <<>> /\ ripe' = FALSE
  /\ IF fixing = "health"
     THEN healthFixed' = TRUE /\ unhealthy' = 0 /\ UNCHANGED fixed
     ELSE fixed' = fixed \cup {Head(pending)} /\ UNCHANGED <<healthFixed, unhealthy>>

Ripe(new) == IF new # <<>> /\ ripe THEN BOOLEAN ELSE {ripe}

\* Which trigger is due: the settled burst first, then the outage.
Trigger(burst, settled, failures, answered) ==
  CASE burst # <<>> /\ settled -> "logs"
    [] ~(burst # <<>> /\ settled) /\ failures = HealthStreak /\ answered -> "health"
    [] OTHER -> "none"

\* Tick up to the harness.  A burst whose first error was fixed before is dropped
\* whole.
Watch ==
  LET new == SubSeq(logs, seen + 1, Len(logs))
      burst == pending \o new
      failing == ailing /\ "health" \in watches[ticking]
      failures == IF failing THEN Min({unhealthy + 1, HealthStreak}) ELSE 0
  IN /\ "error-watcher" \in roles /\ fixing = "none"
     /\ seen' = Len(logs)
     /\ unhealthy' = failures /\ healthFixed' = (healthFixed /\ failing)
     /\ \E settled \in Ripe(new) :
          LET by == Trigger(burst, settled, failures, ~healthFixed')
          IN IF by = "none" \/ cooling
             THEN /\ pending' = (IF by = "none" THEN burst ELSE Held(burst))
                  /\ ripe' = (settled /\ pending' # <<>>)
                  /\ WatcherReturns
                  /\ UNCHANGED <<fixing, movedFix, tried, shadowed, fleetSpent>>
             ELSE IF by = "logs" /\ Head(burst) \in fixed
             THEN /\ pending' = <<>> /\ ripe' = FALSE /\ WatcherReturns
                  /\ shadowed' = shadowed \cup (Range(burst) \ fixed)
                  /\ UNCHANGED <<fixing, movedFix, tried, fleetSpent>>
             ELSE /\ pending' = burst /\ ripe' = settled
                  /\ \/ /\ fixing' = by /\ movedFix' = FALSE
                        /\ tried' = IF by = "logs" THEN tried \cup {Head(burst)} ELSE tried
                        /\ shadowed' = shadowed \cup (Range(burst) \ tried')
                        /\ UNCHANGED <<roles, fleetSpent>>
                     \/ /\ WatcherReturns /\ FleetFault("git")
                        /\ UNCHANGED <<fixing, movedFix, tried, shadowed>>
  /\ UNCHANGED <<mains, others, conducts, built, ticking, due, setup, watches,
                 watcher, cooling, fixed>>

\* The harness is done.  One that failed, or changed nothing, is banked like a
\* fix that was pushed; one that could not be pushed is not.
Fix ==
  /\ fixing # "none"
  /\ fixing' = "none" /\ WatcherReturns
  /\ \/ /\ Bank /\ MainStays /\ UNCHANGED job
        /\ UNCHANGED fleetSpent \/ FleetFault("agent")
     \/ /\ ~movedFix /\ Bank /\ MainMoves(hub) /\ job' = Overtaken
        /\ UNCHANGED fleetSpent
     \/ /\ IF movedFix THEN UNCHANGED fleetSpent ELSE FleetFault("git")
        /\ MainStays
        /\ UNCHANGED <<job, pending, ripe, cooling, fixed, unhealthy, healthFixed>>
  /\ UNCHANGED <<others, conducts, built, ticking, due, slot, scaffolds, watches,
                 watcher, seen, tried, shadowed>>

-----------------------------------------------------------------------------
Setting(f) == SetupClones(f) \/ SetupPushes(f)

FleetNext ==
  \/ WriteBrief \/ Push \/ PublishEndpoints \/ Ail \/ Recover
  \/ \E k \in Kind : Log(k)
  \/ Elect \/ LetGoOfTheFleet \/ FloorPasses \/ BeginTick \/ EndTick \/ Merge
  \/ \E f \in Fleets : Setting(f) \/ AgentTurn(f) \/ MergeTurn(f)
  \/ Ripen \/ CoolOff \/ Watch \/ Fix

FleetSpec == FleetInit /\ [][FleetNext]_fleetVars

\* The loop ticks on, time passes, commands end.  An agent's turn need not.
FleetFairness ==
  /\ WF_fleetVars(BeginTick \/ EndTick \/ Merge)
  /\ WF_fleetVars(Watch \/ Fix)
  /\ WF_fleetVars(FloorPasses) /\ WF_fleetVars(Ripen \/ CoolOff)
  /\ \A f \in Fleets : WF_fleetVars(Setting(f))

FleetFairSpec == FleetSpec /\ FleetFairness

-----------------------------------------------------------------------------
\* A branch that is ahead is merged while a member conducts, however long an
\* agent scaffolds.
AheadIsMerged == ahead ~> ~ahead \/ conducts = 0

\* Whatever fails on the way, and whoever conducted before, a brief becomes a
\* project, when agents come back.
BriefBecomesProject ==
  (\A f \in Fleets : []<>(job[f].at \notin {"agent", "merge"}))
    => (hub.brief ~> hub.marker # "none" \/ conducts = 0)

\* An error on stderr reaches a harness, unless another error stood before it
\* in its burst; no cooldown, outage or failure loses it.
ErrorReachesHarness ==
  \A k \in Kind :
    k \in Range(logs) ~> \/ k \in tried \cup shadowed \/ conducts = 0
                         \/ "logs" \notin watches[conducts]

\* What a scaffold lands still carries the protocol.
ScaffoldKeepsProtocol == hub.marker = "scaffold" => hub.protocol

\* What the comment on Setup says: exactly one commit lands on main.
ScaffoldsOnce == scaffolds <= 1
=============================================================================
