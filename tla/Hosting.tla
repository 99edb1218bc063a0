------------------------------- MODULE Hosting -------------------------------
(***************************************************************************)
(* Where the session's canonical lives: a host that starts and takes over   *)
(* (hoststart.Start, with the seed of an empty disk), its member cycle      *)
(* (Running.cycle, adoptCutoverOntoSelf), its git holder (startGitHolder,   *)
(* stopGitHolder, gitserver.PublishSession), a member that is promoted      *)
(* (joindaemon promoteToCanonical, migrate.Run), and the cutovers that      *)
(* point the session at either (migrate.flipControl, cutover.Flip).         *)
(*                                                                          *)
(* A canonical is told by its line: the history that canonical.Create began. *)
(* The lease is taken, renewed and lost as Placement has it; the relay lets  *)
(* one holder register, as Registration has it.                             *)
(***************************************************************************)
EXTENDS Naturals, FiniteSets

CONSTANTS
  Box,          \* machines a host may start on; their disks are ephemeral
  Joiner,       \* machines of members
  Nowhere,      \* no machine
  MaxGen,       \* bound on the generation that claims and operators reach
  MaxMade,      \* bound on the canonicals created
  HostFaults,   \* what may go wrong, see HostFaultKinds
  MaxHostFaults \* bound on how often

\* "die": a process dies; "lapse": a lease is not renewed for a TTL; "lost": the
\* answer to a cutover, with or without the cutover; "lag": the session a
\* process looks at is an old copy; "net": a clone or the registration fails.
HostFaultKinds == {"die", "lapse", "lost", "lag", "net"}

Machine == Box \cup Joiner
Lines == 0 .. MaxMade

ASSUME HostAssumption ==
  /\ Box \cap Joiner = {} /\ Nowhere \notin Machine
  /\ MaxGen \in Nat /\ MaxMade \in Nat
  /\ HostFaults \subseteq HostFaultKinds /\ MaxHostFaults \in Nat

VARIABLES
  gen, hostMachine, source, lease, \* the session record, its git endpoint and lease
  reported, converged, \* evidence of history: mirrors, a published main
  reg,                 \* who holds the relay's registration for git
  made, canon, mirror, \* lines begun, of each canonical, of each member's mirror
  at,                  \* where a process is
  known,               \* the generation it writes at
  held,                \* whose placement loop holds git
  claimed,             \* hosts whose Claim was granted
  promoted,            \* members with j.canonical set
  blind,    \* history: lines created with no evidence of another
  orphan,   \* history: members whose cutover failed, and that still serve
  retaken,  \* history: promoted members that took the lease again
  hostSpent

record == <<gen, hostMachine, source, lease>>
evidence == <<reported, converged>>
lines == <<made, canon, mirror, blind>>
process == <<at, known, held, claimed, promoted, orphan, retaken>>
hostVars == <<record, evidence, reg, lines, process, hostSpent>>

HostTypeOK ==
  /\ gen \in Nat /\ hostMachine \in Machine \cup {Nowhere}
  /\ source \in {"none", "host", "cutover"} /\ lease \in Machine \cup {Nowhere}
  /\ reported \subseteq Joiner /\ converged \in BOOLEAN
  /\ reg \in Machine \cup {Nowhere}
  /\ made \in Lines /\ canon \in [Machine -> Lines] /\ mirror \in [Joiner -> Lines]
  /\ at \in [Machine -> {"off", "look", "wait", "claim", "serve", "announce", "adopt",
                         "up", "retake", "rebuild", "flip"}]
  /\ \A j \in Joiner : at[j] \in {"off", "up", "rebuild", "serve", "flip"}
  /\ known \in [Machine -> Nat] /\ held \subseteq Machine
  /\ claimed \subseteq Box /\ promoted \subseteq Joiner
  /\ blind \subseteq Lines
  /\ orphan \subseteq Joiner /\ retaken \subseteq Joiner
  /\ hostSpent \in 0 .. MaxHostFaults

\* The laptop that wants a box has minted the session, and serves nothing.
HostInit ==
  /\ gen = 1 /\ hostMachine = Nowhere /\ source = "none" /\ lease = Nowhere
  /\ reported = {} /\ converged = FALSE /\ reg = Nowhere
  /\ made = 0 /\ canon = [x \in Machine |-> 0] /\ mirror = [j \in Joiner |-> 0]
  /\ at = [x \in Machine |-> "off"] /\ known = [x \in Machine |-> 0]
  /\ held = {} /\ claimed = {} /\ promoted = {}
  /\ blind = {} /\ orphan = {} /\ retaken = {} /\ hostSpent = 0

HostFault(kind) ==
  kind \in HostFaults /\ hostSpent < MaxHostFaults /\ hostSpent' = hostSpent + 1

Goes(x, to) == at' = [at EXCEPT ![x] = to]
LetsGo(x) == reg' = IF reg = x THEN Nowhere ELSE reg
Releases(x) == lease' = IF lease = x THEN Nowhere ELSE lease
NothingSpent == UNCHANGED hostSpent

\* A process ends.  Its registration goes with it, and a box's disk; its lease
\* only when it was closed in order.
Ends(x) ==
  /\ Goes(x, "off") /\ LetsGo(x)
  /\ held' = held \ {x} /\ claimed' = claimed \ {x} /\ promoted' = promoted \ {x}
  /\ orphan' = orphan \ {x} /\ retaken' = retaken \ {x}
  /\ canon' = [canon EXCEPT ![x] = 0]

-----------------------------------------------------------------------------
(* Start on an empty disk. *)

Boot(h) ==
  /\ at[h] = "off" /\ gen < MaxGen /\ Goes(h, "look")
  /\ UNCHANGED <<record, evidence, reg, lines, known, held, claimed, promoted, orphan,
                 retaken, hostSpent>>

\* Mutant: a member that is not online is no evidence.
OnlineOnly == {j \in reported : at[j] # "off"}

\* Whoever has ever reported a mirror.
Reporters == reported

HadHistory == converged \/ Reporters # {}
LiveReplica == \E j \in reported : at[j] # "off"

AfterSeed(h) == IF h \in claimed THEN "serve" ELSE "claim"

Seeds(h) == canon' = [canon EXCEPT ![h] = canon[reg]] /\ Goes(h, AfterSeed(h))

\* reseedSource, before Claim and after it.  Nothing to seed from: claim, or after
\* the claim create.  History and no replica: the host stops.  Otherwise the
\* role's address is cloned from, and when nobody serves it, the host waits.
Look(h) ==
  /\ at[h] = "look"
  /\ \/ /\ ~HadHistory /\ h \notin claimed
        /\ Goes(h, "claim") /\ UNCHANGED <<lines, reg, held, claimed, promoted, orphan, retaken>>
     \/ /\ ~HadHistory /\ h \in claimed /\ made < MaxMade
        /\ made' = made + 1 /\ canon' = [canon EXCEPT ![h] = made + 1]
        /\ blind' = IF converged \/ reported # {} THEN blind ELSE blind \cup {made + 1}
        /\ Goes(h, "serve") /\ UNCHANGED <<mirror, reg, held, claimed, promoted, orphan, retaken>>
     \/ /\ HadHistory /\ ~LiveReplica
        /\ Ends(h) /\ UNCHANGED <<made, mirror, blind>>
     \/ /\ HadHistory /\ LiveReplica
        /\ IF reg # Nowhere THEN Seeds(h) ELSE Goes(h, "wait") /\ UNCHANGED canon
        /\ UNCHANGED <<made, mirror, blind, reg, held, claimed, promoted, orphan, retaken>>
  /\ UNCHANGED <<record, evidence, known, hostSpent>>

\* waitForAGitHolderThenSeed: somebody else holds the lease, and serves, or the
\* time is up.
Wait(h) ==
  /\ at[h] = "wait"
  /\ \/ lease \notin {h, Nowhere} /\ reg # Nowhere /\ Seeds(h)
        /\ UNCHANGED <<reg, held, claimed, promoted, orphan, retaken>>
     \/ reg = Nowhere /\ Ends(h)
  /\ UNCHANGED <<record, evidence, made, mirror, blind, known, hostSpent>>

\* The takeover: the generation moves on, and the incumbent's leases are deleted.
Claim(h) ==
  /\ at[h] = "claim" /\ gen < MaxGen
  /\ gen' = gen + 1 /\ hostMachine' = h /\ known' = [known EXCEPT ![h] = gen + 1]
  /\ lease' = Nowhere /\ claimed' = claimed \cup {h}
  /\ Goes(h, IF canon[h] = 0 THEN "look" ELSE "serve")
  /\ UNCHANGED <<source, evidence, reg, lines, held, promoted, orphan, retaken, hostSpent>>

\* StartServer, and the wait for the incumbent to stand down, which is bounded.
Serve(h) ==
  /\ at[h] = "serve" /\ h \in Box
  /\ \/ reg = Nowhere /\ reg' = h /\ Goes(h, "announce") /\ NothingSpent
        /\ UNCHANGED <<canon, held, claimed, promoted, orphan, retaken>>
     \/ reg # Nowhere /\ Ends(h) /\ NothingSpent
     \/ reg = Nowhere /\ Ends(h) /\ HostFault("net")
  /\ UNCHANGED <<record, evidence, made, mirror, blind, known>>

\* announceEndpoints; a session that has moved meanwhile is joined instead.
Announce(h) ==
  /\ at[h] = "announce"
  /\ IF known[h] < gen
     THEN Ends(h) /\ UNCHANGED source
     ELSE /\ source' = "host" /\ Goes(h, "adopt")
          /\ UNCHANGED <<reg, canon, held, claimed, promoted, orphan, retaken>>
  /\ UNCHANGED <<gen, hostMachine, lease, evidence, made, mirror, blind, known, hostSpent>>

\* claimServedLeases; whether or not it was granted, the host is up.
AdoptLease(h) ==
  /\ at[h] = "adopt" /\ Goes(h, "up")
  /\ IF lease \in {h, Nowhere}
     THEN lease' = h /\ held' = held \cup {h} ELSE UNCHANGED <<lease, held>>
  /\ UNCHANGED <<gen, hostMachine, source, evidence, reg, lines, known, claimed, promoted,
                 orphan, retaken, hostSpent>>

-----------------------------------------------------------------------------
(* A host that is up. *)

\* Mutant: the machine the session names is not compared.
AnyCutover(h) == source = "cutover"

\* adoptCutoverOntoSelf.  The endpoint's address names the role, so that comparing
\* it tells nothing.
OntoSelf(h) == hostMachine = h /\ source = "cutover"

\* The cycle is refused: a cutover onto this host is adopted, from what the process
\* knows of the session; anything else ends the hosting.
Refused(h) ==
  /\ at[h] = "up" /\ h \in Box /\ known[h] < gen
  /\ \/ /\ OntoSelf(h) /\ known' = [known EXCEPT ![h] = gen]
        /\ NothingSpent
        /\ UNCHANGED <<lease, reg, canon, at, held, claimed, promoted, orphan, retaken>>
     \/ /\ IF OntoSelf(h) THEN HostFault("lag") ELSE NothingSpent
        /\ Ends(h) /\ (IF h \in held THEN Releases(h) ELSE UNCHANGED lease)
        /\ UNCHANGED known
  /\ UNCHANGED <<gen, hostMachine, source, evidence, made, mirror, blind>>

\* stopGitHolder and stopService: the registration goes with the lease.
StandDown(x) ==
  /\ x \in held /\ lease # x /\ at[x] = "up" /\ (x \in Box => known[x] = gen)
  /\ held' = held \ {x} /\ LetsGo(x)
  /\ UNCHANGED <<record, evidence, lines, at, known, claimed, promoted, orphan, retaken,
                 hostSpent>>

\* The lease is free, or its own from before, and a host that serves takes it.
Retake(h) ==
  /\ at[h] = "up" /\ h \in Box \ held /\ lease \in {Nowhere, h} /\ known[h] = gen
  /\ lease' = h /\ Goes(h, "retake")
  /\ UNCHANGED <<gen, hostMachine, source, evidence, reg, lines, known, held, claimed,
                 promoted, orphan, retaken, hostSpent>>

\* Mutant: the loopback listener is up, so there is nothing to start.
NothingToStart(h) == UNCHANGED reg

\* startGitHolder
Publishes(h) == reg' = h

\* A registration that is refused gives the lease back.
Republish(h) ==
  /\ at[h] = "retake" /\ Goes(h, "up")
  /\ \/ reg \in {h, Nowhere} /\ Publishes(h) /\ held' = held \cup {h} /\ NothingSpent
        /\ UNCHANGED lease
     \/ /\ IF reg \in {h, Nowhere} THEN HostFault("net") ELSE NothingSpent
        /\ Releases(h) /\ UNCHANGED <<reg, held>>
  /\ UNCHANGED <<gen, hostMachine, source, evidence, lines, known, claimed, promoted,
                 orphan, retaken>>

\* `box add` points the session at the box that has just announced itself.
OperatorFlips(h) ==
  /\ at[h] = "up" /\ h \in Box /\ known[h] = gen /\ source = "host" /\ gen < MaxGen
  /\ gen' = gen + 1 /\ source' = "cutover"
  /\ UNCHANGED <<hostMachine, lease, evidence, reg, lines, process, hostSpent>>

-----------------------------------------------------------------------------
(* Members. *)

Joins(j) ==
  /\ at[j] = "off" /\ (reg # Nowhere \/ mirror[j] # 0)
  /\ Goes(j, "up")
  /\ mirror' = [mirror EXCEPT ![j] = IF reg # Nowhere THEN canon[reg] ELSE @]
  /\ UNCHANGED <<record, evidence, reg, made, canon, blind, known, held, claimed, promoted,
                 orphan, retaken, hostSpent>>

Fetches(j) ==
  /\ at[j] = "up" /\ reg \notin {Nowhere, j} /\ mirror[j] # canon[reg]
  /\ mirror' = [mirror EXCEPT ![j] = canon[reg]]
  /\ UNCHANGED <<record, evidence, reg, made, canon, blind, process, hostSpent>>

Reports(j) ==
  /\ at[j] = "up" /\ j \notin reported /\ reported' = reported \cup {j}
  /\ UNCHANGED <<record, converged, reg, lines, process, hostSpent>>

Converges ==
  /\ ~converged /\ reg # Nowhere /\ converged' = TRUE
  /\ UNCHANGED <<record, reported, reg, lines, process, hostSpent>>

\* ShouldClaim and Holds: the lease is its own from before, or free, and no box that
\* is up outranks it, as far as it knows.
MayTake(j) ==
  \/ lease = j /\ NothingSpent
  \/ /\ lease = Nowhere
     /\ IF \E h \in Box : at[h] \in {"up", "retake"} THEN HostFault("lag") ELSE NothingSpent

\* A member takes the lease.  One that was canonical before, and is still running,
\* has nothing left to do: promoteToCanonical returns at once.
TakesGit(j) ==
  /\ at[j] = "up" /\ j \in Joiner \ held /\ MayTake(j) /\ lease' = j
  /\ IF j \in promoted
     THEN held' = held \cup {j} /\ retaken' = retaken \cup {j} /\ UNCHANGED at
     ELSE Goes(j, "rebuild") /\ UNCHANGED <<held, retaken>>
  /\ UNCHANGED <<gen, hostMachine, source, evidence, reg, lines, known, claimed, promoted,
                 orphan>>

\* reconstruct, from the member's own mirror.
Rebuilds(j) ==
  /\ at[j] = "rebuild" /\ Goes(j, "serve")
  /\ canon' = [canon EXCEPT ![j] = mirror[j]]
  /\ UNCHANGED <<record, evidence, reg, made, mirror, blind, known, held, claimed, promoted,
                 orphan, retaken, hostSpent>>

\* StartServer, which is refused while anybody serves, itself included, and the
\* look at the session for its generation.
Serves(j) ==
  /\ at[j] = "serve" /\ j \in Joiner
  /\ \/ /\ reg = Nowhere /\ reg' = j /\ Goes(j, "flip")
        /\ \/ known' = [known EXCEPT ![j] = gen] /\ NothingSpent
           \/ known' = [known EXCEPT ![j] = gen - 1] /\ HostFault("lag")
        /\ UNCHANGED lease
     \/ /\ IF reg = Nowhere THEN HostFault("net") ELSE NothingSpent
        /\ Goes(j, "up") /\ Releases(j) /\ UNCHANGED <<reg, known>>
  /\ UNCHANGED <<gen, hostMachine, source, evidence, lines, held, claimed, promoted, orphan,
                 retaken>>

CutOver(j) == gen' = gen + 1 /\ hostMachine' = j /\ source' = "cutover"

\* flipControl.  When it fails, the error is all that is left of the server, which
\* goes on serving.
Flips(j) ==
  /\ at[j] = "flip" /\ Goes(j, "up")
  /\ \/ /\ known[j] = gen /\ CutOver(j) /\ NothingSpent
        /\ promoted' = promoted \cup {j} /\ held' = held \cup {j}
        /\ UNCHANGED <<lease, orphan>>
     \/ /\ \/ known[j] < gen /\ NothingSpent /\ UNCHANGED <<gen, hostMachine, source>>
           \/ /\ HostFault("lost")
              /\ \/ UNCHANGED <<gen, hostMachine, source>>
                 \/ known[j] = gen /\ CutOver(j)
        /\ orphan' = orphan \cup {j} /\ Releases(j) /\ UNCHANGED <<promoted, held>>
  /\ UNCHANGED <<evidence, reg, lines, known, claimed, retaken>>

-----------------------------------------------------------------------------
Dies(x) ==
  /\ at[x] # "off" /\ HostFault("die") /\ Ends(x)
  /\ UNCHANGED <<record, evidence, made, mirror, blind, known>>

\* Whose loop or cycle would renew it, or take it up again.
Renews(x) ==
  x \in held \/ at[x] \in {"up", "retake", "rebuild"} \/ (x \in Joiner /\ at[x] # "off")

\* The TTL passes, for a process that does not renew, or that does not get to.
Lapses ==
  /\ lease # Nowhere /\ lease' = Nowhere
  /\ IF Renews(lease) THEN HostFault("lapse") ELSE NothingSpent
  /\ UNCHANGED <<gen, hostMachine, source, evidence, reg, lines, process>>

StandsUp(h) ==
  Look(h) \/ Wait(h) \/ Claim(h) \/ Serve(h) \/ Announce(h) \/ AdoptLease(h)
Hosts(h) == Refused(h) \/ StandDown(h) \/ Retake(h) \/ Republish(h)
Promotes(j) == StandDown(j) \/ TakesGit(j) \/ Rebuilds(j) \/ Serves(j) \/ Flips(j)

HostNext ==
  \/ \E h \in Box : Boot(h) \/ StandsUp(h) \/ Hosts(h) \/ OperatorFlips(h)
  \/ \E j \in Joiner : Joins(j) \/ Fetches(j) \/ Reports(j) \/ Promotes(j)
  \/ Converges \/ Lapses
  \/ \E x \in Machine : Dies(x)

HostSpec == HostInit /\ [][HostNext]_hostVars

\* Processes run on, and a lease nobody renews lapses.  Nobody need boot or join.
HostFairness ==
  /\ \A h \in Box : WF_hostVars(StandsUp(h)) /\ WF_hostVars(Hosts(h))
  /\ \A j \in Joiner : WF_hostVars(Promotes(j))
  /\ WF_hostVars(lease # Nowhere /\ ~Renews(lease) /\ Lapses)

HostFairSpec == HostSpec /\ HostFairness

-----------------------------------------------------------------------------
\* What is published over a session that has history continues it: a line is begun
\* only by a host that found no evidence of any.
OneHistory == reg # Nowhere => canon[reg] \in blind

\* A host that writes at the session's generation is the one the session names.
OneHost == \A h \in Box : at[h] = "up" /\ known[h] = gen => hostMachine = h

Able == \/ \E j \in Joiner : at[j] # "off" /\ mirror[j] # 0
        \/ \E h \in Box : at[h] = "up"

\* As long as a member or a host is there that can, git is served by whoever holds
\* its lease, again and again, whoever took over, died or lost the lease.
GitIsServed ==
  <>[](Able /\ orphan = {} /\ retaken = {})
    => []<>(reg # Nowhere /\ reg = lease)

\* The comment on PublishSession: it is used when a machine takes the lease back.
LeaseIsPublished ==
  \A j \in Joiner : (lease = j /\ j \in held) ~> (reg = j \/ lease # j)
=============================================================================
