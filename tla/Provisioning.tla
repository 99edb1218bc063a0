---------------------------- MODULE Provisioning ----------------------------
(***************************************************************************)
(* A box for the session: box.Provision over ssh (box/box.go), the two      *)
(* commands around it - box add (cli/verbs.go, provisionAndCutover) and the *)
(* first run that starts on a box (cli/firstrun.go, standUpOnBox) - and the *)
(* managed box the control plane provisions instead (WaitForBox).           *)
(*                                                                          *)
(* What the container does is the host process of Hosting; here it boots,   *)
(* claims with --takeover and announces, or does not.                       *)
(***************************************************************************)
EXTENDS Naturals

CONSTANTS
  BoxFaults,    \* what may go wrong, see BoxFaultKinds
  MaxBoxFaults, \* bound on how often
  MaxAgain      \* bound on how often box add is run again after it failed

\* "read": a read of the session fails; "prepare": docker, its network, the image,
\* the egress rules or the container cannot be had; "boot": the container reports
\* an error; "slow": it does not announce in time; "other": somebody else takes
\* over meanwhile; "late": a later step of the command fails.
BoxFaultKinds == {"read", "prepare", "boot", "slow", "other", "late"}

ASSUME BoxAssumption ==
  BoxFaults \subseteq BoxFaultKinds /\ MaxBoxFaults \in Nat /\ MaxAgain \in Nat

VARIABLES
  flow,      \* "add", or the first run: "byo" over ssh, "managed"
  networked, \* the session has a relay: addresses name the role
  opts,      \* the flags that change what happens
  image,     \* the image on the box's machine, against this CLI's version
  step,      \* where the command is
  seed,      \* whose canonical the box clones
  base,      \* readBaseline
  pinned,    \* the session's generation
  serves,    \* whose git endpoint is published
  seen,      \* whose endpoint Provision took for the box's, at which generation
  container, \* the box
  earlier,   \* the container of that name that the box replaces still runs
  recorded,  \* the session's record names that target and container (PutBox)
  envFile,   \* the member's secret lies on the box's disk
  managed,   \* the record of a managed box
  ended,     \* EndSession
  again, boxSpent

boxVars == <<flow, networked, opts, image, step, seed, base, pinned, serves, seen, container,
             earlier, recorded, envFile, managed, ended, again, boxSpent>>

MaxPinned == 5
Sites == {"none", "laptop", "old", "box", "other"}
Baseline == [generation : 0 .. MaxPinned, git : Sites \cup {"role"}]
Steps == {"claim", "seed", "invite", "validate", "preflight", "image", "baseline", "egress",
          "replace", "secret", "run", "waits", "version", "asks", "watches", "cutover", "join",
          "scaffold", "done", "failed"}
\* strict: --require-version-match; local: --build-local; release: this CLI has a
\* published image; takeover: not --no-cutover.
Options == [strict : BOOLEAN, local : BOOLEAN, release : BOOLEAN, takeover : BOOLEAN]

BoxTypeOK ==
  /\ flow \in {"add", "byo", "managed"} /\ networked \in BOOLEAN /\ opts \in Options
  /\ image \in {"none", "stale", "current"} /\ step \in Steps /\ seed \in Sites
  /\ base \in Baseline /\ pinned \in 0 .. MaxPinned /\ serves \in Sites
  /\ seen \in [host : Sites, generation : 0 .. MaxPinned]
  /\ container \in {"none", "boots", "claimed", "serves", "client", "error"}
  /\ earlier \in BOOLEAN /\ recorded \in BOOLEAN /\ envFile \in BOOLEAN
  /\ managed \in {"none", "requested", "provisioning", "ready", "failed"}
  /\ ended \in BOOLEAN /\ again \in 0 .. MaxAgain /\ boxSpent \in 0 .. MaxBoxFaults

\* box add finds a session that lives somewhere, perhaps on the box it replaces,
\* which the record then names; the first run has none yet, and takes over.
BoxInit ==
  /\ flow \in {"add", "byo", "managed"} /\ networked \in BOOLEAN
  /\ opts \in {o \in Options : flow # "add" => o.takeover}
  /\ image \in {"none", "stale"}
  /\ step = (IF flow = "add" THEN "seed" ELSE "claim") /\ seed = "none"
  /\ base = [generation |-> 0, git |-> "none"]
  /\ earlier \in (IF flow = "add" THEN BOOLEAN ELSE {FALSE}) /\ recorded = earlier
  /\ pinned = (IF flow = "add" THEN 1 ELSE 0)
  /\ serves = (IF flow # "add" THEN "none" ELSE IF earlier THEN "old" ELSE "laptop")
  /\ seen = [host |-> "none", generation |-> 0]
  /\ container = "none" /\ envFile = FALSE /\ managed = "none"
  /\ ended = FALSE /\ again = 0 /\ boxSpent = 0

BoxFault(kind) ==
  kind \in BoxFaults /\ boxSpent < MaxBoxFaults /\ boxSpent' = boxSpent + 1

Advances(from, to) == step = from /\ step' = to

\* On the session network an address names a role, whoever serves it.
Address(host) == IF networked /\ host # "none" THEN "role" ELSE host

-----------------------------------------------------------------------------
(* Before the container. *)

\* The first run claims the session from this laptop: nobody serves git yet.
ClaimsFirst ==
  /\ Advances("claim", IF flow = "byo" THEN "invite" ELSE "asks") /\ pinned' = 1
  /\ UNCHANGED <<flow, networked, opts, image, seed, base, serves, seen, container, earlier,
                 recorded, envFile, managed, ended, again, boxSpent>>

\* ResolveSeedURL: what is published, unless the record says it is the container
\* about to be replaced; a session that cannot be read starts blank.
ResolvesSeed ==
  /\ Advances("seed", "invite")
  /\ \/ seed' = (IF recorded THEN "none" ELSE serves) /\ UNCHANGED boxSpent
     \/ BoxFault("read") /\ seed' = "none"
  /\ UNCHANGED <<flow, networked, opts, image, base, pinned, serves, seen, container, earlier,
                 recorded, envFile, managed, ended, again>>

Invites == Advances("invite", "validate") /\ UNCHANGED <<flow, networked, opts, image, seed, base,
                                                     pinned, serves, seen, container, earlier,
                                                     recorded, envFile, managed, ended, again,
                                                     boxSpent>>

\* A CLI with no published image falls back to :latest.
LatestFallback == ~opts.local /\ ~opts.release

Validates ==
  /\ ~(opts.strict /\ LatestFallback) /\ Advances("validate", "preflight")
  /\ UNCHANGED <<flow, networked, opts, image, seed, base, pinned, serves, seen, container,
                 earlier, recorded, envFile, managed, ended, again, boxSpent>>

\* Docker answers, the arch is one that is published, and the network is there:
\* created by this provision or by another that raced it.
Preflights == Advances("preflight", "image") /\ UNCHANGED <<flow, networked, opts, image, seed,
                                                        base, pinned, serves, seen, container,
                                                        earlier, recorded, envFile, managed,
                                                        ended, again, boxSpent>>

\* Built from the binary at hand, pulled, or the copy already on the box, where
\* the policy or an unreachable registry leaves it at that.
HasImage ==
  /\ Advances("image", "baseline")
  /\ \/ opts.local /\ image' \in {"stale", "current"}
     \/ ~opts.local /\ image' = (IF opts.release THEN "current" ELSE "stale")
     \/ ~opts.local /\ image # "none" /\ image' = image
  /\ UNCHANGED <<flow, networked, opts, seed, base, pinned, serves, seen, container, earlier,
                 recorded, envFile, managed, ended, again, boxSpent>>

\* A session nobody claimed and a control plane that does not answer read the same.
ReadsBaseline ==
  /\ Advances("baseline", "egress")
  /\ \/ base' = [generation |-> pinned, git |-> Address(serves)] /\ UNCHANGED boxSpent
     \/ BoxFault("read") /\ base' = [generation |-> 0, git |-> "none"]
  /\ UNCHANGED <<flow, networked, opts, image, seed, pinned, serves, seen, container, earlier,
                 recorded, envFile, managed, ended, again>>

\* ensurePrivateEgressBlocked.
BlocksEgress == Advances("egress", "replace") /\ UNCHANGED <<flow, networked, opts, image, seed,
                                                         base, pinned, serves, seen, container,
                                                         earlier, recorded, envFile, managed,
                                                         ended, again, boxSpent>>

\* docker rm -f of the container of that name: what it served stays published.
Replaces ==
  /\ Advances("replace", "secret") /\ earlier' = FALSE
  /\ UNCHANGED <<flow, networked, opts, image, seed, base, pinned, serves, seen, container,
                 recorded, envFile, managed, ended, again, boxSpent>>

WritesSecret ==
  /\ Advances("secret", "run") /\ envFile' = TRUE
  /\ UNCHANGED <<flow, networked, opts, image, seed, base, pinned, serves, seen, container,
                 earlier, recorded, managed, ended, again, boxSpent>>

\* docker run.
RunsContainer ==
  /\ Advances("run", "waits") /\ container' = "boots"
  /\ UNCHANGED <<flow, networked, opts, image, seed, base, pinned, serves, seen, earlier,
                 recorded, envFile, managed, ended, again, boxSpent>>

-----------------------------------------------------------------------------
(* The container, and everybody else. *)

\* Without --takeover it finds the session hosted and joins as a client.
BoxClaims ==
  /\ container = "boots" /\ ~ended
  /\ IF opts.takeover
       THEN container' = "claimed" /\ pinned < MaxPinned /\ pinned' = pinned + 1
       ELSE container' = "client" /\ UNCHANGED pinned
  /\ UNCHANGED <<flow, networked, opts, image, step, seed, base, serves, seen, earlier,
                 recorded, envFile, managed, ended, again, boxSpent>>

BoxAnnounces ==
  /\ container = "claimed" /\ container' = "serves" /\ serves' = "box"
  /\ UNCHANGED <<flow, networked, opts, image, step, seed, base, pinned, seen, earlier,
                 recorded, envFile, managed, ended, again, boxSpent>>

\* An error in its log, a canonical it cannot seed from among them.
BoxGivesUp ==
  /\ container \in {"boots", "claimed"} /\ BoxFault("boot") /\ container' = "error"
  /\ UNCHANGED <<flow, networked, opts, image, step, seed, base, pinned, serves, seen, earlier,
                 recorded, envFile, managed, ended, again>>

\* A takeover of somebody else's, announced.
OtherTakesOver ==
  /\ BoxFault("other") /\ pinned < MaxPinned /\ pinned > 0 /\ pinned' = pinned + 1
  /\ serves' = "other" /\ container # "serves"
  /\ UNCHANGED <<flow, networked, opts, image, step, seed, base, seen, container, earlier,
                 recorded, envFile, managed, ended, again>>

-----------------------------------------------------------------------------
(* waitForEndpoints. *)

\* Mutant: whatever is parked there.
AnyAnnouncement == serves # "none"

\* announcedByTheBox: another address, at the baseline's generation or, on the
\* takeover path, past it.
Announced ==
  /\ serves # "none" /\ Address(serves) # base.git /\ pinned >= base.generation
  /\ opts.takeover => pinned > base.generation

\* Mutant: no defer removes the secret.
FailsLeavingIt(from) ==
  /\ step = from /\ step' = "failed"
  /\ ended' = (flow # "add" /\ from \notin {"claim", "cutover", "join", "scaffold"})
  /\ UNCHANGED <<flow, networked, opts, image, seed, base, pinned, serves, seen, container,
                 earlier, recorded, envFile, managed, again>>

\* The command returns its error; the secret goes, and a first run ends the
\* session it claimed where the box itself could not be had.
FailsAt(from) ==
  /\ step = from /\ step' = "failed" /\ envFile' = FALSE
  /\ ended' = (flow # "add" /\ from \notin {"claim", "cutover", "join", "scaffold"})
  /\ UNCHANGED <<flow, networked, opts, image, seed, base, pinned, serves, seen, container,
                 earlier, recorded, managed, again>>

\* It reads the session each second, after the log.
SeesTheBox ==
  /\ Advances("waits", "version") /\ Announced /\ container \notin {"error", "client"}
  /\ seen' = [host |-> serves, generation |-> pinned]
  /\ UNCHANGED <<flow, networked, opts, image, seed, base, pinned, serves, container, earlier,
                 recorded, envFile, managed, ended, again, boxSpent>>

ReadsItsError ==
  container \in {"error", "client"} /\ FailsAt("waits") /\ UNCHANGED boxSpent

\* WaitTimeout, with the session read one last time before it.
WaitTimesOut ==
  /\ ~Announced /\ FailsAt("waits")
  /\ IF container = "serves" THEN UNCHANGED boxSpent ELSE BoxFault("slow")

\* checkVersion, of the container that runs.
VersionPasses == image = "current" \/ LatestFallback \/ ~opts.strict

\* The first run's box is recorded here; box add's once it cut over.
ChecksVersion ==
  /\ VersionPasses
  /\ IF flow = "add"
       THEN Advances("version", IF opts.takeover THEN "cutover" ELSE "done") /\ UNCHANGED recorded
       ELSE Advances("version", "join") /\ recorded' = TRUE
  /\ envFile' = FALSE
  /\ UNCHANGED <<flow, networked, opts, image, seed, base, pinned, serves, seen, container,
                 earlier, managed, ended, again, boxSpent>>

\* The invocation is refused, or the box that is up is of another version.
Refuses ==
  /\ \/ opts.strict /\ LatestFallback /\ FailsAt("validate")
     \/ ~VersionPasses /\ FailsAt("version")
  /\ UNCHANGED boxSpent

FailsEarly ==
  /\ \/ \E from \in {"invite", "preflight", "egress", "secret", "run"} : FailsAt(from)
     \/ image = "none" /\ FailsAt("image")
  /\ BoxFault("prepare")

-----------------------------------------------------------------------------
(* The managed box. *)

AsksForBox ==
  /\ Advances("asks", "watches") /\ managed' = "requested"
  /\ UNCHANGED <<flow, networked, opts, image, seed, base, pinned, serves, seen, container,
                 earlier, recorded, envFile, ended, again, boxSpent>>

\* The provisioner, another process of the service.
Provisioner ==
  /\ \/ managed = "requested" /\ managed' = "provisioning" /\ container' = "boots"
     \/ managed = "provisioning" /\ container = "serves" /\ managed' = "ready"
          /\ UNCHANGED container
     \/ managed = "provisioning" /\ container = "error" /\ managed' = "failed"
          /\ UNCHANGED container
  /\ UNCHANGED <<flow, networked, opts, image, step, seed, base, pinned, serves, seen, earlier,
                 recorded, envFile, ended, again, boxSpent>>

\* WaitForBox: ready, failed, or ten minutes.
BoxIsReady ==
  /\ managed = "ready" /\ Advances("watches", "join")
  /\ seen' = [host |-> "box", generation |-> pinned]
  /\ UNCHANGED <<flow, networked, opts, image, seed, base, pinned, serves, container, earlier,
                 recorded, envFile, managed, ended, again, boxSpent>>

WaitForBoxFails ==
  /\ FailsAt("watches")
  /\ IF managed = "failed" THEN UNCHANGED boxSpent ELSE BoxFault("slow")

-----------------------------------------------------------------------------
(* After it. *)

\* provisionAndCutover: Flip writes at the generation the box announced at.
CutsOver ==
  /\ pinned = seen.generation /\ pinned < MaxPinned /\ Advances("cutover", "done")
  /\ serves' = seen.host /\ pinned' = pinned + 1 /\ recorded' = TRUE
  /\ UNCHANGED <<flow, networked, opts, image, seed, base, seen, container, earlier, envFile,
                 managed, ended, again, boxSpent>>

FlipConflicts == pinned # seen.generation /\ FailsAt("cutover") /\ UNCHANGED boxSpent

\* Dialable, SeedRemote, joinSelf, electSelf.
JoinsSelf == Advances("join", "scaffold") /\ UNCHANGED <<flow, networked, opts, image, seed, base,
                                                     pinned, serves, seen, container, earlier,
                                                     recorded, envFile, managed, ended, again,
                                                     boxSpent>>

\* OpenRemote, scaffoldNow, recordRunCommands; then it conducts.
Scaffolds == Advances("scaffold", "done") /\ UNCHANGED <<flow, networked, opts, image, seed, base,
                                                     pinned, serves, seen, container, earlier,
                                                     recorded, envFile, managed, ended, again,
                                                     boxSpent>>

FailsLate ==
  (\E from \in {"cutover", "join", "scaffold"} : FailsAt(from)) /\ BoxFault("late")

\* The operator runs the same box add again: what the first left running is now
\* the container of that name.
RunsAgain ==
  /\ flow = "add" /\ again < MaxAgain /\ again' = again + 1 /\ Advances("failed", "seed")
  /\ earlier' = (earlier \/ container # "none") /\ container' = "none"
  /\ serves' = (IF serves = "box" THEN "old" ELSE serves)
  /\ seen' = [host |-> "none", generation |-> 0]
  /\ UNCHANGED <<flow, networked, opts, image, seed, base, pinned, recorded, envFile, managed,
                 ended, boxSpent>>

Command ==
  \/ ClaimsFirst \/ ResolvesSeed \/ Invites \/ Validates \/ Preflights \/ HasImage
  \/ ReadsBaseline \/ BlocksEgress \/ Replaces \/ WritesSecret \/ RunsContainer
  \/ SeesTheBox \/ ReadsItsError \/ WaitTimesOut \/ ChecksVersion \/ Refuses
  \/ AsksForBox \/ BoxIsReady \/ WaitForBoxFails \/ CutsOver \/ FlipConflicts
  \/ JoinsSelf \/ Scaffolds

BoxNext ==
  \/ Command \/ FailsEarly \/ FailsLate \/ RunsAgain
  \/ BoxClaims \/ BoxAnnounces \/ BoxGivesUp \/ OtherTakesOver \/ Provisioner

BoxFairness ==
  /\ WF_boxVars(Command) /\ WF_boxVars(BoxClaims \/ BoxAnnounces)
  /\ WF_boxVars(Provisioner)

BoxSpec == BoxInit /\ [][BoxNext]_boxVars /\ BoxFairness

-----------------------------------------------------------------------------
(* Properties. *)

\* Where the baseline was read, the address a provision reports is never the one
\* that was parked there: "accepting whatever is parked is how a provision that
\* never hosted reported the operator's laptop as the box" (box/box.go:672).  A
\* takeover by somebody else in those seconds is not told apart (box.go:718).
\* With --require-version-match what it reports runs this CLI's version.
ReportsTheBox ==
  /\ base.generation > 0 => seen.host \in {"none", "box", "other"}
  /\ step \in {"cutover", "join", "scaffold", "done"} /\ opts.strict /\ flow # "managed"
       => image = "current"

\* The command ends, and when it does the member's secret is off the box's disk,
\* and a first run that got no box has ended the session it claimed for it.
CommandEnds ==
  <>(/\ step \in {"done", "failed"} /\ ~envFile
     /\ (step = "failed" /\ flow # "add" /\ seen.host = "none" => ended))

\* A box never clones the container that is removed to make room for it: "seeding
\* from the container about to be `docker rm -f`'d is the bug that orphaned a
\* session" (cli/verbs.go:832).
SeedOutlives == step = "secret" => seed # "old"

\* A box that took over and announced is seen: "a fresh container's URL never
\* matches the previous one" (box/box.go:718).
TakeoverIsSeen ==
  [](container = "serves" /\ serves = "box" /\ step = "waits" /\ base.generation < pinned
       => Announced)

=============================================================================
