---------------------------- MODULE Convergence -----------------------------
(***************************************************************************)
(* How work reaches main.                                                   *)
(*                                                                          *)
(* A member's agent commits in its own work tree and calls `slopball sync': *)
(* Pull merges the mirror of main into the member's branch, Push sends the  *)
(* branch to the hub (syncengine/sync.go).  Whoever conducts runs a fleet:  *)
(* every two seconds the merger takes the first branch ahead of main,       *)
(* merges it in its own work tree with an agent for the conflicts, pushes   *)
(* main, and heals conflict markers that got there (conductor/fleet.go).    *)
(* Setup and the error-watcher push to main from a private clone.           *)
(*                                                                          *)
(* A history is the set of its commits.  Two histories of which neither     *)
(* contains the other may conflict: which files they touch is left out, so  *)
(* a merge of such histories goes either way.  Git runs with merge.ff=false *)
(* (git/exec.go:29), so a merge that adds anything is a commit.             *)
(***************************************************************************)
EXTENDS Integers, FiniteSetsExt

CONSTANTS
  Members,       \* the clients; a branch is named by its member, in name order
  Conductors,    \* the machines that may conduct
  Local,         \* those that hold the canonical themselves
  MaxCommits,    \* room for the commits that exist at one time
  MaxEdits,      \* bound on the pieces of work the agents do
  MaxPulls,      \* bound on the pulls
  MaxFixes,      \* bound on the commits of setup and the error-watcher
  Faults,        \* what may go wrong, see FaultKinds
  MaxFaults      \* bound on how often

\* "link": a git command does not reach the hub; "resolver": the merger's agent
\* fails; "sloppy": it leaves conflict markers in what it writes; "stop": the
\* conducting process is stopped.
FaultKinds == {"link", "resolver", "sloppy", "stop"}

ASSUME ConvergenceAssumption ==
  /\ Members \subseteq Nat \ {0}
  /\ \A S \in (SUBSET Members) \ {{}} : \E m \in S : \A n \in S : m <= n
  /\ Local \subseteq Conductors
  /\ MaxCommits \in Nat \ {0}
  /\ MaxEdits \in Nat /\ MaxPulls \in Nat /\ MaxFixes \in Nat /\ MaxFaults \in Nat
  /\ Faults \subseteq FaultKinds

Commit == 1 .. MaxCommits
Seed == 1                     \* what canonical.Create commits
History == SUBSET Commit
NoBranch == 0

VARIABLES
  main, branch,      \* the hub: refs/heads/main, and one branch per member
  kind, heals,       \* commit -> what it adds; commits whose markers it removes
  head,              \* member -> HEAD of its work tree
  theirs,            \* member -> what an unfinished merge brings in, {} for none
  tree,              \* member -> "clean", "dirty" or "marked" with markers
  mirror,            \* member -> main as its join daemon last fetched it
  edits, pulls,      \* what is left of the bounds
  at,                \* conductor -> where its merger is in Tick
  ahead,             \* conductor -> branches ahead of main, in Host.Bare's refs
  pick, incoming,    \* conductor -> the branch it merges, and its history
  work,              \* conductor -> main as it is in Host.Work
  unmerged,          \* conductor -> the index of Host.Work has unmerged paths
  clone, fixes,      \* the private clone of setup or the error-watcher, {} none
  spent

hub == <<main, branch>>
facts == <<kind, heals>>
client == <<head, theirs, tree, mirror, edits, pulls>>
fleet == <<at, ahead, pick, incoming, work, unmerged>>
side == <<clone, fixes>>
vars == <<hub, facts, client, fleet, side, spent>>

\* A commit adds work, conflict markers with it, or nothing but a clean merge.
Kind == {"work", "markers", "merge"}

Place == {"down", "idle", "prepare", "resolve", "push", "sweep", "heal", "pushheal"}

TypeOK ==
  /\ main \in History /\ branch \in [Members -> History]
  /\ kind \in [Commit -> Kind] /\ heals \in [Commit -> History]
  /\ head \in [Members -> History] /\ theirs \in [Members -> History]
  /\ tree \in [Members -> {"clean", "dirty", "marked"}]
  /\ mirror \in [Members -> History]
  /\ edits \in 0 .. MaxEdits /\ pulls \in 0 .. MaxPulls
  /\ at \in [Conductors -> Place]
  /\ ahead \in [Conductors -> SUBSET Members]
  /\ pick \in [Conductors -> Members \cup {NoBranch}]
  /\ \A k \in Conductors : at[k] = "prepare" => pick[k] \in Members
  /\ incoming \in [Conductors -> History] /\ work \in [Conductors -> History]
  /\ unmerged \in [Conductors -> BOOLEAN]
  /\ clone \in History /\ fixes \in 0 .. MaxFixes /\ (clone # {} => fixes > 0)
  /\ spent \in 0 .. MaxFaults

Init ==
  /\ main = {Seed} /\ branch = [m \in Members |-> {Seed}]
  /\ kind = [c \in Commit |-> IF c = Seed THEN "work" ELSE "merge"] /\ heals = [c \in Commit |-> {}]
  /\ head = [m \in Members |-> {Seed}] /\ theirs = [m \in Members |-> {}]
  /\ tree = [m \in Members |-> "clean"] /\ mirror = [m \in Members |-> {Seed}]
  /\ edits = MaxEdits /\ pulls = MaxPulls
  /\ at = [k \in Conductors |-> "down"]
  /\ ahead = [k \in Conductors |-> {}] /\ pick = [k \in Conductors |-> NoBranch]
  /\ incoming = [k \in Conductors |-> {}] /\ work = [k \in Conductors |-> {Seed}]
  /\ unmerged = [k \in Conductors |-> FALSE]
  /\ clone = {} /\ fixes = MaxFixes /\ spent = 0

Fault(what) == what \in Faults /\ spent < MaxFaults /\ spent' = spent + 1

-----------------------------------------------------------------------------
(* Commits *)

\* The histories anything still refers to.
Live ==
  main \cup clone
    \cup (UNION {branch[m] \cup head[m] \cup theirs[m] \cup mirror[m] : m \in Members})
    \cup (UNION {incoming[k] \cup work[k] : k \in Conductors})

Spare == Commit \ Live
First == CHOOSE c \in Spare : TRUE
Second == CHOOSE c \in Spare \ {First} : TRUE

\* The markers a history's tree still holds.
Open(h) == {c \in h : kind[c] = "markers" /\ \A d \in h : c \notin heals[d]}

\* First becomes a commit of that kind which heals the ones named.  Of a commit
\* nothing refers to nothing is known: if Second becomes one, it is a clean merge.
Record(what, healed) ==
  /\ Spare \ {First} # {}
  /\ kind' = [c \in Commit |-> IF c = First THEN what ELSE IF c \in Live THEN kind[c] ELSE "merge"]
  /\ heals' = [c \in Commit |-> IF c = First THEN healed ELSE IF c \in Live THEN heals[c] ELSE {}]

\* Merging a history into ours: nothing to do, or a merge commit; or a conflict,
\* which takes work on both sides: a clean merge adds nothing to conflict with.
Contains(ours, other) == other \subseteq ours
Merged(ours, other, c) == IF Contains(ours, other) THEN ours ELSE ours \cup other \cup {c}
Adds(ours, other) == \E c \in other \ ours : kind[c] # "merge"
MayConflict(ours, other) == Adds(ours, other) /\ Adds(other, ours)

-----------------------------------------------------------------------------
(* A member and its agent *)

Edit(m) ==
  /\ edits > 0 /\ tree[m] = "clean"
  /\ edits' = edits - 1 /\ tree' = [tree EXCEPT ![m] = "dirty"]
  /\ UNCHANGED <<hub, facts, head, theirs, mirror, pulls, fleet, side, spent>>

\* The agent resolves the markers in its tree, wherever they come from.
ResolveTree(m) ==
  /\ tree[m] = "marked" /\ tree' = [tree EXCEPT ![m] = "dirty"]
  /\ UNCHANGED <<hub, facts, head, theirs, mirror, edits, pulls, fleet, side, spent>>

\* The join daemon fetches main.  Nobody looks at a mirror when no pull is left.
Mirror(m) ==
  /\ pulls > 0 /\ mirror[m] # main /\ mirror' = [mirror EXCEPT ![m] = main]
  /\ UNCHANGED <<hub, facts, head, theirs, tree, edits, pulls, fleet, side, spent>>

\* What a member has, and what it has once commitLocal is through.
Ours(m) == head[m] \cup theirs[m]
Committed(m) == IF tree[m] = "dirty" THEN Ours(m) \cup {First} ELSE head[m]

\* Mutant: whatever is in the tree is committed.
CommitLocalUnchecked(m) == Record("work", IF tree[m] = "marked" THEN {} ELSE Open(Ours(m)))

\* commitLocal: markers in the tree are an error, a clean tree is no commit.  A
\* commit takes an unfinished merge with it, and heals what was resolved.
CommitLocal(m) == tree[m] # "marked" /\ Record("work", Open(Ours(m)))

\* Pull: commitLocal, then the merge of the mirror.
Pull(m) ==
  /\ pulls > 0 /\ pulls' = pulls - 1
  /\ CommitLocal(m)
  /\ \/ /\ head' = [head EXCEPT ![m] = Merged(Committed(m), mirror[m], Second)]
        /\ theirs' = [theirs EXCEPT ![m] = {}]
        /\ tree' = [tree EXCEPT ![m] = IF Open(head[m])' = {} THEN "clean" ELSE "marked"]
     \/ /\ Adds(Ours(m), mirror[m]) /\ (tree[m] = "dirty" \/ Adds(mirror[m], head[m]))
        /\ head' = [head EXCEPT ![m] = Committed(m)]
        /\ theirs' = [theirs EXCEPT ![m] = mirror[m]]
        /\ tree' = [tree EXCEPT ![m] = "marked"]
  /\ UNCHANGED <<hub, mirror, edits, fleet, side, spent>>

\* Push: commitLocal, then HEAD to the branch, which git refuses unless the
\* branch is contained in it.
Push(m) ==
  /\ tree[m] = "dirty" \/ head[m] # branch[m]
  /\ CommitLocal(m)
  /\ head' = [head EXCEPT ![m] = Committed(m)]
  /\ theirs' = [theirs EXCEPT ![m] = {}] /\ tree' = [tree EXCEPT ![m] = "clean"]
  /\ \/ /\ Contains(head'[m], branch[m])
        /\ branch' = [branch EXCEPT ![m] = head'[m]] /\ UNCHANGED spent
     \/ Fault("link") /\ UNCHANGED branch
  /\ UNCHANGED <<main, mirror, edits, pulls, fleet, side>>

-----------------------------------------------------------------------------
(* The merger of a conductor, which is Merger.Tick step by step *)

AheadOfMain == {m \in Members : ~Contains(main, branch[m])}

\* Mutant: with nothing ahead there is no sweep.
BeginTickNoSweep(k) ==
  /\ at[k] = "idle" /\ AheadOfMain # {}
  /\ ahead' = [ahead EXCEPT ![k] = AheadOfMain]
  /\ pick' = [pick EXCEPT ![k] = Min(AheadOfMain)]
  /\ at' = [at EXCEPT ![k] = "prepare"]
  /\ UNCHANGED <<hub, facts, client, incoming, work, unmerged, side, spent>>

\* Start of a tick: what Host.Bare says is ahead.  A machine without the
\* canonical learns of a push only by a Refresh, which RefreshGate holds back and
\* the hub may not answer.
BeginTick(k) ==
  /\ at[k] = "idle"
  /\ \E seen \in {AheadOfMain} \cup IF k \in Local THEN {} ELSE {ahead[k]} :
       /\ ahead' = [ahead EXCEPT ![k] = seen]
       /\ pick' = [pick EXCEPT ![k] = IF seen = {} THEN NoBranch ELSE Min(seen)]
       /\ at' = [at EXCEPT ![k] = IF seen = {} THEN "sweep" ELSE "prepare"]
  /\ UNCHANGED <<hub, facts, client, incoming, work, unmerged, side, spent>>

\* fetch, checkout main, reset --hard.  Without the hub there is no fetch, and
\* git checks nothing out over an index with unmerged paths: the tick is over.
CannotPrepare(k) ==
  /\ at[k] \in {"prepare", "sweep"}
  /\ (unmerged[k] /\ UNCHANGED spent) \/ Fault("link")
  /\ at' = [at EXCEPT ![k] = "idle"]
  /\ UNCHANGED <<hub, facts, client, ahead, pick, incoming, work, unmerged, side>>

\* Mutant: the branch is merged into whatever the work tree holds.
MergeBranchNoReset(k) ==
  /\ at[k] = "prepare" /\ ~unmerged[k] /\ Record("merge", {})
  /\ work' = [work EXCEPT ![k] = Merged(work[k], branch[pick[k]], First)]
  /\ at' = [at EXCEPT ![k] = "push"]
  /\ UNCHANGED <<hub, client, ahead, pick, incoming, unmerged, side, spent>>

\* mergeBranch up to the merge, which is clean or needs the agent.  A conductor
\* without one takes the incoming side, and goes on as after a clean merge.
MergeBranch(k) ==
  /\ at[k] = "prepare" /\ ~unmerged[k]
  /\ Record("merge", {})
  /\ \/ /\ work' = [work EXCEPT ![k] = Merged(main, branch[pick[k]], First)]
        /\ at' = [at EXCEPT ![k] = "push"] /\ UNCHANGED <<incoming, unmerged>>
     \/ /\ MayConflict(main, branch[pick[k]])
        /\ work' = [work EXCEPT ![k] = main]
        /\ incoming' = [incoming EXCEPT ![k] = branch[pick[k]]]
        /\ at' = [at EXCEPT ![k] = "resolve"]
        /\ unmerged' = [unmerged EXCEPT ![k] = TRUE]
  /\ UNCHANGED <<hub, client, ahead, pick, side, spent>>

\* The agent is done, minutes later: add and commit, whatever it wrote.
Resolve(k) ==
  /\ at[k] = "resolve"
  /\ \/ Record("work", {}) /\ UNCHANGED spent
     \/ Record("markers", {}) /\ Fault("sloppy")
  /\ work' = [work EXCEPT ![k] = @ \cup incoming[k] \cup {First}]
  /\ incoming' = [incoming EXCEPT ![k] = {}]
  /\ unmerged' = [unmerged EXCEPT ![k] = FALSE] /\ at' = [at EXCEPT ![k] = "push"]
  /\ UNCHANGED <<hub, client, ahead, pick, side>>

\* Mutant: the merge is not aborted.
ResolveFailsInPlace(k) ==
  /\ at[k] = "resolve" /\ Fault("resolver")
  /\ at' = [at EXCEPT ![k] = "idle"]
  /\ UNCHANGED <<hub, facts, client, ahead, pick, incoming, work, unmerged, side>>

\* The agent fails: merge --abort.
ResolveFails(k) ==
  /\ at[k] = "resolve" /\ Fault("resolver")
  /\ incoming' = [incoming EXCEPT ![k] = {}]
  /\ unmerged' = [unmerged EXCEPT ![k] = FALSE] /\ at' = [at EXCEPT ![k] = "idle"]
  /\ UNCHANGED <<hub, facts, client, ahead, pick, work, side>>

\* Mutant: push --force.
PushMainForced(k) ==
  /\ at[k] \in {"push", "pushheal"} /\ main' = work[k]
  /\ at' = [at EXCEPT ![k] = IF @ = "push" THEN "sweep" ELSE "idle"]
  /\ UNCHANGED <<branch, facts, client, ahead, pick, incoming, work, unmerged, side, spent>>

\* push origin main: the hub takes it if it contains main as it is now.
PushMain(k) ==
  /\ at[k] \in {"push", "pushheal"}
  /\ Contains(work[k], main) /\ main' = work[k]
  /\ at' = [at EXCEPT ![k] = IF @ = "push" THEN "sweep" ELSE "idle"]
  /\ UNCHANGED <<branch, facts, client, ahead, pick, incoming, work, unmerged, side, spent>>

PushMainFails(k) ==
  /\ at[k] \in {"push", "pushheal"}
  /\ (~Contains(work[k], main) /\ UNCHANGED spent) \/ Fault("link")
  /\ at' = [at EXCEPT ![k] = "idle"]
  /\ UNCHANGED <<hub, facts, client, ahead, pick, incoming, work, unmerged, side>>

\* sweepMainMarkers: look for markers on main as it is now ...
Sweep(k) ==
  /\ at[k] = "sweep" /\ ~unmerged[k]
  /\ work' = [work EXCEPT ![k] = main]
  /\ at' = [at EXCEPT ![k] = IF Open(main) = {} THEN "idle" ELSE "heal"]
  /\ UNCHANGED <<hub, facts, client, ahead, pick, incoming, unmerged, side, spent>>

\* ... have them resolved ...
Heal(k) ==
  /\ at[k] = "heal"
  /\ Record("work", Open(work[k]))
  /\ work' = [work EXCEPT ![k] = @ \cup {First}] /\ at' = [at EXCEPT ![k] = "pushheal"]
  /\ UNCHANGED <<hub, client, ahead, pick, incoming, unmerged, side, spent>>

\* ... unless the agent fails or leaves some: "never publish a heal that still
\* has markers".
HealFails(k) ==
  /\ at[k] = "heal" /\ (Fault("resolver") \/ Fault("sloppy"))
  /\ at' = [at EXCEPT ![k] = "idle"]
  /\ UNCHANGED <<hub, facts, client, ahead, pick, incoming, work, unmerged, side>>

\* The process is stopped.  Its context is cancelled with it, so the agent fails
\* and git merge --abort, run under that context, does not start.
Stop(k) ==
  /\ at[k] # "down" /\ Fault("stop")
  /\ at' = [at EXCEPT ![k] = "down"]
  /\ UNCHANGED <<hub, facts, client, ahead, pick, incoming, work, unmerged, side>>

\* Start on the replica that is there (OpenRemote, with its Refresh), or on the
\* canonical, whose work tree is reset to main (SyncWorkToMain).
Start(k) ==
  /\ at[k] = "down" /\ at' = [at EXCEPT ![k] = "idle"]
  /\ ahead' = [ahead EXCEPT ![k] = AheadOfMain]
  /\ unmerged' = [unmerged EXCEPT ![k] = @ /\ k \notin Local]
  /\ UNCHANGED <<hub, facts, client, pick, incoming, work, side, spent>>

-----------------------------------------------------------------------------
(* Setup and the error-watcher: one commit from a private clone *)

\* Mutant: setup runs although it has left its mark.
CloneAgain ==
  /\ clone = {} /\ clone' = main
  /\ UNCHANGED <<hub, facts, client, fleet, fixes, spent>>

Clone ==
  /\ clone = {} /\ fixes > 0 /\ clone' = main
  /\ UNCHANGED <<hub, facts, client, fleet, fixes, spent>>

PushFix ==
  /\ clone # {} /\ clone' = {}
  /\ IF Contains(clone, main)
     THEN Record("work", {}) /\ main' = clone \cup {First} /\ fixes' = fixes - 1
     ELSE UNCHANGED <<main, facts, fixes>>
  /\ UNCHANGED <<branch, client, fleet, spent>>

FixFails ==
  /\ clone # {} /\ clone' = {} /\ (Fault("resolver") \/ Fault("link"))
  /\ UNCHANGED <<hub, facts, client, fleet, fixes>>

-----------------------------------------------------------------------------
Working(m) == Edit(m) \/ ResolveTree(m) \/ Mirror(m) \/ Pull(m) \/ Push(m)

Merging(k) ==
  \/ BeginTick(k) \/ CannotPrepare(k) \/ MergeBranch(k)
  \/ Resolve(k) \/ ResolveFails(k) \/ PushMain(k) \/ PushMainFails(k)
  \/ Sweep(k) \/ Heal(k) \/ HealFails(k)

Next ==
  \/ \E m \in Members : Working(m)
  \/ \E k \in Conductors : Merging(k) \/ Stop(k) \/ Start(k)
  \/ Clone \/ PushFix \/ FixFails

Spec == Init /\ [][Next]_vars

\* A conductor ticks on, refreshes at RemoteConductorFloor at the latest, its
\* agent answers, and somebody starts it when it is down.
Fairness ==
  \A k \in Conductors :
    /\ SF_vars(BeginTick(k) /\ ahead'[k] = AheadOfMain)
    /\ WF_vars(Merging(k)) /\ WF_vars(Start(k))

FairSpec == Spec /\ Fairness

-----------------------------------------------------------------------------
\* Every branch that was pushed becomes part of main: whatever fails,
\* "will retry next tick" (fleet.go:269).
PushedWorkReachesMain == \A m \in Members : []<>Contains(main, branch[m])

\* What is pushed holds no markers, not even ones that came with a clean merge
\* of main: commitLocal refuses them.
BranchesStayClean == \A m \in Members : Open(branch[m]) = {}

\* Nothing that was on main or on a branch leaves it, whoever pushes in whatever
\* order.
NothingIsUndone ==
  [][main \subseteq main' /\ \A m \in Members : branch[m] \subseteq branch'[m]]_vars

\* Only a stop leaves a merge behind: however else a tick ends, the next one
\* finds an index it can check main out over.
IndexIsClean ==
  [][\A k \in Conductors :
       unmerged'[k] /\ at'[k] # "resolve"
         => unmerged[k] /\ (at'[k] = "down" \/ at[k] # "resolve")]_vars

\* A replica's start does not clear up the merge it finds (OpenRemote).
LeftBehind == \E k \in Conductors : <>[](unmerged[k])

\* Whatever is stopped, fails or comes late, every branch becomes part of main,
\* unless a merge is left behind for ever.
ReachesMainUnlessLeftBehind == LeftBehind \/ PushedWorkReachesMain

\* Markers do not stay on main (sweepMainMarkers), with the same exception.
MarkersAreHealed == LeftBehind \/ []<>(Open(main) = {})
=============================================================================
