------------------------------ MODULE Standup ------------------------------
(***************************************************************************)
(* One session directory of one machine: the processes that stand it up     *)
(* (session/standup.go, from joindaemon.Join and hoststart.Start), the live *)
(* marker they share (session/live.go), and the verbs that enter it         *)
(* (cli/open.go, cli/site.go).                                              *)
(*                                                                          *)
(* A process is one pid: the one a human starts after a crash is another.   *)
(* Nothing is shared but the directory: the marker, the standup lock, the   *)
(* two repositories and session.json.                                       *)
(***************************************************************************)
EXTENDS Naturals, FiniteSets

CONSTANTS
  Pid,     \* the processes that will hold the session, or try to
  Verb,    \* the commands that enter it
  NoPid,
  MaxCrashes \* bound on how many of the processes die

ASSUME StandupAssumption == NoPid \notin Pid /\ MaxCrashes \in Nat

VARIABLES
  phaseOf,    \* where each process is
  hosting, \* the processes that host rather than join
  marker,  \* live.json
  lock,    \* who holds standup.lock exclusively
  tree,    \* the work tree: "none", "partial" (.git is there), "whole"
  mirror,  \* the bare mirror is there
  saved,   \* session.json is there
  copy,    \* PublishDevURL: the marker it read, not yet written
  sweeping, \* readers that read a stale marker and have not deleted it yet
  verb,    \* where each command is
  through, \* history: <<command, process>>: whose readyAt let it through
  crashes

standupVars == <<phaseOf, hosting, marker, lock, tree, mirror, saved, copy, sweeping,
                 verb, through, crashes>>

NoMarker == [pid |-> NoPid, ready |-> FALSE, url |-> FALSE]
Marker == [pid : Pid \cup {NoPid}, ready : BOOLEAN, url : BOOLEAN]

StandupTypeOK ==
  /\ phaseOf \in [Pid -> {"new", "asks", "builds", "cloning", "up", "failed",
                       "over", "dead"}]
  /\ hosting \subseteq Pid /\ marker \in Marker /\ lock \in Pid \cup {NoPid}
  /\ tree \in {"none", "partial", "whole"} /\ mirror \in BOOLEAN /\ saved \in BOOLEAN
  /\ copy \in [Pid -> Marker] /\ sweeping \subseteq Pid \cup Verb
  /\ verb \in [Verb -> {"idle", "enters", "looks", "waits", "again", "loads",
                        "opened", "refused", "printed"}]
  /\ through \subseteq Verb \X Pid /\ crashes \in 0 .. MaxCrashes

StandupInit ==
  /\ phaseOf = [p \in Pid |-> "new"] /\ hosting = {} /\ marker = NoMarker /\ lock = NoPid
  /\ tree = "none" /\ mirror = FALSE /\ saved = FALSE
  /\ copy = [p \in Pid |-> NoMarker] /\ verb = [v \in Verb |-> "idle"]
  /\ sweeping = {} /\ through = {} /\ crashes = 0

ProcIs(p, to) == phaseOf' = [phaseOf EXCEPT ![p] = to]
VerbIs(v, to) == verb' = [verb EXCEPT ![v] = to]

Running(p) == phaseOf[p] \notin {"new", "over", "dead"}

-----------------------------------------------------------------------------
(* The marker, as every reader reads it. *)

\* LiveHere: a marker whose process is gone is deleted and reads as nothing.
\* The read and the deletion are two steps.
Stale == marker.pid # NoPid /\ ~Running(marker.pid)
LiveHere == marker.pid # NoPid /\ Running(marker.pid)

\* A marker from before readyAt says nothing: the tree settles it.
Openable == marker.ready \/ tree # "none"

ReadyHere == LiveHere /\ Openable

StandingUp == LiveHere /\ ~Openable

\* Removes the path, whatever is written there by now.
ClearLive == marker' = NoMarker

Sweeps(x) == sweeping' = IF Stale THEN sweeping \cup {x} ELSE sweeping

\* The deletion, of whatever the path holds by now.
Sweep(x) ==
  /\ x \in sweeping /\ sweeping' = sweeping \ {x} /\ ClearLive
  /\ UNCHANGED <<hosting, phaseOf, lock, tree, mirror, saved, copy, verb, through,
                 crashes>>

-----------------------------------------------------------------------------
(* The processes. *)

\* hoststart.Start asks nobody before it begins.
Hosts(p) ==
  /\ phaseOf[p] = "new" /\ ProcIs(p, "asks") /\ hosting' = hosting \cup {p}
  /\ UNCHANGED <<marker, lock, tree, mirror, saved, copy, sweeping, verb, through,
                 crashes>>

\* noDaemonRunningHere.
Joins(p) ==
  /\ phaseOf[p] = "new" /\ ProcIs(p, IF LiveHere THEN "over" ELSE "asks") /\ Sweeps(p)
  /\ UNCHANGED <<hosting, marker, lock, tree, mirror, saved, copy, verb, through,
                 crashes>>

\* Mutant: whoever comes takes the lock.
TakesAnyway(p) == lock' = p

TakesLock(p) == lock = NoPid /\ lock' = p

\* BeginStandup: the exclusive lock, then the marker that says nothing of
\* readiness.
BeginStandup(p) ==
  /\ phaseOf[p] = "asks" /\ p \notin sweeping /\ ProcIs(p, "builds")
  /\ TakesLock(p)
  /\ marker' = [pid |-> p, ready |-> FALSE, url |-> FALSE]
  /\ UNCHANGED <<hosting, tree, mirror, saved, copy, sweeping, verb, through,
                 crashes>>

\* A join resumes with both repositories (alreadyJoinedHere) and refuses half a
\* session; a host asks only for .git (ensureClientTree).
HasTree(p) == tree # "none" /\ (p \in hosting \/ mirror)
HalfPresent(p) == p \notin hosting /\ (tree # "none") # mirror

Unlocked(p) == IF lock = p THEN NoPid ELSE lock

\* Mutant: a failed standup only takes its marker back.
KeepsLock(p) == lock = p /\ lock' = lock /\ ClearLive

\* Release, deferred: still holding the lock, the standup failed.
Releases(p) == lock = p /\ lock' = NoPid /\ ClearLive

\* resolveJoinSession, Claim, a clone: any of it may fail, and git takes back
\* the clone that failed.  The process may live on, as the wizard does.
StandupFails(p) ==
  /\ phaseOf[p] \in {"builds", "cloning"} /\ Releases(p) /\ ProcIs(p, "failed")
  /\ tree' = IF phaseOf[p] = "cloning" /\ tree = "partial" THEN "none" ELSE tree
  /\ UNCHANGED <<hosting, mirror, saved, copy, sweeping, verb, through, crashes>>

\* git clone makes .git first and the files last.
StartsCloning(p) ==
  /\ phaseOf[p] = "builds" /\ tree = "none" /\ ~HalfPresent(p)
  /\ ProcIs(p, "cloning") /\ tree' = "partial"
  /\ UNCHANGED <<hosting, marker, lock, mirror, saved, copy, sweeping, verb, through,
                 crashes>>

Clones(p) ==
  /\ phaseOf[p] = "cloning" /\ tree = "partial" /\ tree' = "whole"
  /\ UNCHANGED <<phaseOf, hosting, marker, lock, mirror, saved, copy, sweeping, verb,
                 through, crashes>>

\* A host whose client tree failed serves all the same, from canonical/work.
ServesWithoutTree(p) ==
  /\ p \in hosting /\ phaseOf[p] = "cloning" /\ tree = "partial" /\ tree' = "none"
  /\ saved' = TRUE /\ marker' = [pid |-> p, ready |-> TRUE, url |-> marker.url]
  /\ lock' = Unlocked(p) /\ ProcIs(p, "up")
  /\ UNCHANGED <<hosting, mirror, copy, sweeping, verb, through, crashes>>

\* The second clone, the bare one.
Mirrors(p) ==
  /\ phaseOf[p] = "cloning" /\ p \notin hosting /\ tree = "whole"
  /\ ~mirror /\ mirror' = TRUE
  /\ UNCHANGED <<hosting, phaseOf, marker, lock, tree, saved, copy, sweeping, verb,
                 through, crashes>>

IsBuilt(p) ==
  /\ HasTree(p) /\ (phaseOf[p] = "builds" \/ (phaseOf[p] = "cloning" /\ tree = "whole"))

\* The contracts and session.json are on disk.
Saves(p) ==
  /\ IsBuilt(p) /\ ~saved /\ saved' = TRUE
  /\ UNCHANGED <<phaseOf, hosting, marker, lock, tree, mirror, copy, sweeping, verb,
                 through, crashes>>

\* Ready: the marker keeps the URL that was published, and the lock goes
\* without the marker going with it.
Ready(p) ==
  /\ IsBuilt(p) /\ saved
  /\ marker' = [pid |-> p, ready |-> TRUE, url |-> marker.url]
  /\ lock' = Unlocked(p) /\ ProcIs(p, "up")
  /\ UNCHANGED <<hosting, tree, mirror, saved, copy, sweeping, verb, through,
                 crashes>>

\* PublishDevURL reads the marker, whoever's it is, and writes it back.
ReadsMarker(p) ==
  /\ phaseOf[p] = "up" /\ copy[p] = NoMarker /\ marker # NoMarker /\ ~marker.url
  /\ copy' = [copy EXCEPT ![p] = marker]
  /\ UNCHANGED <<hosting, phaseOf, marker, lock, tree, mirror, saved, sweeping, verb,
                 through, crashes>>

WritesMarker(p) ==
  /\ phaseOf[p] = "up" /\ copy[p] # NoMarker
  /\ marker' = [copy[p] EXCEPT !.url = TRUE]
  /\ copy' = [copy EXCEPT ![p] = NoMarker]
  /\ UNCHANGED <<hosting, phaseOf, lock, tree, mirror, saved, sweeping, verb, through,
                 crashes>>

\* Joined.Close and Running.Close end with ClearLive.
Closes(p) ==
  /\ phaseOf[p] \in {"up", "failed"} /\ ProcIs(p, "over")
  /\ IF phaseOf[p] = "up" THEN ClearLive ELSE UNCHANGED marker
  /\ copy' = [copy EXCEPT ![p] = NoMarker]
  /\ UNCHANGED <<hosting, lock, tree, mirror, saved, sweeping, verb, through,
                 crashes>>

\* The kernel drops the lock of a process that exits; the marker stays.
Crashes(p) ==
  /\ Running(p) /\ crashes < MaxCrashes /\ crashes' = crashes + 1
  /\ ProcIs(p, "dead") /\ lock' = Unlocked(p)
  /\ copy' = [copy EXCEPT ![p] = NoMarker] /\ sweeping' = sweeping \ {p}
  /\ UNCHANGED <<hosting, marker, tree, mirror, saved, verb, through>>

-----------------------------------------------------------------------------
(* slopball open, cd, workspace, claude, codex: resolveOpenPIN with a pin. *)

Enters(v) ==
  /\ verb[v] = "idle" /\ VerbIs(v, "enters")
  /\ UNCHANGED <<hosting, phaseOf, marker, lock, tree, mirror, saved, copy, sweeping,
                 through, crashes>>

\* Without a pin: the sessions with a live marker, and the one it picks of them.
Picks(v) ==
  /\ verb[v] = "idle" /\ Sweeps(v) /\ VerbIs(v, IF LiveHere THEN "enters" ELSE "refused")
  /\ UNCHANGED <<phaseOf, hosting, marker, lock, tree, mirror, saved, copy, through, crashes>>

\* slopball site: the URL of the live marker, and no other way to find one.
AsksForSite(v) ==
  /\ verb[v] = "idle" /\ Sweeps(v)
  /\ VerbIs(v, IF LiveHere /\ marker.url THEN "printed" ELSE "refused")
  /\ UNCHANGED <<phaseOf, hosting, marker, lock, tree, mirror, saved, copy, through, crashes>>

Through(v) == IF marker.ready THEN through \cup {<<v, marker.pid>>} ELSE through

\* awaitWorkTree: StandingUp decides whether to wait at all.
AwaitsWorkTree(v) ==
  /\ verb[v] = "enters" /\ Sweeps(v)
  /\ VerbIs(v, IF StandingUp THEN "looks" ELSE "loads")
  /\ through' = IF ReadyHere THEN Through(v) ELSE through
  /\ UNCHANGED <<hosting, phaseOf, marker, lock, tree, mirror, saved, copy, crashes>>

\* WaitUntilReady looks once more before it asks for the lock.
LooksAgain(v) ==
  /\ verb[v] = "looks" /\ Sweeps(v)
  /\ VerbIs(v, IF ReadyHere THEN "loads" ELSE "waits")
  /\ through' = IF ReadyHere THEN Through(v) ELSE through
  /\ UNCHANGED <<hosting, phaseOf, marker, lock, tree, mirror, saved, copy, crashes>>

\* The shared lock is granted when nobody holds the exclusive one.
WakesUp(v) ==
  /\ verb[v] = "waits" /\ v \notin sweeping /\ lock = NoPid /\ VerbIs(v, "again")
  /\ UNCHANGED <<hosting, phaseOf, marker, lock, tree, mirror, saved, copy, sweeping,
                 through, crashes>>

\* "stopped standing up before its work tree was ready".
SaysHowItEnded(v) ==
  /\ verb[v] = "again" /\ Sweeps(v)
  /\ VerbIs(v, IF ReadyHere THEN "loads" ELSE "refused")
  /\ through' = IF ReadyHere THEN Through(v) ELSE through
  /\ UNCHANGED <<hosting, phaseOf, marker, lock, tree, mirror, saved, copy, crashes>>

\* session.Load: "no local session".
Loads(v) ==
  /\ verb[v] = "loads" /\ v \notin sweeping
  /\ VerbIs(v, IF saved THEN "opened" ELSE "refused")
  /\ UNCHANGED <<hosting, phaseOf, marker, lock, tree, mirror, saved, copy, sweeping,
                 through, crashes>>

\* ctx: the human's interrupt.
Interrupted(v) ==
  /\ verb[v] = "waits" /\ VerbIs(v, "refused")
  /\ UNCHANGED <<hosting, phaseOf, marker, lock, tree, mirror, saved, copy, sweeping,
                 through, crashes>>

ProcStep(p) ==
  \/ Hosts(p) \/ Joins(p) \/ Sweep(p) \/ BeginStandup(p) \/ StandupFails(p)
  \/ StartsCloning(p) \/ Clones(p) \/ ServesWithoutTree(p) \/ Mirrors(p) \/ Saves(p)
  \/ Ready(p) \/ ReadsMarker(p) \/ WritesMarker(p) \/ Closes(p) \/ Crashes(p)

VerbStep(v) ==
  \/ Enters(v) \/ Picks(v) \/ AsksForSite(v) \/ AwaitsWorkTree(v) \/ Sweep(v)
  \/ LooksAgain(v) \/ WakesUp(v)
  \/ SaysHowItEnded(v) \/ Loads(v) \/ Interrupted(v)

StandupNext ==
  \/ \E p \in Pid : ProcStep(p)
  \/ \E v \in Verb : VerbStep(v)

\* A standup goes on until it ends, one way or the other: every step of it is a
\* command or a request with an end of its own.  A process that is up may stay
\* up, and a human may never interrupt.
Builds(p) ==
  \/ Sweep(p) \/ BeginStandup(p) \/ StartsCloning(p) \/ Clones(p) \/ Mirrors(p)
  \/ ServesWithoutTree(p) \/ Saves(p) \/ Ready(p)
  \/ (HalfPresent(p) /\ phaseOf[p] = "builds" /\ StandupFails(p))

VerbGoesOn(v) ==
  \/ AwaitsWorkTree(v) \/ Sweep(v) \/ LooksAgain(v) \/ WakesUp(v) \/ SaysHowItEnded(v)
  \/ Loads(v)

StandupFairness ==
  /\ \A p \in Pid : WF_standupVars(Builds(p))
  /\ \A v \in Verb : WF_standupVars(VerbGoesOn(v))

StandupSpec == StandupInit /\ [][StandupNext]_standupVars /\ StandupFairness

-----------------------------------------------------------------------------
(* Properties. *)

Building(p) == phaseOf[p] \in {"builds", "cloning"}

\* Two processes never build one directory at the same time, and a command that
\* the readyAt of a join let in finds the whole tree and its session.json: what
\* standup.go keeps apart, discoverable and usable (BeginStandup, Ready).
BuildsAlone ==
  /\ \A p, q \in Pid : Building(p) /\ Building(q) => p = q
  /\ \A t \in through : verb[t[1]] # "refused" /\ (t[2] \notin hosting => tree = "whole")

\* A command that waits for a work tree stops waiting, whatever became of the
\* process that was building it: a waiter never outlives what it waits for
\* (Standup's comment, standup.go:33).
WaiterReturns == \A v \in Verb : verb[v] = "waits" ~> verb[v] # "waits"

\* The second of two joins for one session on one machine is refused
\* (joindaemon/join.go:169): only one of them ever comes up.
OneDaemon ==
  \A p, q \in Pid \ hosting : phaseOf[p] = "up" /\ phaseOf[q] = "up" => p = q

\* A command that is past the wait is not in front of half a clone
\* (standup.go:33).
WaitsForTheBuild == \A v \in Verb : verb[v] = "loads" /\ LiveHere => tree # "partial"

\* A process that is up is found: its marker is there (live.go:110).
UpIsFound == \A p \in Pid : phaseOf[p] = "up" => marker # NoMarker

=============================================================================
