------------------------------- MODULE Mirror -------------------------------
(***************************************************************************)
(* How a joined machine keeps up with main: the held session stream         *)
(* (controlplane/watch.go), the snapshot that backs it up                   *)
(* (controlplane/membersync_outbox.go), and the join daemon's mirrorLoop    *)
(* (joindaemon/join.go), which follows the canonical repository when it     *)
(* moves (syncengine/repoint.go) and fetches main from it.  A command such  *)
(* as `slopball sync` follows too, from a process of its own, over the same *)
(* two repositories and the same cursors.json.                              *)
(*                                                                          *)
(* The session is its generation: generation g has its canonical on         *)
(* machine g, and a cutover moves it to the next machine.                   *)
(***************************************************************************)
EXTENDS Naturals, Sequences, SequencesExt

CONSTANTS
  ChanCap,       \* room in a subscriber's channel
  MaxFolded,     \* maxFoldedEvents
  SnapshotEvery, \* cycles between two snapshots on a live stream
  MaxMain,       \* bound on the advances of main
  MaxMoves,      \* bound on the cutovers
  Faults,        \* what may go wrong, see FaultKinds
  MaxFaults      \* bound on how often

\* "drop": the stream ends, with what is on it; "black": it stays open and
\* delivers nothing; "refused": it is answered 401 or 404; "unseen": an advance
\* of main is never announced; "sync", "unreachable", "fetch": a member sync, a
\* resolve or ls-remote, a fetch fails; "git": a set-url fails, or its process
\* runs out of time there; "crash": a process dies; "command": somebody runs a
\* command that follows.
FaultKinds == {"drop", "black", "refused", "unseen", "sync", "unreachable",
               "fetch", "git", "crash", "command"}

Gen == 1 .. (MaxMoves + 1)
Process == {"daemon", "command"}

\* What git is given: a machine's address, or the loopback forwarder of the
\* n-th process, which reaches whoever hosts.
Url == ({"at"} \X Gen) \cup ({"via"} \X Nat)
Main == 0 .. MaxMain
News == {"main.advanced", "host.cutover"}
Frame == [gen : Gen, events : {<<>>} \cup {<<n>> : n \in News}]

ASSUME MirrorAssumption ==
  /\ ChanCap \in Nat \ {0}
  /\ MaxFolded \in Nat \ {0}
  /\ SnapshotEvery \in Nat \ {0}
  /\ MaxMain \in Nat
  /\ MaxMoves \in Nat
  /\ Faults \subseteq FaultKinds
  /\ MaxFaults \in Nat

VARIABLES
  gen, head,     \* the session's generation; main on each machine
  published,     \* "at": machine addresses; "via": the session network
  conn, wire,    \* the stream's far end, and the frames under way on it
  watch, live,   \* watchLoop, and StreamLive
  cache, chan,   \* Client.cache, and the mirror loop's channel
  loop, fetchNow, floor, cycles, reply, \* mirrorLoop and its locals
  at, to, prev,  \* each process in FollowHost: where, with which target
  work, mirror, cursor, \* the two origins, and cursors.json
  copy,          \* main in the mirror
  number, born,  \* which process each is, and how many there were
  owed,          \* an announcement was read and no fetch begun since
  spent          \* faults so far

session == <<gen, head, published>>
stream == <<conn, wire, watch, live>>
client == <<cache, chan>>
daemon == <<loop, fetchNow, floor, cycles, reply>>
follow == <<at, to, prev>>
disk == <<work, mirror, cursor, copy>>
process == <<number, born>>
vars == <<session, stream, client, daemon, follow, disk, process, owed, spent>>

TypeOK ==
  /\ gen \in Gen /\ head \in [Gen -> Main] /\ published \in {"at", "via"}
  /\ conn \in {"none", "up", "black"}
  /\ wire \in Seq(Frame)
  /\ watch \in {"off", "dialing", "reading", "ended"} /\ live \in BOOLEAN
  /\ cache \in Gen
  /\ chan \in Seq(Seq(News)) /\ Len(chan) <= ChanCap
  /\ \A i \in DOMAIN chan : Len(chan[i]) <= MaxFolded
  /\ loop \in {"down", "joining", "select", "woken", "tick", "fetch", "flush",
               "sent", "answered"}
  /\ fetchNow \in BOOLEAN /\ floor \in {"armed", "due"}
  /\ cycles \in 0 .. SnapshotEvery - 1
  /\ reply \in {0} \cup Gen /\ (loop = "answered" => reply \in Gen)
  /\ at \in [Process -> {"out", "resolve", "probe", "work", "mirror", "save"}]
  /\ to \in [Process -> Url \X Gen]
  /\ prev \in [Process -> Url]
  /\ work \in Url /\ mirror \in Url /\ cursor \in Url \X Gen
  /\ copy \in Main
  /\ number \in [Process -> Nat] /\ born \in Nat
  /\ owed \in BOOLEAN
  /\ spent \in 0 .. MaxFaults

\* The daemon has joined and Join has started its loops.
Init ==
  /\ gen = 1 /\ head = [g \in Gen |-> 0] /\ published \in {"at", "via"}
  /\ conn = "none" /\ wire = <<>> /\ watch = "dialing" /\ live = FALSE
  /\ cache = 1 /\ chan = <<>>
  /\ loop = "select" /\ fetchNow = TRUE /\ floor = "armed"
  /\ cycles = 0 /\ reply = 0
  /\ at = [p \in Process |-> "out"]
  /\ to = [p \in Process |-> <<<<"at", 1>>, 1>>]
  /\ prev = [p \in Process |-> <<"at", 1>>]
  /\ work = <<published, 1>> /\ mirror = work /\ cursor = <<work, 1>>
  /\ copy = 0
  /\ number = [p \in Process |-> 1] /\ born = 1
  /\ owed = FALSE
  /\ spent = 0

Fault(kind) == kind \in Faults /\ spent < MaxFaults /\ spent' = spent + 1

-----------------------------------------------------------------------------
(* The session, as the control plane and the canonical hosts have it. *)

\* A frame goes to whoever is connected; a black stream swallows it.
Push(f) == wire' = IF conn = "up" THEN Append(wire, f) ELSE wire

\* Somebody's work lands on main; the frame that says so may never be sent.
AdvanceMain ==
  /\ head[gen] < MaxMain
  /\ head' = [head EXCEPT ![gen] = @ + 1]
  /\ \/ Push([gen |-> gen, events |-> <<"main.advanced">>]) /\ spent' = spent
     \/ Fault("unseen") /\ wire' = wire
  /\ UNCHANGED <<gen, published, conn, watch, live, client, daemon, follow,
                 disk, process, owed>>

Cutover ==
  /\ gen <= MaxMoves
  /\ gen' = gen + 1
  /\ head' = [head EXCEPT ![gen + 1] = head[gen]]
  /\ Push([gen |-> gen + 1, events |-> <<"host.cutover">>])
  /\ UNCHANGED <<published, conn, watch, live, client, daemon, follow, disk,
                 process, owed, spent>>

-----------------------------------------------------------------------------
(* Watch: the goroutine that holds the stream. *)

\* A connection may or may not begin with a frame of the session as it is.
Connect ==
  /\ watch = "dialing"
  /\ watch' = "reading" /\ conn' = "up" /\ live' = TRUE
  /\ wire' \in {<<>>, <<[gen |-> gen, events |-> <<>>]>>}
  /\ UNCHANGED <<session, client, daemon, follow, disk, process, owed, spent>>

RefuseStream ==
  /\ watch = "dialing" /\ Fault("refused")
  /\ watch' = "ended"
  /\ UNCHANGED <<session, conn, wire, live, client, daemon, follow, disk,
                 process, owed>>

LastOf(s) == SubSeq(s, IF Len(s) > MaxFolded THEN Len(s) - MaxFolded + 1 ELSE 1, Len(s))

\* Mutant: a full channel loses its oldest frame.
PublishDrops(events) == Append(IF Len(chan) < ChanCap THEN chan ELSE Tail(chan), events)

\* Mutant: the folded events are not cut.
PublishAll(events) ==
  IF Len(chan) < ChanCap
  THEN Append(chan, events)
  ELSE Append(Tail(chan), Head(chan) \o events)

\* publish: a full channel gives up its oldest frame, whose events the new one
\* takes along.
Publish(events) ==
  IF Len(chan) < ChanCap
  THEN Append(chan, events)
  ELSE Append(Tail(chan), LastOf(Head(chan) \o events))

ReadFrame ==
  /\ watch = "reading" /\ wire # <<>>
  /\ cache' = Head(wire).gen
  /\ chan' = Publish(Head(wire).events)
  /\ wire' = Tail(wire)
  /\ live' = TRUE
  /\ owed' = (owed \/ Head(wire).events # <<>>)
  /\ UNCHANGED <<session, conn, watch, daemon, follow, disk, process, spent>>

StreamEnds ==
  /\ conn' = "none" /\ wire' = <<>> /\ watch' = "dialing" /\ live' = FALSE
  /\ UNCHANGED <<session, client, daemon, follow, disk, process, owed>>

Drop == watch = "reading" /\ Fault("drop") /\ StreamEnds

GoesBlack ==
  /\ conn = "up" /\ Fault("black")
  /\ conn' = "black" /\ wire' = <<>>
  /\ UNCHANGED <<session, watch, live, client, daemon, follow, disk, process, owed>>

\* Nothing has come for StreamSilentAfter; the watchdog sees it a little later.
GoesSilent ==
  /\ conn = "black" /\ live
  /\ live' = FALSE
  /\ UNCHANGED <<session, conn, wire, watch, client, daemon, follow, disk,
                 process, owed, spent>>

DropSilent == conn = "black" /\ ~live /\ StreamEnds /\ UNCHANGED spent

-----------------------------------------------------------------------------
(* FollowHost and Repoint, by any process. *)

Sees(p) == IF p = "daemon" THEN cache ELSE gen

\* GitURL and Dialable.
Target(p) == <<IF published = "at" THEN <<"at", Sees(p)>> ELSE <<"via", number[p]>>,
               Sees(p)>>

\* Where the mirror loop is once it has followed; a Join that failed is over.
Afterwards(ok) ==
  CASE loop = "tick" -> "fetch"
    [] loop = "joining" /\ ~ok -> "down"
    [] OTHER -> "select"

Nowhere == <<"at", 1>>

Return(p, ok) ==
  /\ at' = [at EXCEPT ![p] = "out"]
  /\ to' = [to EXCEPT ![p] = <<Nowhere, 1>>]
  /\ prev' = [prev EXCEPT ![p] = Nowhere]
  /\ loop' = IF p = "daemon" THEN Afterwards(ok) ELSE loop

GoTo(p, place) == at' = [at EXCEPT ![p] = place] /\ UNCHANGED <<loop, to, prev>>

Unfollowed == <<session, conn, wire, live, client, cycles, reply, floor, copy,
                process, owed>>

\* The target equals what cursors.json has: nothing to do.  Join does not ask.
Resolve(p) ==
  /\ at[p] = "resolve"
  /\ IF cursor = Target(p) /\ (p = "command" \/ loop # "joining")
     THEN Return(p, TRUE)
     ELSE /\ at' = [at EXCEPT ![p] = IF work = Target(p)[1] THEN "save" ELSE "probe"]
          /\ to' = [to EXCEPT ![p] = Target(p)]
          /\ prev' = [prev EXCEPT ![p] = work]
          /\ UNCHANGED loop
  /\ UNCHANGED <<Unfollowed, watch, fetchNow, work, mirror, cursor, spent>>

\* Resolving or ls-remote failed: the origins stay.
NoAnswer(p) ==
  /\ at[p] \in {"resolve", "probe"} /\ Fault("unreachable")
  /\ Return(p, FALSE)
  /\ UNCHANGED <<Unfollowed, watch, fetchNow, work, mirror, cursor>>

Probe(p) ==
  /\ at[p] = "probe"
  /\ GoTo(p, "work")
  /\ UNCHANGED <<Unfollowed, watch, fetchNow, work, mirror, cursor, spent>>

SetWork(p) ==
  /\ at[p] = "work"
  /\ \/ GoTo(p, "mirror") /\ work' = to[p][1] /\ UNCHANGED spent
     \/ Fault("git") /\ Return(p, FALSE) /\ UNCHANGED work
  /\ UNCHANGED <<Unfollowed, watch, fetchNow, mirror, cursor>>

\* When the mirror's set-url fails the work tree is rolled back, which fails
\* too when the process is out of time.
SetMirror(p) ==
  /\ at[p] = "mirror"
  /\ \/ GoTo(p, "save") /\ mirror' = to[p][1] /\ UNCHANGED <<work, spent>>
     \/ /\ Fault("git") /\ Return(p, FALSE)
        /\ work' \in {prev[p], work}
        /\ UNCHANGED mirror
  /\ UNCHANGED <<Unfollowed, watch, fetchNow, cursor>>

\* Join goes on to start Watch and the mirror loop.
Save(p) ==
  LET joins == p = "daemon" /\ loop = "joining"
  IN /\ at[p] = "save"
     /\ cursor' = to[p]
     /\ Return(p, TRUE)
     /\ watch' = IF joins THEN "dialing" ELSE watch
     /\ fetchNow' = (fetchNow \/ joins)
     /\ UNCHANGED <<Unfollowed, work, mirror, spent>>

Command ==
  /\ at["command"] = "out" /\ Fault("command")
  /\ at' = [at EXCEPT !["command"] = "resolve"]
  /\ born' = born + 1
  /\ number' = [number EXCEPT !["command"] = born + 1]
  /\ UNCHANGED <<session, stream, client, daemon, to, prev, disk, owed>>

-----------------------------------------------------------------------------
(* mirrorLoop. *)

\* An update arrives.
Update ==
  LET events == Head(chan)
      moved == "host.cutover" \in ToSet(events)
  IN /\ loop = "select" /\ chan # <<>>
     /\ chan' = Tail(chan)
     /\ fetchNow' = (fetchNow \/ events # <<>>)
     /\ loop' = IF moved THEN "woken" ELSE "select"
     /\ at' = IF moved THEN [at EXCEPT !["daemon"] = "resolve"] ELSE at
     /\ UNCHANGED <<session, stream, cache, floor, cycles, reply, to, prev,
                    disk, process, owed, spent>>

FloorFires ==
  /\ loop \notin {"down", "joining"} /\ floor = "armed"
  /\ floor' = "due"
  /\ UNCHANGED <<session, stream, client, loop, fetchNow, cycles, reply, follow,
                 disk, process, owed, spent>>

FloorWakes ==
  /\ loop = "select" /\ floor = "due"
  /\ fetchNow' = TRUE /\ floor' = "armed"
  /\ UNCHANGED <<session, stream, client, loop, cycles, reply, follow, disk,
                 process, owed, spent>>

Tick ==
  /\ loop = "select"
  /\ loop' = "tick" /\ at' = [at EXCEPT !["daemon"] = "resolve"]
  /\ UNCHANGED <<session, stream, client, fetchNow, floor, cycles, reply, to,
                 prev, disk, process, owed, spent>>

\* Whether git can reach main there: a forwarder lives as long as its process.
Reaches(url) ==
  \/ url[1] = "at"
  \/ url[2] = number["daemon"]
  \/ url[2] = number["command"] /\ at["command"] # "out"

MainAt(url) == head[IF url[1] = "at" THEN url[2] ELSE gen]

SkipFetch ==
  /\ loop = "fetch" /\ ~fetchNow
  /\ loop' = "flush"
  /\ UNCHANGED <<session, stream, client, fetchNow, floor, cycles, reply, follow,
                 disk, process, owed, spent>>

\* A fetch that failed counts as done, too.
Fetch ==
  /\ loop = "fetch" /\ fetchNow
  /\ \/ Reaches(mirror) /\ copy' = MainAt(mirror) /\ UNCHANGED spent
     \/ ~Reaches(mirror) /\ UNCHANGED <<copy, spent>>
     \/ Fault("fetch") /\ UNCHANGED copy
  /\ fetchNow' = FALSE /\ floor' = "armed" /\ loop' = "flush"
  /\ owed' = \E i \in DOMAIN chan : chan[i] # <<>>
  /\ UNCHANGED <<session, stream, client, cycles, reply, follow, work, mirror,
                 cursor, process>>

\* Mutant: a dark stream does not shorten the wait for a snapshot.
SnapshotOnlyCounts == (cycles + 1) % SnapshotEvery = 0 /\ live

WantSnapshot == (cycles + 1) % SnapshotEvery = 0 \/ ~live

Flush ==
  /\ loop = "flush"
  /\ cycles' = (cycles + 1) % SnapshotEvery
  /\ loop' = IF WantSnapshot THEN "sent" ELSE "select"
  /\ UNCHANGED <<session, stream, client, fetchNow, floor, reply, follow, disk,
                 process, owed, spent>>

Answer ==
  /\ loop = "sent"
  /\ \/ loop' = "answered" /\ reply' = gen /\ UNCHANGED spent
     \/ loop' = "select" /\ UNCHANGED reply /\ Fault("sync")
  /\ UNCHANGED <<session, stream, client, fetchNow, floor, cycles, follow, disk,
                 process, owed>>

\* The snapshot may be older than a frame that overtook it.
Apply ==
  /\ loop = "answered"
  /\ loop' = "select" /\ cache' = reply /\ reply' = 0
  /\ UNCHANGED <<session, stream, chan, fetchNow, floor, cycles, follow, disk,
                 process, owed, spent>>

-----------------------------------------------------------------------------
(* Processes die, and the daemon is started again. *)

CrashCommand ==
  /\ at["command"] # "out" /\ "crash" \in Faults
  /\ Return("command", FALSE)
  /\ UNCHANGED <<session, stream, client, fetchNow, floor, cycles, reply, disk,
                 process, owed, spent>>

CrashDaemon ==
  /\ loop # "down" /\ Fault("crash")
  /\ loop' = "down" /\ at' = [at EXCEPT !["daemon"] = "out"]
  /\ to' = [to EXCEPT !["daemon"] = <<Nowhere, 1>>]
  /\ prev' = [prev EXCEPT !["daemon"] = Nowhere]
  /\ conn' = "none" /\ wire' = <<>> /\ watch' = "off" /\ live' = FALSE
  /\ chan' = <<>> /\ fetchNow' = FALSE /\ floor' = "armed" /\ cycles' = 0
  /\ reply' = 0 /\ owed' = FALSE
  /\ UNCHANGED <<session, cache, disk, process>>

\* Join, on a machine that has joined before.
Rejoin ==
  /\ loop = "down"
  /\ loop' = "joining" /\ at' = [at EXCEPT !["daemon"] = "resolve"]
  /\ cache' = gen
  /\ born' = born + 1 /\ number' = [number EXCEPT !["daemon"] = born + 1]
  /\ UNCHANGED <<session, stream, chan, fetchNow, floor, cycles, reply, to, prev,
                 disk, owed, spent>>

-----------------------------------------------------------------------------
Follow(p) == Resolve(p) \/ NoAnswer(p) \/ Probe(p) \/ SetWork(p) \/ SetMirror(p) \/ Save(p)

Watching == Connect \/ RefuseStream \/ ReadFrame \/ Drop \/ GoesBlack \/ GoesSilent \/ DropSilent

Mirroring ==
  \/ Update \/ FloorFires \/ FloorWakes \/ Tick
  \/ SkipFetch \/ Fetch \/ Flush \/ Answer \/ Apply

Next ==
  \/ AdvanceMain \/ Cutover
  \/ Watching
  \/ Mirroring
  \/ \E p \in Process : Follow(p)
  \/ Command \/ CrashCommand \/ CrashDaemon \/ Rejoin

Spec == Init /\ [][Next]_vars

\* Every process runs on, a timer fires, a silent stream is noticed, a select
\* with several ready cases picks each of them again and again, and somebody
\* starts the daemon that died.
Fairness ==
  /\ WF_vars(Connect) /\ WF_vars(ReadFrame)
  /\ WF_vars(GoesSilent) /\ WF_vars(DropSilent)
  /\ WF_vars(FloorFires) /\ SF_vars(Update) /\ SF_vars(FloorWakes) /\ SF_vars(Tick)
  /\ WF_vars(SkipFetch \/ Fetch \/ Flush \/ Answer \/ Apply)
  /\ \A p \in Process : WF_vars(Follow(p))
  /\ WF_vars(Rejoin)

FairSpec == Spec /\ Fairness

-----------------------------------------------------------------------------
\* An announcement that was read is not lost on the way to the next fetch,
\* however many frames arrive before the mirror loop looks (publish).
NoticeIsKept ==
  owed => fetchNow \/ \E i \in DOMAIN chan : chan[i] # <<>>

CaughtUp == cache = gen /\ copy = head[gen]

\* FollowHost returns at once, although a repository follows something else.
Misled ==
  cursor = Target("daemon") /\ (work # cursor[1] \/ mirror # cursor[1])

\* Whatever frames, answers and processes are lost, the mirror ends up with main
\* as it is: the floor, the snapshots and FollowHost make up for a stream that
\* says nothing.  The one thing it does not get over is to be misled.
CatchesUpUnlessMisled == <>[]Misled \/ <>[]CaughtUp
=============================================================================
