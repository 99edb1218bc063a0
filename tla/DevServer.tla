----------------------------- MODULE DevServer -----------------------------
(***************************************************************************)
(* The project's own dev command under supervision: the Supervisor with its *)
(* crash breaker (devserver/devserver.go), and the two that drive one: the  *)
(* host's tick (cli/verbs.go, hoststart/hoststart.go), which also runs what *)
(* a new commit asks for (runtime/runtime.go), and the join daemon of the   *)
(* member that holds the dev lease (joindaemon/placement.go).               *)
(*                                                                          *)
(* Time is told apart only where the code does: whether a run was shorter   *)
(* than shortRun.                                                           *)
(***************************************************************************)
EXTENDS Naturals, FiniteSets

CONSTANTS
  MaxShortExits, \* maxShortExits
  MaxRuns,       \* bound on the processes there are at a time
  MaxLandings,   \* bound on the advances of main
  DevFaults,     \* what may go wrong, see DevFaultKinds
  MaxDevFaults   \* bound on how often

\* "crash": a server exits; "exec": a process cannot be started; "git": a git
\* command of the tick fails; "hook": a migration or a reseed fails; "net": the
\* daemon finds no session, or the relay refuses its holder.
DevFaultKinds == {"crash", "exec", "git", "hook", "net"}

Run == 1 .. MaxRuns
Hook == {"migrate", "env", "reseed"}
Change == Hook \cup {"code"}

ASSUME DevAssumption ==
  /\ MaxShortExits \in Nat \ {0} /\ MaxRuns \in Nat /\ MaxLandings \in Nat
  /\ DevFaults \subseteq DevFaultKinds /\ MaxDevFaults \in Nat

VARIABLES
  driver,        \* who drives the supervisor: the host's tick, or a daemon
  cmd, running, stopping, span, shortExits, gaveUp, \* Supervisor
  proc, mine, port, \* the processes, those of this Supervisor, who has the port
  serving, published, announced, \* j.dev or r.Dev, the holder, the endpoint
  step, known, todo, closed, \* the loop, the range its tick has, j.stop
  landed, declared, owed, \* on main only; the command; hooks not run yet
  excused,       \* history: hooks whose run failed, or whose range was not known
  quick, inARow, \* history: runs that were short, and how many in a row
  crossed,       \* history: the reap of an older process has met a newer one
  revived,       \* history: a start has come after the stop it did not see
  landings, devSpent

supervisor == <<cmd, running, stopping, span, shortExits, gaveUp>>
offer == <<serving, published, announced>>
loop == <<step, known, todo, closed>>
work == <<landed, declared, owed, landings>>
history == <<excused, quick, inARow, crossed, revived>>
devVars == <<driver, supervisor, proc, mine, port, offer, loop,
             work, history, devSpent>>

DevTypeOK ==
  /\ driver \in {"host", "daemon"}
  /\ cmd \in {0} \cup Run /\ running \in BOOLEAN /\ stopping \in BOOLEAN
  /\ span \in {"never", "open", "short", "long"}
  /\ shortExits \in 0 .. MaxShortExits + 1 /\ gaveUp \in BOOLEAN
  /\ proc \in [Run -> {"none", "up", "killed", "dead"}]
  /\ mine \subseteq Run /\ port \in {0} \cup Run
  /\ serving \in BOOLEAN /\ published \in BOOLEAN /\ announced \in BOOLEAN
  /\ step \in {"select", "sync", "adopt", "hooks", "stop", "start", "alive",
               "restart", "publish"}
  /\ known \in BOOLEAN /\ todo \subseteq Change /\ closed \in BOOLEAN
  /\ landed \subseteq Change /\ declared \in BOOLEAN /\ owed \subseteq Hook
  /\ excused \subseteq Hook /\ quick \subseteq Run /\ inARow \in Nat
  /\ crossed \in BOOLEAN /\ revived \in BOOLEAN
  /\ landings \in 0 .. MaxLandings /\ devSpent \in 0 .. MaxDevFaults

\* Nothing runs.  A host's seed may have no command yet; the daemon's project
\* has one.
DevInit ==
  /\ driver \in {"host", "daemon"}
  /\ cmd = 0 /\ running = FALSE /\ stopping = FALSE /\ span = "never"
  /\ shortExits = 0 /\ gaveUp = FALSE
  /\ proc = [p \in Run |-> "none"] /\ mine = {} /\ port = 0
  /\ serving = FALSE /\ published = FALSE /\ announced = FALSE
  /\ step = "select" /\ known = FALSE /\ todo = {} /\ closed = FALSE
  /\ landed = {} /\ declared = (driver = "daemon") /\ owed = {}
  /\ excused = {} /\ quick = {} /\ inARow = 0 /\ crossed = FALSE /\ revived = FALSE
  /\ landings = 0 /\ devSpent = 0

DevFault(kind) ==
  kind \in DevFaults /\ devSpent < MaxDevFaults /\ devSpent' = devSpent + 1

-----------------------------------------------------------------------------
(* The processes of the machine. *)

\* A dev server comes to listen on the one port there is, if that is free.
Listen(p) ==
  /\ proc[p] = "up" /\ port = 0
  /\ port' = p
  /\ UNCHANGED <<driver, supervisor, proc, mine, offer, loop, work, history,
                 devSpent>>

\* It exits: because it was killed, because the port is taken, or by itself.
Exit(p) ==
  /\ proc[p] \in {"up", "killed"}
  /\ IF proc[p] = "killed" \/ port \notin {0, p}
     THEN UNCHANGED devSpent ELSE DevFault("crash")
  /\ proc' = [proc EXCEPT ![p] = "dead"]
  /\ port' = IF port = p THEN 0 ELSE port
  /\ \/ /\ quick' = quick \cup {p}
        /\ inARow' = IF proc[p] = "up" /\ ~crossed THEN inARow + 1 ELSE inARow
     \/ quick' = quick /\ inARow' = 0
  /\ UNCHANGED <<driver, supervisor, mine, offer, loop, work, excused, crossed,
                 revived>>

-----------------------------------------------------------------------------
(* Supervisor. *)

\* Whichever process it waited for, reap tells the Supervisor that its process
\* is gone; the span is counted from the last start.
Reap(p) ==
  /\ proc[p] = "dead"
  /\ proc' = [proc EXCEPT ![p] = "none"]
  /\ mine' = mine \ {p} /\ quick' = quick \ {p}
  /\ IF p \in mine
     THEN /\ running' = FALSE
          /\ span' \in IF cmd # p THEN {"short", "long"}
                       ELSE IF p \in quick THEN {"short"} ELSE {"long"}
          /\ cmd' = IF cmd = p THEN 0 ELSE cmd
          /\ crossed' = (crossed \/ cmd # p)
     ELSE UNCHANGED <<running, span, cmd, crossed>>
  /\ UNCHANGED <<driver, stopping, shortExits, gaveUp, port, offer, loop,
                 work, excused, inARow, revived, devSpent>>

Fresh == {p \in Run : proc[p] = "none"}
NewRun == CHOOSE p \in Fresh : TRUE

Started ==
  /\ Fresh # {}
  /\ proc' = [proc EXCEPT ![NewRun] = "up"] /\ mine' = mine \cup {NewRun}
  /\ cmd' = NewRun /\ running' = TRUE /\ stopping' = FALSE /\ span' = "open"
  /\ UNCHANGED devSpent

StartFailed ==
  /\ DevFault("exec")
  /\ span' = "short"
  /\ UNCHANGED <<proc, mine, cmd, running, stopping>>

Start == Started \/ StartFailed

Stop ==
  /\ stopping' = TRUE
  /\ proc' = [p \in Run |-> IF p = cmd /\ proc[p] = "up" THEN "killed" ELSE proc[p]]

NeedsRestart == span # "never" /\ ~running /\ ~stopping /\ ~gaveUp

\* Mutant: the breaker counts one run too many.
LateTrip(count) == count > MaxShortExits + 1

Trips(count) == count > MaxShortExits

\* Counts the fast deaths, and starts unless the breaker trips.
Restart ==
  LET count == IF span = "short" THEN shortExits + 1 ELSE 0
  IN IF gaveUp \/ span \in {"never", "open"}
     THEN UNCHANGED <<supervisor, proc, mine, devSpent>>
     ELSE /\ shortExits' = count /\ gaveUp' = Trips(count)
          /\ IF Trips(count)
             THEN UNCHANGED <<cmd, running, stopping, span, proc, mine,
                              devSpent>>
             ELSE Start

-----------------------------------------------------------------------------
(* The host's tick, and what lands on main meanwhile. *)

Land(c) ==
  /\ driver = "host" /\ landings < MaxLandings
  /\ landings' = landings + 1 /\ landed' = landed \cup {c}
  /\ UNCHANGED <<driver, supervisor, proc, mine, port, offer, loop, declared,
                 owed, history, devSpent>>

\* The HEAD before is read, or is not.
TickBegins ==
  /\ driver = "host" /\ step = "select"
  /\ step' = "sync"
  /\ \/ known' = TRUE /\ UNCHANGED devSpent
     \/ known' = FALSE /\ DevFault("git")
  /\ UNCHANGED <<driver, supervisor, proc, mine, port, offer, todo, closed,
                 work, history>>

\* SyncWorkToMain, which may fail, and the HEAD after, which may not be read.
\* A range with one end missing is nothing to do.
SyncWork ==
  /\ step = "sync"
  /\ step' = "adopt"
  /\ \/ /\ owed' = owed \cup (landed \cap Hook) /\ landed' = {}
        /\ \/ todo' = (IF known THEN landed ELSE {}) /\ UNCHANGED devSpent
           \/ todo' = {} /\ DevFault("git")
        /\ inARow' = IF todo' = {} THEN inARow ELSE 0
        /\ excused' = excused \cup ((landed \ todo') \cap Hook)
     \/ /\ DevFault("git")
        /\ todo' = {} /\ UNCHANGED <<owed, landed, excused, inARow>>
  /\ UNCHANGED <<driver, supervisor, proc, mine, port, offer, known, closed,
                 declared, landings, quick, crossed, revived>>

\* The endpoint is published when something listens on the port, and cleared
\* when nothing does.
Announce == announced' = (port # 0)

\* main may have brought the project's command: install, start, publish the
\* holder.  A server that does not start is left to KeepDevAlive.
Adopt ==
  /\ step = "adopt"
  /\ step' = "hooks"
  /\ \/ /\ ~declared /\ landings > 0
        /\ declared' = TRUE /\ serving' = TRUE
        /\ Start
        /\ published' = running'
        /\ IF running' THEN Announce ELSE UNCHANGED announced
     \/ UNCHANGED <<declared, offer, cmd, running, stopping, span, proc, mine,
                    devSpent>>
  /\ UNCHANGED <<driver, shortExits, gaveUp, port, known, todo, closed, landed,
                 owed, landings, history>>

\* What a hook that fails keeps from running: itself and those after it.
NotReached(failing) ==
  CASE failing = "migrate" -> Hook
    [] failing = "env" -> {"env", "reseed"}
    [] failing = "reseed" -> {"reseed"}

\* Mutant: Reconcile stops after the migration.
OnlyFirstHook == IF "migrate" \in todo THEN {"migrate"} ELSE todo \cap Hook

\* Migration, environment and reseed, in this order.
Asked == todo \cap Hook

\* ReconcileFromTo takes the new HEAD for reconciled, also when a hook failed.
RunHooks ==
  /\ step = "hooks"
  /\ \/ /\ owed' = owed \ Asked
        /\ step' = IF Asked # {} THEN "stop" ELSE "alive"
        /\ IF todo # {} /\ Asked = {} THEN Announce ELSE UNCHANGED announced
        /\ UNCHANGED <<excused, devSpent>>
     \/ \E f \in Asked :
          /\ DevFault("hook")
          /\ owed' = owed \ (Asked \ NotReached(f))
          /\ excused' = excused \cup (Asked \cap NotReached(f))
          /\ step' = "alive" /\ UNCHANGED announced
  /\ UNCHANGED <<driver, supervisor, proc, mine, port, serving, published, known, todo,
                 closed, landed, declared, landings, quick, inARow, crossed,
                 revived>>

\* Reload: Stop,
ReloadStops ==
  /\ step = "stop"
  /\ Stop /\ step' = "start"
  /\ UNCHANGED <<driver, cmd, running, span, shortExits, gaveUp, mine, port,
                 offer, known, todo, closed, work, history, devSpent>>

\* then Start, whether or not the old process is gone.  Without a command
\* there is nothing to start, and nothing else is undone.
ReloadStarts ==
  /\ step = "start"
  /\ step' = "alive"
  /\ IF declared THEN Start
     ELSE UNCHANGED <<proc, mine, cmd, running, stopping, span, devSpent>>
  /\ IF declared /\ stopping' THEN UNCHANGED announced ELSE Announce
  /\ UNCHANGED <<driver, shortExits, gaveUp, port, serving, published, known,
                 todo, closed, work, history>>

\* Mutant: only a new commit has the server looked after.
AsksAfterCommit == NeedsRestart' /\ todo # {}

Asks == NeedsRestart'

\* KeepDevAlive: a commit gives the command another go, a live process is
\* announced again, and one that is gone is to be restarted.
Look ==
  /\ driver = "host" /\ step = "alive"
  /\ IF todo # {}
     THEN shortExits' = 0 /\ gaveUp' = FALSE /\ inARow' = 0
     ELSE UNCHANGED <<shortExits, gaveUp, inARow>>
  /\ IF running THEN Announce ELSE UNCHANGED announced
  /\ todo' = {}
  /\ UNCHANGED <<driver, cmd, running, stopping, span, proc, mine, port,
                 serving, published, known, closed, work, excused, quick,
                 crossed, revived, devSpent>>
  /\ step' = IF Asks THEN "restart" ELSE "select"

-----------------------------------------------------------------------------
(* The join daemon of the dev lease's owner. *)

\* startDev, up to the supervisor's start.
StartDev ==
  /\ driver = "daemon" /\ step = "select" /\ ~serving /\ ~closed
  /\ \/ /\ Fresh # {}
        /\ proc' = [proc EXCEPT ![NewRun] = "up"] /\ mine' = {NewRun}
        /\ cmd' = NewRun /\ running' = TRUE /\ stopping' = FALSE /\ span' = "open"
        /\ shortExits' = 0 /\ gaveUp' = FALSE /\ inARow' = 0
        /\ step' = "publish" /\ UNCHANGED devSpent
     \/ /\ DevFault("exec")
        /\ UNCHANGED <<supervisor, proc, mine, step, inARow>>
  /\ UNCHANGED <<driver, port, offer, known, todo, closed, work, excused, quick,
                 crossed, revived>>

\* Its session, its holder, its endpoint; or the process is stopped again.
PublishDev ==
  /\ step = "publish"
  /\ step' = "select"
  /\ \/ /\ serving' = TRUE /\ published' = TRUE /\ Announce
        /\ revived' = closed
        /\ UNCHANGED <<stopping, proc, devSpent>>
     \/ Stop /\ DevFault("net") /\ UNCHANGED <<offer, revived>>
  /\ UNCHANGED <<driver, cmd, running, span, shortExits, gaveUp, mine, port,
                 known, todo, closed, work, excused, quick, inARow, crossed>>

\* keepDevPublished, up to its question.
Keep ==
  /\ driver = "daemon" /\ step = "select" /\ serving /\ ~closed
  /\ IF running THEN Announce ELSE UNCHANGED announced
  /\ step' = IF NeedsRestart THEN "restart" ELSE "select"
  /\ UNCHANGED <<driver, supervisor, proc, mine, port, serving, published,
                 known, todo, closed, work, history, devSpent>>

\* KeepDevAlive and keepDevPublished ask under one lock and restart under another.
RestartIt ==
  /\ step = "restart"
  /\ Restart /\ step' = "select"
  /\ IF running' THEN Announce ELSE UNCHANGED announced
  /\ revived' = (revived \/ (~serving /\ running'))
  /\ UNCHANGED <<driver, port, serving, published, known, todo, closed, work,
                 excused, quick, inARow, crossed>>

\* Mutant: the lease goes, and the process is left to itself.
LetGo == stopping' = TRUE /\ UNCHANGED proc

HandBack == Stop

\* The lease is lost: the registration goes, then the process.
StandDown ==
  /\ driver = "daemon" /\ step = "select" /\ serving /\ ~closed
  /\ HandBack /\ serving' = FALSE /\ published' = FALSE
  /\ UNCHANGED <<driver, cmd, running, span, shortExits, gaveUp, mine, port,
                 announced, loop, work, history, devSpent>>

\* The member leaves, from another goroutine than the loop's.
Close ==
  /\ driver = "daemon" /\ ~closed
  /\ closed' = TRUE
  /\ IF serving
     THEN HandBack /\ serving' = FALSE /\ published' = FALSE
     ELSE UNCHANGED <<stopping, proc, serving, published>>
  /\ UNCHANGED <<driver, cmd, running, span, shortExits, gaveUp, mine, port,
                 announced, step, known, todo, work, history, devSpent>>

-----------------------------------------------------------------------------
Ticking == TickBegins \/ SyncWork \/ Adopt \/ RunHooks \/ ReloadStops \/ ReloadStarts \/ Look
Keeping == StartDev \/ PublishDev \/ Keep

DevNext ==
  \/ \E p \in Run : Listen(p) \/ Exit(p) \/ Reap(p)
  \/ \E c \in Change : Land(c)
  \/ Ticking \/ Keeping \/ RestartIt
  \/ StandDown \/ Close

DevSpec == DevInit /\ [][DevNext]_devVars

\* The loop goes on, a killed process dies, and every process is waited for.
DevFairness ==
  /\ WF_devVars(Ticking \/ Keeping \/ RestartIt)
  /\ \A p \in Run : WF_devVars(proc[p] # "up" /\ (Exit(p) \/ Reap(p)))

DevFairSpec == DevSpec /\ DevFairness

-----------------------------------------------------------------------------
Up == {p \in Run : proc[p] = "up"}

\* One server runs while the service is served and none after it was handed
\* back, through every restart, Reload and failed start, unless the reap of a
\* process that Reload replaced came late, or a restart slipped past Close.
OneServer ==
  ~crossed /\ ~revived =>
    Cardinality(Up) <= IF serving \/ step = "publish" THEN 1 ELSE 0

\* A command that dies at once is not run more often than the breaker allows
\* between two commits, whatever else the tick does to it.
BreakerHolds == ~crossed => inARow <= MaxShortExits + 1

\* A server that went away by itself is started again, or given up, until the
\* member leaves.
ComesBack == []<>(~NeedsRestart \/ Fresh = {} \/ closed)

\* A hook that main asks for has run once its tick is over, unless it failed or
\* git could not say what is new: a failure is never tried again.
OnlyFailuresSkipHooks == step = "select" => owed \subseteq excused

\* What the comment on NeedsRestart says: the process went away by itself.
RestartsOnlyTheDead == NeedsRestart => \A p \in mine : proc[p] # "up"
=============================================================================
