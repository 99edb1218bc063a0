------------------------------ MODULE Console ------------------------------
(***************************************************************************)
(* The process behind `slopball` and `slopball join`: the work on one          *)
(* goroutine, the screen's event loop on another, the quit that runs as a      *)
(* command beside it, and the deferred cleanup of the verb (cli/console.go,    *)
(* cli/verbs.go, console/run.go, console/console.go).                          *)
(*                                                                            *)
(* The event loop is the only reader of an unbuffered channel, and everything  *)
(* a daemon's Close does narrates into that channel.                           *)
(***************************************************************************)
EXTENDS Naturals, FiniteSets

CONSTANT MaxCommands  \* bound on the quits the user confirms

ASSUME ConsoleAssumption == MaxCommands \in Nat \ {0}

Command == 1 .. MaxCommands
Free == 0                  \* who holds the leaver's lock: nobody, a command,
VerbItself == MaxCommands + 1    \* or the verb's deferred Leave

VARIABLES
  mode,       \* "host"; "join" has its daemon before its screen, and so has a
              \* host that joins instead, "rejoin"
  terminal,   \* whether there is one to draw on
  works,       \* the session's goroutine
  daemon,     \* what it stood up: "half" while Start runs
  closes,     \* how often its Close ran
  screen,     \* the program: "loops", "stuck" inside Update, or "down"
  asked,      \* the confirm is on screen
  cmds,       \* the leave commands: Update returned them, bubbletea runs them
  mu,         \* the leaver: who holds its lock,
  registered, left,  \* its close, and closed
  main,       \* the verb's own goroutine
  news,       \* the announcer's message: none, in its channel, or relayed
  shown,      \* the screen knows the member it draws
  nudge,      \* the version check's answer: "asked", "there" or "printed"
  signalled   \* SIGTERM

consoleVars == <<mode, terminal, works, daemon, closes, screen, asked, cmds, mu, registered, left,
                 main, news, shown, nudge, signalled>>

ConsoleTypeOK ==
  /\ mode \in {"host", "join", "rejoin"} /\ terminal \in BOOLEAN
  /\ works \in {"starts", "has", "closes", "runs", "ended", "failed", "rejoins"}
  /\ daemon \in {"none", "half", "up", "down"} /\ closes \in 0 .. 2
  /\ screen \in {"loops", "stuck", "down"} /\ asked \in BOOLEAN
  /\ cmds \in [Command -> {"none", "waits", "closes", "done"}]
  /\ mu \in Free .. VerbItself /\ registered \in BOOLEAN /\ left \in BOOLEAN
  /\ main \in {"draws", "waits", "closes", "reads", "over"}
  /\ news \in {"none", "said", "relayed"} /\ shown \in BOOLEAN
  /\ nudge \in {"asked", "there", "printed"} /\ signalled \in BOOLEAN

ConsoleInit ==
  /\ mode \in {"host", "join"} /\ terminal \in BOOLEAN
  /\ works = (IF mode = "host" THEN "starts" ELSE "runs")
  /\ daemon = (IF mode = "host" THEN "none" ELSE "up") /\ closes = 0
  /\ screen = (IF terminal THEN "loops" ELSE "down") /\ asked = FALSE
  /\ cmds = [c \in Command |-> "none"] /\ mu = Free
  /\ registered = (mode = "join") /\ left = FALSE /\ main = "draws"
  /\ news = "none" /\ shown = (mode = "join") /\ nudge = "asked" /\ signalled = FALSE

Alive == main # "over"

\* A Send is received by the loop, or given up once the program has ended.
Heard == screen # "stuck"

-----------------------------------------------------------------------------
(* The work. *)

\* hoststart.Start begins, and later returns: a session, an error, or the news
\* that another machine hosts it.
Stands ==
  /\ Alive /\ works = "starts" /\ daemon = "none" /\ daemon' = "half"
  /\ UNCHANGED <<mode, terminal, works, closes, screen, asked, cmds, mu, registered, left,
                 main, news, shown, nudge, signalled>>

StartReturns ==
  /\ Alive /\ works = "starts" /\ daemon = "half" /\ Heard
  /\ \/ works' = "has" /\ daemon' = "up" /\ ~signalled
     \/ works' = "rejoins" /\ daemon' = "down" /\ ~signalled
     \/ works' = "failed" /\ daemon' = "down"
  /\ UNCHANGED <<mode, terminal, closes, screen, asked, cmds, mu, registered, left, main,
                 news, shown, nudge, signalled>>

Registers ==
  /\ Alive /\ works = "has" /\ mu = Free /\ Heard
  /\ IF left THEN works' = "closes" /\ UNCHANGED <<registered, news>>
               ELSE registered' = TRUE /\ works' = "runs" /\ news' = "said"
  /\ UNCHANGED <<mode, terminal, daemon, closes, screen, asked, cmds, mu, left, main, shown,
                 nudge, signalled>>

\* The quit landed mid-standup: stop what it could not have stopped.
ClosesItself ==
  /\ Alive /\ works = "closes" /\ Heard /\ daemon' = "down" /\ closes' = closes + 1
  /\ works' = "runs" /\ news' = "said"
  /\ UNCHANGED <<mode, terminal, screen, asked, cmds, mu, registered, left, main, shown,
                 nudge, signalled>>

\* The host loop ends when another machine hosts, or on a signal.
HostLoopEnds ==
  /\ Alive /\ works = "runs" /\ mode = "host" /\ Heard /\ works' = "ended"
  /\ UNCHANGED <<mode, terminal, daemon, closes, screen, asked, cmds, mu, registered, left,
                 main, news, shown, nudge, signalled>>

\* A join's work is to wait for the signal.
WaitForSignal ==
  /\ Alive /\ works = "runs" /\ mode # "host" /\ signalled /\ works' = "ended"
  /\ UNCHANGED <<mode, terminal, daemon, closes, screen, asked, cmds, mu, registered, left,
                 main, news, shown, nudge, signalled>>

\* A failure takes the screen down; a work that ends leaves it up.
WorkFails ==
  /\ Alive /\ works \in {"failed", "rejoins"} /\ screen = "loops" /\ screen' = "down"
  /\ UNCHANGED <<mode, terminal, works, daemon, closes, asked, cmds, mu, registered, left,
                 main, news, shown, nudge, signalled>>

\* relay and forward: never dropped once the announcer has it.
Relays ==
  /\ Alive /\ news = "said" /\ news' = "relayed"
  /\ UNCHANGED <<mode, terminal, works, daemon, closes, screen, asked, cmds, mu, registered,
                 left, main, shown, nudge, signalled>>

Forwards ==
  /\ Alive /\ news = "relayed" /\ screen = "loops" /\ ~shown /\ shown' = TRUE
  /\ UNCHANGED <<mode, terminal, works, daemon, closes, screen, asked, cmds, mu, registered,
                 left, main, news, nudge, signalled>>

-----------------------------------------------------------------------------
(* The screen. *)

\* q, and any key but y after it.
PressQuit ==
  /\ screen = "loops" /\ asked' = ~asked
  /\ UNCHANGED <<mode, terminal, works, daemon, closes, screen, cmds, mu, registered, left,
                 main, news, shown, nudge, signalled>>

\* Mutant: y, with the quit run inside Update.
LeavesInline ==
  /\ screen = "loops" /\ asked /\ asked' = FALSE /\ screen' = "stuck"
  /\ \E c \in Command : cmds[c] = "none" /\ cmds' = [cmds EXCEPT ![c] = "waits"]
  /\ UNCHANGED <<mode, terminal, works, daemon, closes, mu, registered, left, main, news,
                 shown, nudge, signalled>>

\* y: the quit is a command of its own.
Confirms ==
  /\ screen = "loops" /\ asked /\ asked' = FALSE
  /\ \E c \in Command : cmds[c] = "none" /\ cmds' = [cmds EXCEPT ![c] = "waits"]
  /\ UNCHANGED <<mode, terminal, works, daemon, closes, screen, mu, registered, left, main,
                 news, shown, nudge, signalled>>

\* Mutant: leaver.Leave with the lock given up before the daemon has closed.
LeaveUnlocked(c) ==
  /\ Alive /\ cmds[c] = "waits" /\ mu = Free /\ left' = TRUE
  /\ cmds' = [cmds EXCEPT ![c] = IF registered /\ ~left THEN "closes" ELSE "done"]
  /\ UNCHANGED mu
  /\ UNCHANGED <<mode, terminal, works, daemon, closes, screen, asked, registered, main, news,
                 shown, nudge, signalled>>

\* leaver.Leave: the first one closes what is registered and holds the lock
\* meanwhile; the second is a no-op, when it gets the lock.
Leave(c) ==
  /\ Alive /\ cmds[c] = "waits" /\ mu = Free /\ left' = TRUE
  /\ cmds' = [cmds EXCEPT ![c] = IF registered /\ ~left THEN "closes" ELSE "done"]
  /\ mu' = (IF registered /\ ~left THEN c ELSE mu)
  /\ UNCHANGED <<mode, terminal, works, daemon, closes, screen, asked, registered, main, news,
                 shown, nudge, signalled>>

DaemonCloses(c) ==
  /\ Alive /\ cmds[c] = "closes" /\ Heard /\ daemon' = "down" /\ closes' = closes + 1
  /\ cmds' = [cmds EXCEPT ![c] = "done"] /\ mu' = (IF mu = c THEN Free ELSE mu)
  /\ UNCHANGED <<mode, terminal, works, screen, asked, registered, left, main, news, shown,
                 nudge, signalled>>

\* The command's own result is what ends the program, failed or not.
Quits(c) ==
  /\ Alive /\ cmds[c] = "done" /\ screen # "down" /\ screen' = "down"
  /\ UNCHANGED <<mode, terminal, works, daemon, closes, asked, cmds, mu, registered, left,
                 main, news, shown, nudge, signalled>>

\* SIGTERM cancels the verb's context, and with it a host's program.
Signal ==
  /\ Alive /\ ~signalled /\ signalled' = TRUE
  /\ screen' = (IF mode = "host" THEN "down" ELSE screen)
  /\ UNCHANGED <<mode, terminal, works, daemon, closes, asked, cmds, mu, registered, left,
                 main, news, shown, nudge>>

-----------------------------------------------------------------------------
(* The verb: Run returns (without a terminal, the work does), the nudge is     *)
(* read, the deferred Leave runs, the process ends.                            *)

\* The version check is read and never waited for.
RunReturns ==
  /\ main = "draws" /\ main' = "waits"
  /\ nudge' = (IF nudge = "there" THEN "printed" ELSE nudge)
  /\ IF terminal THEN screen = "down" ELSE works \in {"ended", "failed", "rejoins"}
  /\ UNCHANGED <<mode, terminal, works, daemon, closes, screen, asked, cmds, mu, registered,
                 left, news, shown, signalled>>

MainLeaves ==
  /\ main = "waits" /\ mu = Free /\ left' = TRUE
  /\ IF registered /\ ~left THEN main' = "closes" /\ mu' = VerbItself
                              ELSE main' = "reads" /\ UNCHANGED mu
  /\ UNCHANGED <<mode, terminal, works, daemon, closes, screen, asked, cmds, registered, news,
                 shown, nudge, signalled>>

MainCloses ==
  /\ main = "closes" /\ main' = "reads" /\ mu' = Free
  /\ daemon' = "down" /\ closes' = closes + 1
  /\ UNCHANGED <<mode, terminal, works, screen, asked, cmds, registered, left, news, shown,
                 nudge, signalled>>

Answers ==
  /\ Alive /\ nudge = "asked" /\ nudge' = "there"
  /\ UNCHANGED <<mode, terminal, works, daemon, closes, screen, asked, cmds, mu, registered,
                 left, main, news, shown, signalled>>

Ends ==
  /\ main = "reads" /\ main' = "over"
  /\ UNCHANGED <<mode, terminal, works, daemon, closes, screen, asked, cmds, mu, registered,
                 left, news, shown, nudge, signalled>>

\* ErrJoinAsClient: the same process joins, behind a new screen.
JoinsInstead ==
  /\ main = "waits" /\ mode = "host" /\ works = "rejoins"
  /\ mode' = "rejoin" /\ works' = "runs" /\ daemon' = "up" /\ main' = "draws"
  /\ screen' = (IF terminal THEN "loops" ELSE "down") /\ asked' = FALSE
  /\ cmds' = [c \in Command |-> "none"] /\ registered' = TRUE /\ left' = FALSE /\ mu' = Free
  /\ shown' = TRUE /\ news' = "none" /\ nudge' = "asked"
  /\ UNCHANGED <<terminal, closes, signalled>>

-----------------------------------------------------------------------------
ConsoleNext ==
  \/ Stands \/ StartReturns \/ Registers \/ ClosesItself \/ HostLoopEnds \/ WaitForSignal
  \/ WorkFails
  \/ Relays \/ Forwards \/ PressQuit \/ Confirms
  \/ \E c \in Command : Leave(c) \/ DaemonCloses(c) \/ Quits(c)
  \/ Signal \/ RunReturns \/ MainLeaves \/ MainCloses \/ Answers \/ Ends \/ JoinsInstead

\* The runtime schedules every goroutine, and a daemon's Close returns. Nothing
\* is assumed of the user, of signals, of Start or of the version's server.
ConsoleFairness ==
  /\ \A c \in Command : /\ WF_consoleVars(Leave(c))
                        /\ WF_consoleVars(DaemonCloses(c))
                        /\ WF_consoleVars(Quits(c))
  /\ WF_consoleVars(Registers \/ ClosesItself \/ WorkFails)
  /\ WF_consoleVars(Relays \/ Forwards)
  /\ WF_consoleVars(RunReturns \/ MainCloses \/ Ends \/ JoinsInstead)
  /\ WF_consoleVars(MainLeaves)

ConsoleSpec == ConsoleInit /\ [][ConsoleNext]_consoleVars /\ ConsoleFairness

-----------------------------------------------------------------------------
(* Properties. *)

\* A confirmed quit ends the process (or this screen, when the machine joins
\* instead), whatever the standup and the daemon are doing: no goroutine waits
\* for one that waits for it.
QuitEnds == (\E c \in Command : cmds[c] # "none") 
              ~> (main = "over" \/ \A c \in Command : cmds[c] = "none")

\* The process ends after the daemon it registered has handed back what it
\* held, and closes it once, however many quits, failures and signals race.
HandsBackOnce ==
  /\ main = "over" /\ registered => daemon = "down"
  /\ closes <= 1

\* cli/console.go:62: what a standup started although the quit came first is
\* stopped too.
LeavesWhatItStarted == main = "over" => daemon \in {"none", "down"}
=============================================================================
