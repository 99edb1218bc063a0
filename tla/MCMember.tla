------------------------------ MODULE MCMember ------------------------------
(***************************************************************************)
(* What runs on one machine of the session, for model checking: the dev   *)
(* server's supervisor, the stream of its log, two processes that stand   *)
(* one directory up, a command that is run in the box, and the console.   *)
(* Each has a specification of its own and none reads another's           *)
(* variables, so one of them moves in a behaviour (part) and the others   *)
(* stay in an initial state: the behaviours of the run are those of the   *)
(* five specifications.                                                   *)
(***************************************************************************)
EXTENDS DevServer, LogStream, Standup, BoxExec, Console

VARIABLE part

TypeOK ==
  /\ part \in {"dev", "log", "standup", "exec", "console"}
  /\ DevTypeOK /\ LogTypeOK /\ StandupTypeOK /\ ExecTypeOK /\ ConsoleTypeOK

\* A part that does not move has one initial state.
Init ==
  /\ part \in {"dev", "log", "standup", "exec", "console"}
  /\ DevInit /\ LogInit /\ StandupInit /\ ExecInit /\ ConsoleInit
  /\ part # "dev" => driver = "host"
  /\ part # "exec" => kind = "ls" /\ stdin = "open"
  /\ part # "console" => mode = "host" /\ ~terminal

Next ==
  /\ \/ /\ part = "dev" /\ DevNext
        /\ UNCHANGED <<logVars, standupVars, execVars, consoleVars>>
     \/ /\ part = "log" /\ LogNext
        /\ UNCHANGED <<devVars, standupVars, execVars, consoleVars>>
     \/ /\ part = "standup" /\ StandupNext
        /\ UNCHANGED <<devVars, logVars, execVars, consoleVars>>
     \/ /\ part = "exec" /\ ExecNext
        /\ UNCHANGED <<devVars, logVars, standupVars, consoleVars>>
     \/ /\ part = "console" /\ ConsoleNext
        /\ UNCHANGED <<devVars, logVars, standupVars, execVars>>
  /\ UNCHANGED part

\* Each component's own fairness, where it is the one that moves.
Fairness ==
  /\ WF_devVars(part = "dev" /\ (Ticking \/ Keeping \/ RestartIt))
  /\ \A p \in Run : WF_devVars(part = "dev" /\ proc[p] # "up" /\ (Exit(p) \/ Reap(p)))
  /\ WF_logVars(part = "log" /\ Serving) /\ WF_logVars(part = "log" /\ Following)
  /\ WF_logVars(part = "log" /\ Take)
  /\ \A p \in Pid : WF_standupVars(part = "standup" /\ Builds(p))
  /\ \A v \in Verb : WF_standupVars(part = "standup" /\ VerbGoesOn(v))
  /\ WF_execVars(part = "exec" /\ Runs)
  /\ \A c \in Command : /\ WF_consoleVars(part = "console" /\ Leave(c))
                        /\ WF_consoleVars(part = "console" /\ DaemonCloses(c))
                        /\ WF_consoleVars(part = "console" /\ Quits(c))
  /\ WF_consoleVars(part = "console" /\ (Registers \/ ClosesItself \/ WorkFails))
  /\ WF_consoleVars(part = "console" /\ (Relays \/ Forwards))
  /\ WF_consoleVars(part = "console" /\ (RunReturns \/ MainCloses \/ Ends \/ JoinsInstead))
  /\ WF_consoleVars(part = "console" /\ MainLeaves)

vars == <<part, devVars, logVars, standupVars, execVars, consoleVars>>

Spec == Init /\ [][Next]_vars /\ Fairness

-----------------------------------------------------------------------------
\* One of each at a time: one dev server, started no more often than the breaker
\* allows; one process that builds a directory; one close of the daemon, and that
\* before the process ends.
OneAtATime == OneServer /\ BreakerHolds /\ BuildsAlone /\ HandsBackOnce

\* Nothing is skipped: no hook that is due, no line of the log, none of what a
\* command printed before it ended.
NothingIsSkipped == OnlyFailuresSkipHooks /\ NoHole /\ OutputIsWhole

\* Who waits comes back: a command that waits for the standup, a command in the
\* box whose input has ended, and a user who quits.
WhoWaitsComesBack == WaiterReturns /\ ExecReturns /\ QuitEnds
=============================================================================
