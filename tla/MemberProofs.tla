---------------------------- MODULE MemberProofs ----------------------------
(* What the processes of one machine promise, for any number of processes,   *)
(* commands, quits, lines and crashes.  Each component has an induction of   *)
(* its own; where it does not move, nothing of it changes.                   *)
EXTENDS MCMember, LogStreamProofs, FiniteSetTheorems, TLAPS

-----------------------------------------------------------------------------
(* Console: who may close the daemon.                                        *)

\* The leaver's lock tells who closes; the daemon that was registered is closed
\* by the first who leaves, and one that was not by the work itself.
ConsoleInv ==
  /\ ConsoleTypeOK
  /\ closes <= 1
  /\ \A c \in Command : cmds[c] = "closes" <=> mu = c
  /\ main = "closes" <=> mu = VerbItself
  /\ mu # Free => left /\ registered /\ closes = 0
  /\ registered => works \in {"runs", "ended"}
  /\ registered /\ ~left => closes = 0
  /\ registered /\ left /\ mu = Free => daemon = "down"
  /\ works \in {"starts", "has", "closes", "failed", "rejoins"} => closes = 0
  /\ main \in {"reads", "over"} => left /\ mu = Free

LEMMA ConsoleStep == ConsoleInv /\ [ConsoleNext]_consoleVars => ConsoleInv'
<1> SUFFICES ASSUME ConsoleInv, [ConsoleNext]_consoleVars PROVE ConsoleInv'
  OBVIOUS
<1> USE ConsoleAssumption DEF ConsoleInv, ConsoleTypeOK, Command, Free, VerbItself, Alive,
Heard
<1>1. CASE Stands  BY <1>1 DEF Stands
<1>2. CASE StartReturns  BY <1>2 DEF StartReturns
<1>3. CASE Registers
  <2>1. CASE left  BY <1>3, <2>1 DEF Registers
  <2>2. CASE ~left  BY <1>3, <2>2 DEF Registers
  <2> QED BY <2>1, <2>2
<1>4. CASE ClosesItself  BY <1>4 DEF ClosesItself
<1>5. CASE HostLoopEnds  BY <1>5 DEF HostLoopEnds
<1>6. CASE WaitForSignal  BY <1>6 DEF WaitForSignal
<1>7. CASE WorkFails  BY <1>7 DEF WorkFails
<1>8. CASE Relays  BY <1>8 DEF Relays
<1>9. CASE Forwards  BY <1>9 DEF Forwards
<1>10. CASE PressQuit  BY <1>10 DEF PressQuit
<1>11. CASE Confirms
  <2>1. PICK c \in Command : cmds' = [cmds EXCEPT ![c] = "waits"] /\ cmds[c] = "none"
    BY <1>11 DEF Confirms
  <2>2. /\ cmds' \in [Command -> {"none", "waits", "closes", "done"}]
        /\ \A d \in Command : cmds'[d] = "closes" <=> cmds[d] = "closes"
    BY <2>1
  <2>3. /\ UNCHANGED <<mode, terminal, works, daemon, closes, screen, mu, registered, left,
                        main, news, shown, nudge, signalled>>
        /\ asked' \in BOOLEAN
    BY <1>11 DEF Confirms
  <2> QED BY <2>2, <2>3
<1>12. ASSUME NEW c \in Command, Leave(c) PROVE ConsoleInv'  BY <1>12 DEF Leave
<1>13. ASSUME NEW c \in Command, DaemonCloses(c) PROVE ConsoleInv'  BY <1>13 DEF DaemonCloses
<1>14. ASSUME NEW c \in Command, Quits(c) PROVE ConsoleInv'  BY <1>14 DEF Quits
<1>15. CASE Signal  BY <1>15 DEF Signal
<1>16. CASE RunReturns  BY <1>16 DEF RunReturns
<1>17. CASE MainLeaves  BY <1>17 DEF MainLeaves
<1>18. CASE MainCloses  BY <1>18 DEF MainCloses
<1>19. CASE Answers  BY <1>19 DEF Answers
<1>20. CASE Ends  BY <1>20 DEF Ends
<1>21. CASE JoinsInstead
  <2>1. /\ cmds' \in [Command -> {"none", "waits", "closes", "done"}]
        /\ \A c \in Command : cmds'[c] # "closes" /\ mu' # c
        /\ mu' = Free /\ mu' # VerbItself /\ mu' \in Free .. VerbItself
    BY <1>21 DEF JoinsInstead
  <2>2. /\ mode' = "rejoin" /\ works' = "runs" /\ daemon' = "up" /\ main' = "draws"
        /\ registered' = TRUE /\ left' = FALSE /\ closes' = closes /\ closes = 0
        /\ screen' \in {"loops", "stuck", "down"} /\ asked' = FALSE
        /\ shown' = TRUE /\ news' = "none" /\ nudge' = "asked"
        /\ terminal' = terminal /\ signalled' = signalled
    BY <1>21 DEF JoinsInstead
  <2> QED BY <2>1, <2>2
<1>22. CASE UNCHANGED consoleVars  BY <1>22 DEF consoleVars
<1> QED
  BY <1>1, <1>2, <1>3, <1>4, <1>5, <1>6, <1>7, <1>8, <1>9, <1>10, <1>11, <1>12, <1>13, <1>14,
     <1>15, <1>16, <1>17, <1>18, <1>19, <1>20, <1>21, <1>22 DEF ConsoleNext

-----------------------------------------------------------------------------
(* BoxExec: what is behind an exit status.                                    *)

\* The frames of output under way: all of them, but for the last word.
Outputs == IF down # <<>> /\ down[Len(down)] # "output" THEN Len(down) - 1 ELSE Len(down)

\* What the command wrote is on the screen, under way or in the pipe while the
\* connection is up; the last word comes last, and an exit's after all output.
ExecInv ==
  /\ ExecTypeOK
  /\ \A i \in 1 .. Len(down) : down[i] # "output" => i = Len(down) /\ conn # "up"
  /\ printed + Outputs + pipe <= written
  /\ conn = "up" => printed + Len(down) + pipe = written
  /\ \A i \in 1 .. Len(down) :
       down[i] = "exit" => printed + Len(down) - 1 = written /\ child = "ended" /\ pipe = 0
  /\ result = "status" => printed = written /\ child = "ended"
  /\ clientRun = "runs" => result = "none"

\* The frames as they are read and written.
LEMMA FramesLemma ==
  ASSUME NEW S, NEW s \in Seq(S), NEW x \in S
  PROVE  /\ Append(s, x) \in Seq(S) /\ Len(Append(s, x)) = Len(s) + 1
         /\ Append(s, x)[Len(s) + 1] = x /\ \A i \in 1 .. Len(s) : Append(s, x)[i] = s[i]
         /\ s \o <<x>> = Append(s, x)
         /\ s # <<>> => /\ Head(s) = s[1] /\ Tail(s) \in Seq(S) /\ Len(Tail(s)) = Len(s) - 1
                       /\ Len(s) > 0 /\ \A i \in 1 .. Len(s) - 1 : Tail(s)[i] = s[i + 1]
         /\ Len(s) \in Nat /\ (s = <<>> <=> Len(s) = 0)
  OBVIOUS

\* Without a last word all frames are output.
LEMMA OutputsLemma ==
  ASSUME ExecInv
  PROVE  /\ Outputs \in Nat /\ Outputs <= Len(down) /\ Len(down) \in Nat
         /\ conn = "up" => Outputs = Len(down)
         /\ UNCHANGED down => Outputs' = Outputs
BY FramesLemma DEF ExecInv, ExecTypeOK, Outputs

\* What the client sends and the pump takes.
LEMMA UpLemma ==
  ASSUME NEW u \in Seq({"line", "eof"})
  PROVE  /\ u \o <<"eof">> \in Seq({"line", "eof"}) /\ u \o <<"line">> \in Seq({"line", "eof"})
         /\ u \o <<"line", "eof">> \in Seq({"line", "eof"})
         /\ u # <<>> => Tail(u) \in Seq({"line", "eof"})
OBVIOUS

LEMMA ExecStep == ExecInv /\ [ExecNext]_execVars => ExecInv'
<1> SUFFICES ASSUME ExecInv, [ExecNext]_execVars PROVE ExecInv'
  OBVIOUS
<1> USE ExecAssumption, OutputsLemma DEF ExecInv, ExecTypeOK
<1> DEFINE Word == {"output", "exit", "error"}
<1>1. CASE ReadsEnd
  <2>1. up' \in Seq({"line", "eof"})
    BY <1>1, UpLemma DEF ReadsEnd, Sends
  <2> QED BY <1>1, <2>1 DEF ReadsEnd
<1>2. CASE Starts
  <2>1. CASE child' = "runs" /\ UNCHANGED <<down, conn, waited>>
    BY <1>2, <2>1 DEF Starts
  <2>2. CASE waited' = TRUE /\ UNCHANGED <<child, down, conn>>
    BY <1>2, <2>2 DEF Starts
  <2>3. CASE conn = "up" /\ waited' = TRUE /\ child' = child /\ down' = Append(down, "error") /\ conn' = "closed"
    <3>1. /\ down' \in Seq(Word) /\ Len(down') = Len(down) + 1 /\ down'[Len(down) + 1] = "error"
          /\ \A i \in 1 .. Len(down) : down'[i] = down[i]
      BY <2>3, FramesLemma
    <3>2. Outputs' = Len(down)
      BY <3>1 DEF Outputs
    <3> QED BY <1>2, <2>3, <3>1, <3>2 DEF Starts
  <2> QED BY <1>2, <2>1, <2>2, <2>3 DEF Starts
<1>3. CASE PumpsLine
  <2>1. up' \in Seq({"line", "eof"})
    BY <1>3, UpLemma DEF PumpsLine
  <2> QED BY <1>3, <2>1 DEF PumpsLine
<1>4. CASE PumpsEnd  BY <1>4 DEF PumpsEnd
<1>5. CASE PumpLosesConn  BY <1>5 DEF PumpLosesConn
<1>6. CASE Exits  BY <1>6 DEF Exits
<1>7. CASE CopiesOutput
  <2>1. CASE conn = "up"
    <3>1. /\ down' = Append(down, "output") /\ pipe > 0 /\ pipe' = pipe - 1
          /\ UNCHANGED <<kind, typed, stdin, interrupted, reader, clientRun, result, printed, up,
                         conn, child, written, broken, pump, copier, waited, rm>>
      BY <1>7, <2>1 DEF CopiesOutput
    <3>2. /\ down' \in Seq(Word) /\ Len(down') = Len(down) + 1 /\ down'[Len(down) + 1] = "output"
          /\ \A i \in 1 .. Len(down) : down'[i] = down[i]
      BY <3>1, FramesLemma
    <3>3. Outputs' = Len(down) + 1
      BY <3>2 DEF Outputs
    <3>4. \A i \in 1 .. Len(down) : down[i] = "output"
      BY <2>1
    <3>5. \A i \in 1 .. Len(down') : i \in 1 .. Len(down) \/ i = Len(down) + 1
      BY <3>2
    <3>6. \A i \in 1 .. Len(down') : down'[i] = "output"
      BY <3>2, <3>4, <3>5
    <3>7. "output" # "exit"
      OBVIOUS
    <3>8. pipe' \in 0 .. MaxOutput /\ printed' + Len(down') + pipe' = written'
      <4>1. /\ printed \in Nat /\ Len(down) \in Nat /\ pipe \in 0 .. MaxOutput /\ MaxOutput \in Nat
            /\ printed + Len(down) + pipe = written
        BY <2>1
      <4>2. /\ printed' = printed /\ written' = written /\ pipe > 0 /\ pipe' = pipe - 1
            /\ Len(down') = Len(down) + 1
        BY <3>1, <3>2
      <4> QED BY ONLY <4>1, <4>2
    <3> QED BY <2>1, <3>1, <3>2, <3>3, <3>6, <3>7, <3>8
  <2>2. CASE conn # "up"
    BY <1>7, <2>2 DEF CopiesOutput
  <2> QED BY <2>1, <2>2
<1>8. CASE HolderWaits
  <2>1. CASE conn = "up"
    <3>0. down' = Append(down, "exit")
      BY <1>8, <2>1 DEF HolderWaits
    <3>1. /\ down' \in Seq(Word) /\ Len(down') = Len(down) + 1 /\ down'[Len(down) + 1] = "exit"
          /\ \A i \in 1 .. Len(down) : down'[i] = down[i]
      BY <3>0, FramesLemma
    <3>2. Outputs' = Len(down)
      BY <3>1 DEF Outputs
    <3> QED BY <1>8, <2>1, <3>1, <3>2 DEF HolderWaits, WaitReturns
  <2>2. CASE conn # "up"
    BY <1>8, <2>2 DEF HolderWaits
  <2> QED BY <2>1, <2>2
<1>9. CASE ReadsFrame
  <2>1. /\ down # <<>> /\ Head(down) = down[1] /\ Len(down) > 0 /\ down' \in Seq(Word)
        /\ Len(down') = Len(down) - 1 /\ \A i \in 1 .. Len(down') : down'[i] = down[i + 1]
    BY <1>9, FramesLemma DEF ReadsFrame
  <2>2. CASE Head(down) = "output"
    <3>1. Outputs' = Outputs - 1 /\ Outputs >= 1
      BY <2>1, <2>2 DEF Outputs
    <3>2. /\ printed' = printed + 1 /\ clientRun = "runs"
          /\ UNCHANGED <<kind, typed, stdin, interrupted, reader, clientRun, result, up, conn, child,
                         written, pipe, broken, pump, copier, waited, rm>>
      BY <1>9, <2>2 DEF ReadsFrame
    <3>3. \A i \in 1 .. Len(down') : i + 1 \in 1 .. Len(down) /\ down'[i] = down[i + 1]
      BY <2>1
    <3>4. \A i \in 1 .. Len(down') :
            down'[i] # "output" => i = Len(down') /\ conn' # "up"
      BY <2>1, <3>2, <3>3
    <3>5. ASSUME NEW i \in 1 .. Len(down'), down'[i] = "exit"
          PROVE  printed' + Len(down') - 1 = written' /\ child' = "ended" /\ pipe' = 0
      <4>1. i + 1 \in 1 .. Len(down) /\ down[i + 1] = "exit"
        BY <3>3, <3>5
      <4>2. printed + Len(down) - 1 = written /\ child = "ended" /\ pipe = 0
        BY <4>1
      <4>3. Len(down') = Len(down) - 1 /\ Len(down) \in Nat /\ printed \in Nat /\ written \in Nat
        BY <2>1
      <4>4. printed' = printed + 1 /\ written' = written /\ child' = child /\ pipe' = pipe
        BY <3>2
      <4> QED BY ONLY <4>2, <4>3, <4>4
    <3>6. printed' + Outputs' + pipe' <= written' /\ printed' \in 0 .. MaxOutput
      BY <3>1, <3>2
    <3>7. conn' = "up" => printed' + Len(down') + pipe' = written'
      <4>1. Len(down') = Len(down) - 1 /\ Len(down) \in Nat /\ printed \in Nat /\ pipe \in Nat
        BY <2>1
      <4>2. /\ printed' = printed + 1 /\ written' = written /\ conn' = conn /\ pipe' = pipe
            /\ conn = "up" => printed + Len(down) + pipe = written
        BY <3>2
      <4> QED BY ONLY <4>1, <4>2
    <3> QED BY <2>1, <3>2, <3>4, <3>5, <3>6, <3>7
  <2>3. CASE Head(down) # "output"
    <3>1. Len(down) = 1 /\ Outputs' = 0 /\ Outputs = 0
      BY <2>1, <2>3 DEF Outputs
    <3> QED BY <1>9, <2>1, <2>3, <3>1 DEF ReadsFrame
  <2> QED BY <2>2, <2>3
<1>10. CASE ReadsLoss  BY <1>10 DEF ReadsLoss
<1>11. CASE Returns  BY <1>11 DEF Returns
<1>12. CASE Types
  <2>1. up' \in Seq({"line", "eof"})
    BY <1>12, UpLemma DEF Types, Sends
  <2> QED BY <1>12, <2>1 DEF Types
<1>13. CASE CloseStdin  BY <1>13 DEF CloseStdin
<1>14. CASE Interrupt  BY <1>14 DEF Interrupt
<1>15. CASE Writes
  <2>1. CASE broken
    BY <1>15, <2>1 DEF Writes
  <2>2. CASE ~broken
    <3>1. /\ written' = written + 1 /\ pipe' = pipe + 1 /\ child = "runs" /\ written < MaxOutput
          /\ UNCHANGED <<kind, typed, stdin, interrupted, reader, clientRun, result, printed, up,
                         down, conn, child, broken, pump, copier, waited, rm>>
      BY <1>15, <2>2 DEF Writes
    <3> QED BY <3>1
  <2> QED BY <2>1, <2>2
<1>16. CASE Cut
  <2>1. Outputs' = 0 /\ down' \in Seq(Word) /\ up' \in Seq({"line", "eof"}) /\ Len(down') = 0
    BY <1>16 DEF Cut, Outputs
  <2> QED BY <1>16, <2>1 DEF Cut
<1>17. CASE RmSignals  BY <1>17 DEF RmSignals
<1>18. CASE RmDestroys
  <2>1. CASE UNCHANGED <<conn, up, down>>
    BY <1>18, <2>1 DEF RmDestroys
  <2>2. CASE conn = "up" /\ conn' = "cut" /\ up' = <<>> /\ down' = <<>>
    <3>1. Outputs' = 0 /\ down' \in Seq(Word) /\ up' \in Seq({"line", "eof"}) /\ Len(down') = 0
      BY <2>2 DEF Outputs
    <3> QED BY <1>18, <2>2, <3>1 DEF RmDestroys
  <2> QED BY <1>18, <2>1, <2>2 DEF RmDestroys
<1>19. CASE UNCHANGED execVars  BY <1>19 DEF execVars
<1> QED
  BY <1>1, <1>2, <1>3, <1>4, <1>5, <1>6, <1>7, <1>8, <1>9, <1>10, <1>11, <1>12, <1>13, <1>14,
     <1>15, <1>16, <1>17, <1>18, <1>19 DEF ExecNext, Runs

-----------------------------------------------------------------------------
(* Standup: who builds the directory, and what a readyAt promises.            *)

\* What whoever reads a readyAt relies on: session.json, and of a joiner the
\* whole tree.
Promise(p) == saved /\ (p \notin hosting => tree = "whole")

\* Who builds has the lock, and a mirror is cloned after the tree.
LockInv ==
  /\ \A p \in Pid : Building(p) => lock = p
  /\ mirror => tree = "whole"

\* A readyAt keeps its promise in the marker, in every copy of it, and for
\* whoever it let in.
PromiseInv ==
  /\ marker.ready => Promise(marker.pid)
  /\ \A p \in Pid : copy[p].ready => Promise(copy[p].pid)
  /\ \A t \in through : verb[t[1]] \in {"loads", "opened"} /\ Promise(t[2])

StandupInv == StandupTypeOK /\ LockInv /\ PromiseInv

LEMMA ProcTypes ==
  ASSUME StandupTypeOK, NEW p \in Pid, ProcStep(p)
  PROVE  StandupTypeOK'
<1> USE StandupAssumption DEF StandupTypeOK, ProcIs, Marker, NoMarker
<1>1. CASE Hosts(p)  BY <1>1 DEF Hosts
<1>2. CASE Joins(p)  BY <1>2 DEF Joins, Sweeps
<1>3. CASE Sweep(p)  BY <1>3 DEF Sweep, ClearLive
<1>4. CASE BeginStandup(p)  BY <1>4 DEF BeginStandup, TakesLock
<1>5. CASE StandupFails(p)  BY <1>5 DEF StandupFails, Releases, ClearLive
<1>6. CASE StartsCloning(p)  BY <1>6 DEF StartsCloning
<1>7. CASE Clones(p)  BY <1>7 DEF Clones
<1>8. CASE ServesWithoutTree(p)  BY <1>8 DEF ServesWithoutTree, Unlocked
<1>9. CASE Mirrors(p)  BY <1>9 DEF Mirrors
<1>10. CASE Saves(p)  BY <1>10 DEF Saves
<1>11. CASE Ready(p)  BY <1>11 DEF Ready, Unlocked, IsBuilt, HasTree
<1>12. CASE ReadsMarker(p)  BY <1>12 DEF ReadsMarker
<1>13. CASE WritesMarker(p)  BY <1>13 DEF WritesMarker
<1>14. CASE Closes(p)
  <2>1. phaseOf' = [phaseOf EXCEPT ![p] = "over"] /\ copy' = [copy EXCEPT ![p] = NoMarker]
    BY <1>14 DEF Closes
  <2>2. marker' \in Marker
    <3>1. NoMarker \in Marker
      OBVIOUS
    <3>2. CASE phaseOf[p] = "up"
      BY <1>14, <3>1, <3>2 DEF Closes, ClearLive
    <3>3. CASE phaseOf[p] # "up"
      BY <1>14, <3>3 DEF Closes
    <3> QED BY <3>2, <3>3
  <2>3. UNCHANGED <<hosting, lock, tree, mirror, saved, sweeping, verb, through, crashes>>
    BY <1>14 DEF Closes
  <2>4. phaseOf' \in [Pid -> {"new", "asks", "builds", "cloning", "up", "failed", "over", "dead"}]
    BY <2>1
  <2>5. copy' \in [Pid -> Marker]
    BY <2>1
  <2> QED BY <2>2, <2>3, <2>4, <2>5
<1>15. CASE Crashes(p)  BY <1>15 DEF Crashes, Unlocked
<1> QED
  BY <1>1, <1>2, <1>3, <1>4, <1>5, <1>6, <1>7, <1>8, <1>9, <1>10, <1>11, <1>12,
     <1>13, <1>14, <1>15 DEF ProcStep

LEMMA ProcLocks ==
  ASSUME StandupTypeOK, LockInv, NEW p \in Pid, ProcStep(p)
  PROVE  LockInv'
<1> USE StandupAssumption DEF StandupTypeOK, LockInv, Building, ProcIs
<1>1. CASE Hosts(p)  BY <1>1 DEF Hosts
<1>2. CASE Joins(p)  BY <1>2 DEF Joins, Sweeps
<1>3. CASE Sweep(p)  BY <1>3 DEF Sweep, ClearLive
<1>4. CASE BeginStandup(p)  BY <1>4 DEF BeginStandup, TakesLock
<1>5. CASE StandupFails(p)  BY <1>5 DEF StandupFails, Releases, ClearLive
<1>6. CASE StartsCloning(p)  BY <1>6 DEF StartsCloning
<1>7. CASE Clones(p)  BY <1>7 DEF Clones
<1>8. CASE ServesWithoutTree(p)  BY <1>8 DEF ServesWithoutTree, Unlocked
<1>9. CASE Mirrors(p)  BY <1>9 DEF Mirrors
<1>10. CASE Saves(p)  BY <1>10 DEF Saves
<1>11. CASE Ready(p)  BY <1>11 DEF Ready, Unlocked, IsBuilt, HasTree
<1>12. CASE ReadsMarker(p)  BY <1>12 DEF ReadsMarker
<1>13. CASE WritesMarker(p)  BY <1>13 DEF WritesMarker
<1>14. CASE Closes(p)  BY <1>14 DEF Closes, ClearLive
<1>15. CASE Crashes(p)  BY <1>15 DEF Crashes, Unlocked
<1> QED
  BY <1>1, <1>2, <1>3, <1>4, <1>5, <1>6, <1>7, <1>8, <1>9, <1>10, <1>11, <1>12,
     <1>13, <1>14, <1>15 DEF ProcStep

LEMMA ProcPromises ==
  ASSUME StandupInv, NEW p \in Pid, ProcStep(p)
  PROVE  PromiseInv'
<1> USE StandupAssumption DEF StandupInv, StandupTypeOK, LockInv, PromiseInv, Promise,
NoMarker, Marker
<1>1. CASE Hosts(p)  BY <1>1 DEF Hosts
<1>2. CASE Joins(p)  BY <1>2 DEF Joins, Sweeps
<1>3. CASE Sweep(p)  BY <1>3 DEF Sweep, ClearLive
<1>4. CASE BeginStandup(p)  BY <1>4 DEF BeginStandup, TakesLock
<1>5. CASE StandupFails(p)  BY <1>5 DEF StandupFails, Releases, ClearLive
<1>6. CASE StartsCloning(p)  BY <1>6 DEF StartsCloning
<1>7. CASE Clones(p)  BY <1>7 DEF Clones
<1>8. CASE ServesWithoutTree(p)  BY <1>8 DEF ServesWithoutTree, Unlocked
<1>9. CASE Mirrors(p)  BY <1>9 DEF Mirrors
<1>10. CASE Saves(p)  BY <1>10 DEF Saves
<1>11. CASE Ready(p)  BY <1>11 DEF Ready, Unlocked, IsBuilt, HasTree
<1>12. CASE ReadsMarker(p)  BY <1>12 DEF ReadsMarker
<1>13. CASE WritesMarker(p)  BY <1>13 DEF WritesMarker
<1>14. CASE Closes(p)  BY <1>14 DEF Closes, ClearLive
<1>15. CASE Crashes(p)  BY <1>15 DEF Crashes, Unlocked
<1> QED
  BY <1>1, <1>2, <1>3, <1>4, <1>5, <1>6, <1>7, <1>8, <1>9, <1>10, <1>11, <1>12,
     <1>13, <1>14, <1>15 DEF ProcStep

LEMMA VerbTypes ==
  ASSUME StandupTypeOK, NEW v \in Verb, VerbStep(v)
  PROVE  StandupTypeOK'
<1> USE StandupAssumption DEF StandupTypeOK, VerbIs, Marker, NoMarker
<1>1. CASE Enters(v)  BY <1>1 DEF Enters
<1>2. CASE Picks(v)  BY <1>2 DEF Picks, Sweeps
<1>3. CASE AsksForSite(v)  BY <1>3 DEF AsksForSite, Sweeps
<1>4. CASE AwaitsWorkTree(v)  BY <1>4 DEF AwaitsWorkTree, Sweeps, Through, ReadyHere,
                                 StandingUp, LiveHere
<1>5. CASE Sweep(v)  BY <1>5 DEF Sweep, ClearLive
<1>6. CASE LooksAgain(v)  BY <1>6 DEF LooksAgain, Sweeps, Through, ReadyHere, LiveHere
<1>7. CASE WakesUp(v)  BY <1>7 DEF WakesUp
<1>8. CASE SaysHowItEnded(v)  BY <1>8 DEF SaysHowItEnded, Sweeps, Through, ReadyHere, LiveHere
<1>9. CASE Loads(v)  BY <1>9 DEF Loads
<1>10. CASE Interrupted(v)  BY <1>10 DEF Interrupted
<1> QED
  BY <1>1, <1>2, <1>3, <1>4, <1>5, <1>6, <1>7, <1>8, <1>9, <1>10 DEF VerbStep

LEMMA VerbKeeps ==
  ASSUME StandupInv, NEW v \in Verb, VerbStep(v)
  PROVE  LockInv' /\ PromiseInv'
<1> USE StandupAssumption DEF StandupInv, StandupTypeOK, LockInv, PromiseInv, Promise,
NoMarker, Building, VerbIs
<1>1. CASE Enters(v)  BY <1>1 DEF Enters
<1>2. CASE Picks(v)  BY <1>2 DEF Picks, Sweeps
<1>3. CASE AsksForSite(v)  BY <1>3 DEF AsksForSite, Sweeps
<1>4. CASE AwaitsWorkTree(v)  BY <1>4 DEF AwaitsWorkTree, Sweeps, Through, ReadyHere,
                                 StandingUp, LiveHere
<1>5. CASE Sweep(v)  BY <1>5 DEF Sweep, ClearLive
<1>6. CASE LooksAgain(v)  BY <1>6 DEF LooksAgain, Sweeps, Through, ReadyHere, LiveHere
<1>7. CASE WakesUp(v)  BY <1>7 DEF WakesUp
<1>8. CASE SaysHowItEnded(v)  BY <1>8 DEF SaysHowItEnded, Sweeps, Through, ReadyHere, LiveHere
<1>9. CASE Loads(v)  BY <1>9 DEF Loads
<1>10. CASE Interrupted(v)  BY <1>10 DEF Interrupted
<1> QED
  BY <1>1, <1>2, <1>3, <1>4, <1>5, <1>6, <1>7, <1>8, <1>9, <1>10 DEF VerbStep

LEMMA StandupStep == StandupInv /\ [StandupNext]_standupVars => StandupInv'
<1>1. ASSUME StandupInv, UNCHANGED standupVars PROVE StandupInv'
  BY <1>1 DEF StandupInv, StandupTypeOK, LockInv, PromiseInv, Building, Promise, standupVars
<1> QED
  BY <1>1, ProcTypes, ProcLocks, ProcPromises, VerbTypes, VerbKeeps DEF StandupNext,
     StandupInv

-----------------------------------------------------------------------------
(* DevServer: one server, the breaker, and the hooks.                         *)

\* A process that is started is one that was not there.
LEMMA FreshLemma == Fresh # {} => NewRun \in Run /\ proc[NewRun] = "none"
BY DEF Fresh, NewRun

\* What starting and stopping do to the types; a fault is counted.
LEMMA DevFaultLemma ==
  ASSUME DevTypeOK, NEW k, DevFault(k)
  PROVE  devSpent' \in 0 .. MaxDevFaults
BY DevAssumption DEF DevTypeOK, DevFault

LEMMA StartTypes ==
  ASSUME DevTypeOK, Start
  PROVE  /\ proc' \in [Run -> {"none", "up", "killed", "dead"}] /\ mine' \subseteq Run
         /\ cmd' \in {0} \cup Run /\ running' \in BOOLEAN /\ stopping' \in BOOLEAN
         /\ span' \in {"never", "open", "short", "long"} /\ devSpent' \in 0 .. MaxDevFaults
<1>1. CASE Started
  BY <1>1, FreshLemma DEF Started, DevTypeOK
<1>2. CASE StartFailed
  BY <1>2, DevFaultLemma DEF StartFailed, DevTypeOK
<1> QED BY <1>1, <1>2 DEF Start

LEMMA StopTypes ==
  ASSUME DevTypeOK, Stop
  PROVE  stopping' = TRUE /\ proc' \in [Run -> {"none", "up", "killed", "dead"}]
BY DEF Stop, DevTypeOK

LEMMA RestartTypes ==
  ASSUME DevTypeOK, ~gaveUp => shortExits <= MaxShortExits, Restart
  PROVE  /\ proc' \in [Run -> {"none", "up", "killed", "dead"}] /\ mine' \subseteq Run
         /\ cmd' \in {0} \cup Run /\ running' \in BOOLEAN /\ stopping' \in BOOLEAN
         /\ span' \in {"never", "open", "short", "long"} /\ devSpent' \in 0 .. MaxDevFaults
         /\ shortExits' \in 0 .. MaxShortExits + 1 /\ gaveUp' \in BOOLEAN
         /\ ~gaveUp' => shortExits' <= MaxShortExits
<1> DEFINE count == IF span = "short" THEN shortExits + 1 ELSE 0
<1>1. CASE gaveUp \/ span \in {"never", "open"}
  BY <1>1 DEF Restart, DevTypeOK, supervisor
<1>2. CASE ~(gaveUp \/ span \in {"never", "open"}) /\ Trips(count)
  <2>1. /\ shortExits' = count /\ gaveUp' = TRUE
        /\ UNCHANGED <<cmd, running, stopping, span, proc, mine, devSpent>>
    BY <1>2 DEF Restart
  <2>2. count \in 0 .. MaxShortExits + 1
    BY <1>2, DevAssumption DEF DevTypeOK
  <2> QED BY <2>1, <2>2 DEF DevTypeOK
<1>3. CASE ~(gaveUp \/ span \in {"never", "open"}) /\ ~Trips(count)
  <2>1. shortExits' = count /\ gaveUp' = FALSE /\ Start
    BY <1>3 DEF Restart
  <2>2. count \in 0 .. MaxShortExits
    BY <1>3, DevAssumption DEF DevTypeOK, Trips
  <2> HIDE DEF count
  <2>3. shortExits' \in 0 .. MaxShortExits + 1 /\ shortExits' <= MaxShortExits
    BY <2>1, <2>2, DevAssumption
  <2>4. gaveUp' \in BOOLEAN
    BY <2>1
  <2> QED BY <2>1, <2>3, <2>4, StartTypes
<1> QED BY <1>1, <1>2, <1>3

LEMMA DevTypes ==
  ASSUME DevTypeOK, ~gaveUp => shortExits <= MaxShortExits, DevNext
  PROVE  DevTypeOK' /\ (~gaveUp => shortExits <= MaxShortExits)'
<1>a. \A k : DevFault(k) => devSpent' \in 0 .. MaxDevFaults
  BY DevFaultLemma
<1>b. Start => /\ proc' \in [Run -> {"none", "up", "killed", "dead"}] /\ mine' \subseteq Run
               /\ cmd' \in {0} \cup Run /\ running' \in BOOLEAN /\ stopping' \in BOOLEAN
               /\ span' \in {"never", "open", "short", "long"}
               /\ devSpent' \in 0 .. MaxDevFaults
  BY StartTypes
<1>c. Stop => stopping' = TRUE /\ proc' \in [Run -> {"none", "up", "killed", "dead"}]
  BY StopTypes
<1> USE DevAssumption, <1>a DEF DevTypeOK, supervisor, offer, loop, work, history
<1>1. ASSUME NEW p \in Run, Listen(p) PROVE DevTypeOK' /\ (~gaveUp => shortExits <= MaxShortExits)'  BY <1>1 DEF Listen
<1>2. ASSUME NEW p \in Run, Exit(p) PROVE DevTypeOK' /\ (~gaveUp => shortExits <= MaxShortExits)'  BY <1>2 DEF Exit
<1>3. ASSUME NEW p \in Run, Reap(p) PROVE DevTypeOK' /\ (~gaveUp => shortExits <= MaxShortExits)'
  <2>1. UNCHANGED <<driver, stopping, shortExits, gaveUp, port, serving, published, announced,
                  step, known, todo, closed, landed, declared, owed, landings, excused,
                  inARow, revived, devSpent>>
    BY <1>3 DEF Reap
  <2>2. running' \in BOOLEAN
    BY <1>3 DEF Reap
  <2>3. span' \in {"never", "open", "short", "long"}
    BY <1>3 DEF Reap
  <2>4. cmd' \in {0} \cup Run
    BY <1>3 DEF Reap
  <2>5. crossed' \in BOOLEAN
    BY <1>3 DEF Reap
  <2>6. proc' \in [Run -> {"none", "up", "killed", "dead"}]
    BY <1>3 DEF Reap
  <2>7. mine' \in SUBSET Run
    BY <1>3 DEF Reap
  <2>8. quick' \in SUBSET Run
    BY <1>3 DEF Reap
  <2> QED BY <2>1, <2>2, <2>3, <2>4, <2>5, <2>6, <2>7, <2>8
<1>4. ASSUME NEW c \in Change, Land(c) PROVE DevTypeOK' /\ (~gaveUp => shortExits <= MaxShortExits)'  BY <1>4 DEF Land, Change, Hook
<1>5. CASE TickBegins
  <2>1. UNCHANGED <<driver, cmd, running, stopping, span, shortExits, gaveUp, proc, mine,
  port,
                  serving, published, announced, todo, closed, landed, declared, owed,
                  landings, excused, quick, inARow, crossed, revived>>
    BY <1>5 DEF TickBegins
  <2>2. step' \in {"select", "sync", "adopt", "hooks", "stop", "start", "alive", "restart", "publish"}
    BY <1>5 DEF TickBegins
  <2>3. known' \in BOOLEAN
    BY <1>5 DEF TickBegins
  <2>4. devSpent' \in 0 .. MaxDevFaults
    BY <1>5 DEF TickBegins
  <2> QED BY <2>1, <2>2, <2>3, <2>4
<1>6. CASE SyncWork  BY <1>6 DEF SyncWork
<1>7. CASE Adopt
  <2>1. UNCHANGED <<driver, shortExits, gaveUp, port, known, todo, closed, landed, owed,
                  landings, excused, quick, inARow, crossed, revived>>
    BY <1>7 DEF Adopt
  <2>2. step' \in {"select", "sync", "adopt", "hooks", "stop", "start", "alive", "restart", "publish"}
    BY <1>7 DEF Adopt
  <2>3. declared' \in BOOLEAN
    BY <1>7 DEF Adopt
  <2>4. serving' \in BOOLEAN
    BY <1>7 DEF Adopt
  <2>5. published' \in BOOLEAN
    BY <1>7, <1>b DEF Adopt
  <2>6. announced' \in BOOLEAN
    BY <1>7 DEF Adopt, Announce
  <2>7. proc' \in [Run -> {"none", "up", "killed", "dead"}]
    BY <1>7, <1>b DEF Adopt
  <2>8. mine' \in SUBSET Run
    BY <1>7, <1>b DEF Adopt
  <2>9. cmd' \in {0} \cup Run
    BY <1>7, <1>b DEF Adopt
  <2>10. running' \in BOOLEAN
    BY <1>7, <1>b DEF Adopt
  <2>11. stopping' \in BOOLEAN
    BY <1>7, <1>b DEF Adopt
  <2>12. span' \in {"never", "open", "short", "long"}
    BY <1>7, <1>b DEF Adopt
  <2>13. devSpent' \in 0 .. MaxDevFaults
    BY <1>7, <1>b DEF Adopt
  <2> QED BY <2>1, <2>2, <2>3, <2>4, <2>5, <2>6, <2>7, <2>8, <2>9, <2>10, <2>11, <2>12, <2>13
<1>8. CASE RunHooks
  <2>1. UNCHANGED <<driver, cmd, running, stopping, span, shortExits, gaveUp, proc, mine,
  port,
                  serving, published, known, todo, closed, landed, declared, landings, quick,
                  inARow, crossed, revived>>
    BY <1>8 DEF RunHooks
  <2>2. owed' \in SUBSET Hook
    BY <1>8 DEF RunHooks
  <2>3. step' \in {"select", "sync", "adopt", "hooks", "stop", "start", "alive", "restart", "publish"}
    BY <1>8 DEF RunHooks
  <2>4. announced' \in BOOLEAN
    BY <1>8 DEF RunHooks, Announce
  <2>5. excused' \in SUBSET Hook
    BY <1>8 DEF RunHooks, Asked
  <2>6. devSpent' \in 0 .. MaxDevFaults
    BY <1>8 DEF RunHooks
  <2> QED BY <2>1, <2>2, <2>3, <2>4, <2>5, <2>6
<1>9. CASE ReloadStops  BY <1>9, <1>c DEF ReloadStops
<1>10. CASE ReloadStarts
  <2>1. UNCHANGED <<driver, shortExits, gaveUp, port, serving, published, known, todo, closed,
                  landed, declared, owed, landings, excused, quick, inARow, crossed, revived>>
    BY <1>10 DEF ReloadStarts
  <2>2. step' \in {"select", "sync", "adopt", "hooks", "stop", "start", "alive", "restart", "publish"}
    BY <1>10 DEF ReloadStarts
  <2>3. announced' \in BOOLEAN
    BY <1>10 DEF ReloadStarts, Announce
  <2>4. proc' \in [Run -> {"none", "up", "killed", "dead"}]
    BY <1>10, <1>b DEF ReloadStarts
  <2>5. mine' \in SUBSET Run
    BY <1>10, <1>b DEF ReloadStarts
  <2>6. cmd' \in {0} \cup Run
    BY <1>10, <1>b DEF ReloadStarts
  <2>7. running' \in BOOLEAN
    BY <1>10, <1>b DEF ReloadStarts
  <2>8. stopping' \in BOOLEAN
    BY <1>10, <1>b DEF ReloadStarts
  <2>9. span' \in {"never", "open", "short", "long"}
    BY <1>10, <1>b DEF ReloadStarts
  <2>10. devSpent' \in 0 .. MaxDevFaults
    BY <1>10, <1>b DEF ReloadStarts
  <2> QED BY <2>1, <2>2, <2>3, <2>4, <2>5, <2>6, <2>7, <2>8, <2>9, <2>10
<1>11. CASE Look
  <2>1. UNCHANGED <<driver, cmd, running, stopping, span, proc, mine, port, serving,
  published,
                  known, closed, landed, declared, owed, landings, excused, quick, crossed,
                  revived, devSpent>>
    BY <1>11 DEF Look
  <2>2. shortExits' \in 0 .. MaxShortExits + 1
    BY <1>11 DEF Look
  <2>3. gaveUp' \in BOOLEAN
    BY <1>11 DEF Look
  <2>4. inARow' \in Nat
    BY <1>11 DEF Look
  <2>5. announced' \in BOOLEAN
    BY <1>11 DEF Look, Announce
  <2>6. todo' \in SUBSET Change
    BY <1>11 DEF Look
  <2>7. step' \in {"select", "sync", "adopt", "hooks", "stop", "start", "alive", "restart", "publish"}
    BY <1>11 DEF Look
  <2>8. ~gaveUp' => shortExits' <= MaxShortExits
    BY <1>11 DEF Look
  <2> QED BY <2>1, <2>2, <2>3, <2>4, <2>5, <2>6, <2>7, <2>8
<1>12. CASE StartDev
  <2>1. UNCHANGED <<driver, port, serving, published, announced, known, todo, closed, landed,
                  declared, owed, landings, excused, quick, crossed, revived>>
    BY <1>12 DEF StartDev
  <2>2. proc' \in [Run -> {"none", "up", "killed", "dead"}]
    BY <1>12, FreshLemma DEF StartDev
  <2>3. mine' \in SUBSET Run
    BY <1>12, FreshLemma DEF StartDev
  <2>4. cmd' \in {0} \cup Run
    BY <1>12, FreshLemma DEF StartDev
  <2>5. running' \in BOOLEAN
    BY <1>12 DEF StartDev
  <2>6. stopping' \in BOOLEAN
    BY <1>12 DEF StartDev
  <2>7. span' \in {"never", "open", "short", "long"}
    BY <1>12 DEF StartDev
  <2>8. shortExits' \in 0 .. MaxShortExits + 1
    BY <1>12 DEF StartDev
  <2>9. gaveUp' \in BOOLEAN
    BY <1>12 DEF StartDev
  <2>10. inARow' \in Nat
    BY <1>12 DEF StartDev
  <2>11. step' \in {"select", "sync", "adopt", "hooks", "stop", "start", "alive", "restart", "publish"}
    BY <1>12 DEF StartDev
  <2>12. devSpent' \in 0 .. MaxDevFaults
    BY <1>12 DEF StartDev
  <2>13. ~gaveUp' => shortExits' <= MaxShortExits
    BY <1>12 DEF StartDev
  <2> QED
    BY <2>1, <2>2, <2>3, <2>4, <2>5, <2>6, <2>7, <2>8, <2>9, <2>10, <2>11, <2>12, <2>13
<1>13. CASE PublishDev
  <2>1. UNCHANGED <<driver, cmd, running, span, shortExits, gaveUp, mine, port, known, todo,
                  closed, landed, declared, owed, landings, excused, quick, inARow, crossed>>
    BY <1>13 DEF PublishDev
  <2>2. step' \in {"select", "sync", "adopt", "hooks", "stop", "start", "alive", "restart", "publish"}
    BY <1>13 DEF PublishDev
  <2>3. serving' \in BOOLEAN
    BY <1>13 DEF PublishDev
  <2>4. published' \in BOOLEAN
    BY <1>13 DEF PublishDev
  <2>5. announced' \in BOOLEAN
    BY <1>13 DEF PublishDev, Announce
  <2>6. revived' \in BOOLEAN
    BY <1>13 DEF PublishDev
  <2>7. stopping' \in BOOLEAN
    BY <1>13, <1>c DEF PublishDev
  <2>8. proc' \in [Run -> {"none", "up", "killed", "dead"}]
    BY <1>13, <1>c DEF PublishDev
  <2>9. devSpent' \in 0 .. MaxDevFaults
    BY <1>13 DEF PublishDev
  <2> QED BY <2>1, <2>2, <2>3, <2>4, <2>5, <2>6, <2>7, <2>8, <2>9
<1>14. CASE Keep  BY <1>14 DEF Keep, Announce
<1>15. CASE RestartIt  BY <1>15, RestartTypes DEF RestartIt, Announce
<1>16. CASE StandDown
  <2>1. UNCHANGED <<driver, cmd, running, span, shortExits, gaveUp, mine, port, announced,
                  step, known, todo, closed, landed, declared, owed, landings, excused,
                  quick, inARow, crossed, revived, devSpent>>
    BY <1>16 DEF StandDown
  <2>2. serving' \in BOOLEAN
    BY <1>16 DEF StandDown
  <2>3. published' \in BOOLEAN
    BY <1>16 DEF StandDown
  <2>4. stopping' \in BOOLEAN
    BY <1>16, <1>c DEF StandDown, HandBack
  <2>5. proc' \in [Run -> {"none", "up", "killed", "dead"}]
    BY <1>16, <1>c DEF StandDown, HandBack
  <2> QED BY <2>1, <2>2, <2>3, <2>4, <2>5
<1>17. CASE Close
  <2>1. UNCHANGED <<driver, cmd, running, span, shortExits, gaveUp, mine, port, announced,
                  step, known, todo, landed, declared, owed, landings, excused, quick,
                  inARow, crossed, revived, devSpent>>
    BY <1>17 DEF Close
  <2>2. closed' \in BOOLEAN
    BY <1>17 DEF Close
  <2>3. serving' \in BOOLEAN
    BY <1>17 DEF Close
  <2>4. published' \in BOOLEAN
    BY <1>17 DEF Close
  <2>5. stopping' \in BOOLEAN
    BY <1>17, <1>c DEF Close, HandBack
  <2>6. proc' \in [Run -> {"none", "up", "killed", "dead"}]
    BY <1>17, <1>c DEF Close, HandBack
  <2> QED BY <2>1, <2>2, <2>3, <2>4, <2>5, <2>6
<1> QED
  BY <1>1, <1>2, <1>3, <1>4, <1>5, <1>6, <1>7, <1>8, <1>9, <1>10, <1>11, <1>12,
     <1>13, <1>14, <1>15, <1>16, <1>17 DEF DevNext, Ticking, Keeping

\* Where the loop is, what the driver has, and what a Close that came meanwhile
\* leaves behind.
LoopInv ==
  /\ revived => closed
  /\ driver = "host" => ~closed /\ (serving <=> declared) /\ step # "publish"
  /\ driver = "daemon" => declared /\ step \in {"select", "restart", "publish"}
  /\ step = "publish" => ~serving
  /\ ~declared => span = "never" /\ ~gaveUp /\ mine = {}
  /\ step = "restart" => declared
  /\ driver = "daemon" /\ step = "restart" /\ ~serving => closed

LEMMA LoopStep ==
  ASSUME DevTypeOK, LoopInv, DevNext
  PROVE  LoopInv'
<1> USE DEF LoopInv, supervisor, offer, loop, work, history
<1>1. ASSUME NEW p \in Run, Listen(p) PROVE LoopInv'  BY <1>1 DEF Listen
<1>2. ASSUME NEW p \in Run, Exit(p) PROVE LoopInv'  BY <1>2 DEF Exit
<1>3. ASSUME NEW p \in Run, Reap(p) PROVE LoopInv'  BY <1>3 DEF Reap
<1>4. ASSUME NEW c \in Change, Land(c) PROVE LoopInv'  BY <1>4 DEF Land
<1>5. CASE TickBegins  BY <1>5 DEF TickBegins
<1>6. CASE SyncWork  BY <1>6 DEF SyncWork
<1>7. CASE Adopt  BY <1>7 DEF Adopt
<1>8. CASE RunHooks  BY <1>8 DEF RunHooks
<1>9. CASE ReloadStops  BY <1>9 DEF ReloadStops
<1>10. CASE ReloadStarts  BY <1>10 DEF ReloadStarts
<1>11. CASE Look  BY <1>11 DEF Look, Asks, NeedsRestart
<1>12. CASE StartDev  BY <1>12 DEF StartDev
<1>13. CASE PublishDev  BY <1>13 DEF PublishDev
<1>14. CASE Keep  BY <1>14 DEF Keep
<1>15. CASE RestartIt
  <2>1. step' = "select" /\ step = "restart" /\ UNCHANGED <<driver, serving, closed, declared>>
    BY <1>15 DEF RestartIt
  <2>2. revived' = (revived \/ (~serving /\ running'))
    BY <1>15 DEF RestartIt
  <2>3. revived' => closed
    BY <2>1, <2>2 DEF DevTypeOK
  <2> QED BY <2>1, <2>3
<1>16. CASE StandDown  BY <1>16 DEF StandDown
<1>17. CASE Close  BY <1>17 DEF Close
<1> QED
  BY <1>1, <1>2, <1>3, <1>4, <1>5, <1>6, <1>7, <1>8, <1>9, <1>10, <1>11, <1>12, <1>13, <1>14,
     <1>15, <1>16, <1>17 DEF DevNext, Ticking, Keeping

NoneUp == \A p \in Run : proc[p] # "up"

\* Unless a late reap crossed, the process that is up is the Supervisor's, which
\* knows that it runs; and nothing is up of a service that was handed back, nor
\* between the two halves of a Reload.
ServerInv ==
  /\ ~crossed =>
       \A p \in Run : proc[p] = "up" => p = cmd /\ running /\ span = "open" /\ declared
  /\ ~crossed /\ ~revived /\ ~serving /\ step # "publish" => NoneUp
  /\ ~crossed /\ step = "start" => NoneUp

\* A start brings its own process up, or none.
LEMMA StartUps ==
  ASSUME DevTypeOK, Start, NoneUp
  PROVE  /\ \A p \in Run : proc'[p] = "up" => p = cmd' /\ running' /\ span' = "open"
         /\ span' = "open" \/ (span' = "short" /\ NoneUp')
<1>1. CASE Started
  BY <1>1, FreshLemma DEF Started, DevTypeOK, NoneUp
<1>2. CASE StartFailed
  BY <1>2 DEF StartFailed, NoneUp
<1> QED BY <1>1, <1>2 DEF Start

LEMMA StopUps ==
  ASSUME DevTypeOK, Stop, \A p \in Run : proc[p] = "up" => p = cmd
  PROVE  NoneUp'
BY DEF Stop, NoneUp, DevTypeOK

LEMMA ServerStep ==
  ASSUME DevTypeOK, LoopInv, ServerInv, DevNext
  PROVE  ServerInv'
<1> USE DEF ServerInv
<1>1. ASSUME NEW p \in Run, Listen(p) PROVE ServerInv'
  BY <1>1 DEF Listen, NoneUp, supervisor, offer, loop, work, history
<1>2. ASSUME NEW p \in Run, Exit(p) PROVE ServerInv'
  <2>1. \A q \in Run : proc'[q] = "up" => proc[q] = "up"
    BY <1>2 DEF Exit, DevTypeOK
  <2> QED BY <1>2, <2>1 DEF Exit, NoneUp, supervisor, offer, loop, work
<1>3. ASSUME NEW p \in Run, Reap(p) PROVE ServerInv'
  <2>1. \A q \in Run : proc'[q] = "up" => proc[q] = "up" /\ q # p
    BY <1>3 DEF Reap, DevTypeOK
  <2>2. UNCHANGED <<serving, step, declared, revived>>
    BY <1>3 DEF Reap, offer, loop, work
  <2>3. CASE p \in mine /\ cmd = p
    <3>1. ~crossed' => NoneUp'
      BY <1>3, <2>1, <2>3 DEF Reap, NoneUp
    <3> QED BY <2>2, <3>1 DEF NoneUp
  <2>4. CASE p \in mine /\ cmd # p
    BY <1>3, <2>4 DEF Reap
  <2>5. CASE p \notin mine
    <3>1. UNCHANGED <<running, span, cmd, crossed>>
      BY <1>3, <2>5 DEF Reap
    <3> QED BY <2>1, <2>2, <3>1 DEF NoneUp
  <2> QED BY <2>3, <2>4, <2>5
<1>4. ASSUME NEW c \in Change, Land(c) PROVE ServerInv'
  BY <1>4 DEF Land, NoneUp, supervisor, offer, loop, history
<1>5. CASE TickBegins
  BY <1>5 DEF TickBegins, NoneUp, supervisor, offer, work, history
<1>6. CASE SyncWork
  BY <1>6 DEF SyncWork, NoneUp, supervisor, offer
<1>7. CASE Adopt
  <2>1. step' = "hooks" /\ UNCHANGED <<crossed, revived>>
    BY <1>7 DEF Adopt, history
  <2>2. CASE ~declared /\ declared' = TRUE /\ serving' = TRUE /\ Start
    <3>1. ~crossed => NoneUp
      BY <2>2 DEF NoneUp
    <3> QED BY <2>1, <2>2, <3>1, StartUps
  <2>3. CASE UNCHANGED <<declared, offer, cmd, running, stopping, span, proc, mine, devSpent>>
    BY <1>7, <2>1, <2>3 DEF NoneUp, offer, Adopt, LoopInv
  <2> QED BY <1>7, <2>2, <2>3 DEF Adopt
<1>8. CASE RunHooks
  BY <1>8 DEF RunHooks, NoneUp, supervisor
<1>9. CASE ReloadStops
  <2>1. /\ step' = "start" /\ UNCHANGED <<crossed, revived, serving, cmd, running, span, declared>>
    BY <1>9 DEF ReloadStops, offer, work, history
  <2>2. ~crossed => NoneUp'
    BY <1>9, StopUps DEF ReloadStops
  <2> QED BY <2>1, <2>2 DEF NoneUp
<1>10. CASE ReloadStarts
  <2>1. step = "start" /\ step' = "alive" /\ UNCHANGED <<crossed, revived, serving, declared, driver>>
    BY <1>10 DEF ReloadStarts, work, history
  <2>2. CASE declared
    <3>1. Start /\ serving'
      BY <1>10, <2>1, <2>2 DEF ReloadStarts, LoopInv, DevTypeOK
    <3> QED BY <2>1, <2>2, <3>1, StartUps
  <2>3. CASE ~declared
    BY <1>10, <2>1, <2>3 DEF ReloadStarts, NoneUp
  <2> QED BY <2>2, <2>3
<1>11. CASE Look
  BY <1>11 DEF Look, NoneUp, work
<1>12. CASE StartDev
  <2>1. UNCHANGED <<crossed, revived, serving, declared>> /\ step = "select" /\ ~serving /\ ~closed /\ driver = "daemon"
    BY <1>12 DEF StartDev, offer, work
  <2>2. ~crossed => NoneUp
    BY <2>1 DEF LoopInv
  <2>3. CASE /\ Fresh # {} /\ proc' = [proc EXCEPT ![NewRun] = "up"]
             /\ cmd' = NewRun /\ running' = TRUE /\ span' = "open" /\ step' = "publish"
    BY <2>1, <2>2, <2>3, FreshLemma DEF NoneUp, LoopInv, DevTypeOK
  <2>4. CASE UNCHANGED <<supervisor, proc, mine, step, inARow>>
    BY <2>1, <2>4 DEF supervisor, NoneUp
  <2> QED BY <1>12, <2>3, <2>4 DEF StartDev
<1>13. CASE PublishDev
  <2>1. step = "publish" /\ step' = "select" /\ UNCHANGED <<crossed, cmd, running, span, declared>>
    BY <1>13 DEF PublishDev, work
  <2>2. CASE serving' = TRUE /\ proc' = proc
    BY <2>1, <2>2 DEF NoneUp
  <2>3. CASE Stop /\ UNCHANGED <<offer, revived>>
    <3>1. ~crossed => NoneUp'
      BY <2>3, StopUps
    <3> QED BY <2>1, <3>1 DEF NoneUp
  <2> QED BY <1>13, <2>2, <2>3 DEF PublishDev
<1>14. CASE Keep
  BY <1>14 DEF Keep, NoneUp, supervisor, work, history
<1>15. CASE RestartIt
  <2>1. step = "restart" /\ step' = "select" /\ declared /\ UNCHANGED <<crossed, serving, declared>>
    BY <1>15 DEF RestartIt, work, LoopInv
  <2>2. revived' = (revived \/ (~serving /\ running'))
    BY <1>15 DEF RestartIt
  <2>3. CASE UNCHANGED <<supervisor, proc, mine, devSpent>>
    BY <2>1, <2>2, <2>3 DEF supervisor, NoneUp
  <2>4. CASE UNCHANGED <<cmd, running, stopping, span, proc, mine, devSpent>>
    BY <2>1, <2>2, <2>4 DEF NoneUp
  <2>5. CASE span \notin {"never", "open"} /\ Start
    <3>1. ~crossed => NoneUp
      BY <2>5 DEF NoneUp
    <3>2. CASE crossed
      BY <2>1, <3>2
    <3>3. CASE ~crossed
      <4>1. /\ \A p \in Run : proc'[p] = "up" => p = cmd' /\ running' /\ span' = "open"
            /\ span' = "open" \/ (span' = "short" /\ NoneUp')
        BY <2>5, <3>1, <3>3, StartUps
      <4>2. running' => serving \/ revived'
        BY <2>2 DEF DevTypeOK
      <4>3. ~revived' /\ ~serving' => NoneUp'
        BY <2>1, <4>1, <4>2 DEF NoneUp
      <4> QED BY <2>1, <4>1, <4>3
    <3> QED BY <3>2, <3>3
  <2> QED BY <1>15, <2>3, <2>4, <2>5 DEF RestartIt, Restart
<1>16. CASE StandDown
  <2>1. UNCHANGED <<crossed, step, cmd, running, span, declared>> /\ Stop
    BY <1>16 DEF StandDown, HandBack, loop, work, history
  <2>2. ~crossed => NoneUp'
    BY <2>1, StopUps
  <2> QED BY <1>16, <2>1, <2>2 DEF StandDown, NoneUp
<1>17. CASE Close
  <2>1. UNCHANGED <<crossed, revived, step, cmd, running, span, declared>>
    BY <1>17 DEF Close, work, history
  <2>2. CASE serving
    <3>1. Stop
      BY <1>17, <2>2 DEF Close, HandBack
    <3>2. ~crossed => NoneUp'
      BY <3>1, StopUps
    <3> QED BY <2>1, <3>2 DEF NoneUp
  <2>3. CASE ~serving
    BY <1>17, <2>1, <2>3 DEF Close, NoneUp
  <2> QED BY <2>2, <2>3
<1> QED
  BY <1>1, <1>2, <1>3, <1>4, <1>5, <1>6, <1>7, <1>8, <1>9, <1>10, <1>11, <1>12, <1>13, <1>14,
     <1>15, <1>16, <1>17 DEF DevNext, Ticking, Keeping

LEMMA OneServerHolds == ServerInv => OneServer
<1> SUFFICES ASSUME ServerInv, ~crossed, ~revived
             PROVE  Cardinality(Up) <= IF serving \/ step = "publish" THEN 1 ELSE 0
  BY DEF OneServer
<1>1. Up \subseteq {cmd}
  BY DEF ServerInv, Up
<1>2. Cardinality(Up) <= 1
  <2>1. IsFiniteSet({cmd}) /\ Cardinality({cmd}) = 1
    BY FS_Singleton
  <2> QED BY <1>1, <2>1, FS_Subset
<1>3. ASSUME ~serving, step # "publish" PROVE Cardinality(Up) = 0
  <2>1. Up = {}
    BY <1>3 DEF ServerInv, NoneUp, Up
  <2> QED BY <2>1, FS_EmptySet
<1> QED BY <1>2, <1>3

\* A hook that is owed and not excused is one that this tick will still ask for.
HooksInv == owed \subseteq excused \cup (IF step \in {"adopt", "hooks"} THEN todo ELSE {})

LEMMA HooksStep ==
  ASSUME DevTypeOK, HooksInv, DevNext
  PROVE  HooksInv'
<1> USE DEF HooksInv, supervisor, offer, loop, work, history
<1>1. ASSUME NEW p \in Run, Listen(p) PROVE HooksInv'  BY <1>1 DEF Listen
<1>2. ASSUME NEW p \in Run, Exit(p) PROVE HooksInv'  BY <1>2 DEF Exit
<1>3. ASSUME NEW p \in Run, Reap(p) PROVE HooksInv'  BY <1>3 DEF Reap
<1>4. ASSUME NEW c \in Change, Land(c) PROVE HooksInv'  BY <1>4 DEF Land
<1>5. CASE TickBegins  BY <1>5 DEF TickBegins
<1>6. CASE SyncWork  BY <1>6 DEF SyncWork
<1>7. CASE Adopt  BY <1>7 DEF Adopt
<1>8. CASE RunHooks  BY <1>8 DEF RunHooks, Asked, DevTypeOK
<1>9. CASE ReloadStops  BY <1>9 DEF ReloadStops
<1>10. CASE ReloadStarts  BY <1>10 DEF ReloadStarts
<1>11. CASE Look  BY <1>11 DEF Look
<1>12. CASE StartDev  BY <1>12 DEF StartDev
<1>13. CASE PublishDev  BY <1>13 DEF PublishDev
<1>14. CASE Keep  BY <1>14 DEF Keep
<1>15. CASE RestartIt  BY <1>15 DEF RestartIt
<1>16. CASE StandDown  BY <1>16 DEF StandDown
<1>17. CASE Close  BY <1>17 DEF Close
<1> QED
  BY <1>1, <1>2, <1>3, <1>4, <1>5, <1>6, <1>7, <1>8, <1>9, <1>10, <1>11, <1>12, <1>13, <1>14,
     <1>15, <1>16, <1>17 DEF DevNext, Ticking, Keeping

\* One more exit may be counted while a process is up to make it.
Room == IF NoneUp THEN 1 ELSE 0

\* Which exits are quick is known until they are reaped, and a long run has ended
\* the row of short ones.
RowInv ==
  /\ \A p \in quick : proc[p] = "dead"
  /\ ~crossed /\ span = "long" => inARow = 0
  /\ ~crossed /\ cmd \in Run /\ proc[cmd] = "dead" /\ cmd \notin quick => inARow = 0

\* The row of short exits is what the breaker has counted and one it may not have
\* seen; while a tick works on a new commit, which clears the breaker at its end,
\* the row began with that commit.
CountInv ==
  /\ step \in {"select", "sync", "restart", "publish"} => todo = {}
  /\ step \in {"stop", "start"} => todo # {}
  /\ ~declared => inARow = 0
  /\ ~crossed /\ todo = {} => inARow <= shortExits + Room
  /\ ~crossed /\ todo = {} /\ gaveUp => NoneUp /\ inARow <= shortExits
  /\ ~crossed /\ todo # {} => inARow <= (IF step = "alive" THEN 1 ELSE 0) + Room

BreakerInv == RowInv /\ CountInv /\ (~gaveUp => shortExits <= MaxShortExits)

LEMMA BreakerLemma ==
  DevTypeOK /\ BreakerInv => BreakerHolds
BY DevAssumption DEF DevTypeOK, BreakerInv, CountInv, BreakerHolds, Room

LEMMA StartRow ==
  ASSUME DevTypeOK, Start, \A p \in quick : proc[p] = "dead"
  PROVE  /\ \A p \in quick : proc'[p] = "dead"
         /\ \/ span' = "open" /\ cmd' \in Run /\ proc'[cmd'] = "up"
            \/ span' = "short" /\ UNCHANGED <<proc, cmd>>
<1>1. CASE Started
  BY <1>1, FreshLemma DEF Started, DevTypeOK
<1>2. CASE StartFailed
  BY <1>2 DEF StartFailed
<1> QED BY <1>1, <1>2 DEF Start

LEMMA StopRow ==
  ASSUME DevTypeOK, Stop, NEW p \in Run
  PROVE  /\ proc'[p] = "dead" <=> proc[p] = "dead"
         /\ NoneUp => NoneUp'
BY DEF Stop, NoneUp, DevTypeOK

LEMMA RowStep ==
  ASSUME DevTypeOK, LoopInv, ServerInv, RowInv, DevNext
  PROVE  RowInv'
<1> USE DEF RowInv
<1>1. ASSUME NEW p \in Run, Listen(p) PROVE RowInv'
  BY <1>1 DEF Listen, supervisor, history
<1>2. ASSUME NEW p \in Run, Exit(p) PROVE RowInv'
  <2>1. /\ proc' = [proc EXCEPT ![p] = "dead"] /\ UNCHANGED <<crossed, span, cmd>>
        /\ proc[p] \in {"up", "killed"} /\ inARow \in Nat
    BY <1>2 DEF Exit, supervisor, DevTypeOK
  <2>2. ~crossed /\ proc[p] = "up" => p = cmd /\ span = "open"
    BY DEF ServerInv
  <2>3. CASE quick' = quick \cup {p}
             /\ inARow' = IF proc[p] = "up" /\ ~crossed THEN inARow + 1 ELSE inARow
    BY <2>1, <2>2, <2>3 DEF DevTypeOK
  <2>4. CASE quick' = quick /\ inARow' = 0
    BY <2>1, <2>4 DEF DevTypeOK
  <2> QED BY <1>2, <2>3, <2>4 DEF Exit
<1>3. ASSUME NEW p \in Run, Reap(p) PROVE RowInv'
  <2>1. /\ proc' = [proc EXCEPT ![p] = "none"] /\ quick' = quick \ {p} /\ inARow' = inARow
        /\ proc[p] = "dead"
    BY <1>3 DEF Reap
  <2>2. \A q \in quick' : proc'[q] = "dead"
    BY <2>1 DEF DevTypeOK
  <2>3. CASE p \in mine /\ cmd = p
    <3>1. cmd' = 0 /\ 0 \notin Run /\ span' \in (IF p \in quick THEN {"short"} ELSE {"long"})
      BY <1>3, <2>3 DEF Reap, Run
    <3>2. ~crossed' => ~crossed
      BY <1>3 DEF Reap
    <3> QED BY <2>1, <2>2, <2>3, <3>1, <3>2
  <2>4. CASE p \in mine /\ cmd # p
    BY <1>3, <2>2, <2>4 DEF Reap
  <2>5. CASE p \notin mine
    <3>1. UNCHANGED <<span, cmd, crossed>>
      BY <1>3, <2>5 DEF Reap
    <3> QED BY <2>1, <2>2, <3>1 DEF DevTypeOK
  <2> QED BY <2>3, <2>4, <2>5
<1>4. ASSUME NEW c \in Change, Land(c) PROVE RowInv'
  BY <1>4 DEF Land, supervisor, history
<1>5. CASE TickBegins  BY <1>5 DEF TickBegins, supervisor, history
<1>6. CASE SyncWork
  <2>1. UNCHANGED <<proc, quick, crossed, span, cmd>> /\ inARow' \in {inARow, 0}
    BY <1>6 DEF SyncWork, supervisor
  <2> QED BY <2>1
<1>7. CASE Adopt
  <2>1. UNCHANGED <<quick, inARow, crossed>>
    BY <1>7 DEF Adopt, history
  <2>2. CASE Start
    BY <2>1, <2>2, StartRow
  <2>3. CASE UNCHANGED <<declared, offer, cmd, running, stopping, span, proc, mine, devSpent>>
    BY <2>1, <2>3
  <2> QED BY <1>7, <2>2, <2>3 DEF Adopt
<1>8. CASE RunHooks  BY <1>8 DEF RunHooks, supervisor
<1>9. CASE ReloadStops
  <2>1. UNCHANGED <<quick, inARow, crossed, span, cmd>> /\ Stop
    BY <1>9 DEF ReloadStops, history
  <2> QED BY <2>1, StopRow DEF DevTypeOK
<1>10. CASE ReloadStarts
  <2>1. UNCHANGED <<quick, inARow, crossed>>
    BY <1>10 DEF ReloadStarts, history
  <2>2. CASE Start
    BY <2>1, <2>2, StartRow
  <2>3. CASE UNCHANGED <<proc, mine, cmd, running, stopping, span, devSpent>>
    BY <2>1, <2>3
  <2> QED BY <1>10, <2>2, <2>3 DEF ReloadStarts
<1>11. CASE Look
  <2>1. UNCHANGED <<proc, quick, crossed, span, cmd>> /\ inARow' \in {inARow, 0}
    BY <1>11 DEF Look
  <2> QED BY <2>1
<1>12. CASE StartDev
  <2>1. UNCHANGED <<quick, crossed>>
    BY <1>12 DEF StartDev
  <2>2. CASE /\ Fresh # {} /\ proc' = [proc EXCEPT ![NewRun] = "up"]
             /\ cmd' = NewRun /\ span' = "open" /\ inARow' = 0
    BY <2>1, <2>2, FreshLemma DEF DevTypeOK
  <2>3. CASE UNCHANGED <<supervisor, proc, mine, step, inARow>>
    BY <2>1, <2>3 DEF supervisor
  <2> QED BY <1>12, <2>2, <2>3 DEF StartDev
<1>13. CASE PublishDev
  <2>1. UNCHANGED <<quick, inARow, crossed, span, cmd>> /\ (Stop \/ UNCHANGED proc)
    BY <1>13 DEF PublishDev
  <2> QED BY <2>1, StopRow DEF DevTypeOK
<1>14. CASE Keep  BY <1>14 DEF Keep, supervisor, history
<1>15. CASE RestartIt
  <2>1. UNCHANGED <<quick, inARow, crossed>>
    BY <1>15 DEF RestartIt
  <2>2. CASE Start
    BY <2>1, <2>2, StartRow
  <2>3. CASE UNCHANGED <<cmd, span, proc>>
    BY <2>1, <2>3
  <2> QED BY <1>15, <2>2, <2>3 DEF RestartIt, Restart, supervisor
<1>16. CASE StandDown
  <2>1. UNCHANGED <<quick, inARow, crossed, span, cmd>> /\ Stop
    BY <1>16 DEF StandDown, HandBack, history
  <2> QED BY <2>1, StopRow DEF DevTypeOK
<1>17. CASE Close
  <2>1. UNCHANGED <<quick, inARow, crossed, span, cmd>> /\ (Stop \/ UNCHANGED proc)
    BY <1>17 DEF Close, HandBack, history
  <2> QED BY <2>1, StopRow DEF DevTypeOK
<1> QED
  BY <1>1, <1>2, <1>3, <1>4, <1>5, <1>6, <1>7, <1>8, <1>9, <1>10, <1>11, <1>12, <1>13, <1>14,
     <1>15, <1>16, <1>17 DEF DevNext, Ticking, Keeping

\* A step that neither counts nor starts anything may only let processes go.
CountQuiet ==
  /\ inARow' \in {inARow, 0} /\ (crossed' \/ crossed' = crossed)
  /\ UNCHANGED <<shortExits, gaveUp, declared, todo>>
  /\ NoneUp => NoneUp'
  /\ step' \in {"select", "sync", "restart", "publish"} => todo = {}
  /\ step' \in {"stop", "start"} => todo # {}
  /\ step = "alive" => step' = "alive" \/ todo = {}

LEMMA QuietCount ==
  ASSUME DevTypeOK, CountInv, CountQuiet
  PROVE  CountInv'
<1>1. inARow \in Nat /\ shortExits \in Nat
  BY DevAssumption DEF DevTypeOK
<1>2. Room \in 0 .. 1 /\ Room' \in 0 .. 1 /\ Room <= Room'
  BY DEF Room, CountQuiet
<1>3. inARow' <= inARow /\ inARow' \in Nat
  BY <1>1 DEF CountQuiet
<1>4. ~declared' => inARow' = 0
  BY DEF CountInv, CountQuiet
<1>5. ASSUME ~crossed', todo' = {} PROVE inARow' <= shortExits' + Room'
  <2>1. inARow <= shortExits + Room /\ shortExits' = shortExits
    BY <1>5 DEF CountInv, CountQuiet
  <2> QED BY ONLY <1>1, <1>2, <1>3, <2>1 DEF Room
<1>6. ASSUME ~crossed', todo' = {}, gaveUp' PROVE NoneUp' /\ inARow' <= shortExits'
  <2>1. NoneUp /\ inARow <= shortExits /\ shortExits' = shortExits
    BY <1>6 DEF CountInv, CountQuiet
  <2>2. NoneUp'
    BY <2>1 DEF CountQuiet
  <2>3. inARow' <= shortExits'
    BY ONLY <1>1, <1>3, <2>1
  <2> QED BY <2>2, <2>3
<1>7. ASSUME ~crossed', todo' # {}
      PROVE  inARow' <= (IF step' = "alive" THEN 1 ELSE 0) + Room'
  <2>1. inARow <= (IF step = "alive" THEN 1 ELSE 0) + Room
    BY <1>7 DEF CountInv, CountQuiet
  <2>2. step = "alive" => step' = "alive"
    BY <1>7 DEF CountQuiet
  <2> QED BY ONLY <1>1, <1>2, <1>3, <2>1, <2>2 DEF Room
<1>8. /\ step' \in {"select", "sync", "restart", "publish"} => todo' = {}
      /\ step' \in {"stop", "start"} => todo' # {}
  BY DEF CountQuiet
<1> QED BY <1>4, <1>5, <1>6, <1>7, <1>8 DEF CountInv

LEMMA CountStep ==
  ASSUME DevTypeOK, LoopInv, ServerInv, RowInv, CountInv, DevNext
  PROVE  CountInv'
<1>a. inARow \in Nat /\ shortExits \in Nat
  BY DevAssumption DEF DevTypeOK
<1>b. Room \in 0 .. 1 /\ Room' \in 0 .. 1
  BY DEF Room
<1>c. /\ step \in {"select", "sync", "restart", "publish"} => todo = {}
      /\ step \in {"stop", "start"} => todo # {}
  BY DEF CountInv
<1>d. Stop => (NoneUp => NoneUp')
  BY DEF Stop, NoneUp, DevTypeOK
<1>1. ASSUME NEW p \in Run, Listen(p) PROVE CountInv'
  BY <1>1, <1>c, QuietCount DEF CountQuiet, Listen, NoneUp, supervisor, offer, loop, work,
     history
<1>2. ASSUME NEW p \in Run, Exit(p) PROVE CountInv'
  <2>1. /\ proc' = [proc EXCEPT ![p] = "dead"]
        /\ UNCHANGED <<crossed, shortExits, gaveUp, declared, todo, step>>
        /\ proc[p] \in {"up", "killed"}
    BY <1>2 DEF Exit, supervisor, loop, work
  <2>2. NoneUp => NoneUp'
    BY <2>1 DEF NoneUp, DevTypeOK
  <2>3. CASE inARow' \in {0, inARow}
    BY <2>1, <2>2, <2>3, <1>c, QuietCount DEF CountQuiet
  <2>4. CASE inARow' = inARow + 1 /\ proc[p] = "up" /\ ~crossed
    <3>1. ~NoneUp /\ NoneUp'
      BY <2>1, <2>4 DEF ServerInv, NoneUp, DevTypeOK
    <3>2. Room = 0 /\ Room' = 1
      BY <3>1 DEF Room
    <3>3. declared
      BY <2>4 DEF ServerInv
    <3>4. CASE todo = {}
      <4>1. inARow <= shortExits /\ ~gaveUp
        BY <1>a, <2>4, <3>1, <3>2, <3>4 DEF CountInv
      <4>2. inARow' <= shortExits' + Room'
        BY ONLY <1>a, <2>1, <2>4, <3>2, <4>1
      <4> QED BY <1>c, <2>1, <3>3, <3>4, <4>1, <4>2 DEF CountInv
    <3>5. CASE todo # {}
      <4>1. inARow <= (IF step = "alive" THEN 1 ELSE 0)
        BY <1>a, <2>4, <3>2, <3>5 DEF CountInv
      <4>2. inARow' <= (IF step' = "alive" THEN 1 ELSE 0) + Room'
        BY ONLY <1>a, <2>1, <2>4, <3>2, <4>1
      <4> QED BY <1>c, <2>1, <3>3, <3>5, <4>2 DEF CountInv
    <3> QED BY <3>4, <3>5
  <2> QED BY <1>2, <2>3, <2>4 DEF Exit
<1>3. ASSUME NEW p \in Run, Reap(p) PROVE CountInv'
  <2>1. /\ UNCHANGED <<shortExits, gaveUp, declared, todo, step, inARow>>
        /\ proc' = [proc EXCEPT ![p] = "none"]
    BY <1>3 DEF Reap, loop, work
  <2>2. NoneUp => NoneUp'
    BY <2>1 DEF NoneUp, DevTypeOK
  <2>3. crossed' \/ crossed' = crossed
    BY <1>3 DEF Reap, DevTypeOK
  <2> QED BY <1>c, <2>1, <2>2, <2>3, QuietCount DEF CountQuiet
<1>4. ASSUME NEW c \in Change, Land(c) PROVE CountInv'
  BY <1>4, <1>c, QuietCount DEF CountQuiet, Land, NoneUp, supervisor, offer, loop, history
<1>5. CASE TickBegins
  BY <1>5, <1>c, QuietCount DEF CountQuiet, TickBegins, NoneUp, supervisor, offer, work,
     history
<1>6. CASE SyncWork
  <2>1. /\ step = "sync" /\ step' = "adopt" /\ UNCHANGED <<shortExits, gaveUp, proc, declared, crossed>>
        /\ inARow' \in {0, inARow} /\ (todo' # {} => inARow' = 0)
    BY <1>6 DEF SyncWork, supervisor
  <2>2. todo = {} /\ Room' = Room /\ NoneUp' = NoneUp
    BY <1>c, <2>1 DEF Room, NoneUp
  <2>3. CASE todo' = {}
    BY <2>1, <2>2, <2>3, QuietCount DEF CountQuiet
  <2>4. CASE todo' # {}
    <3>1. inARow' = 0 /\ 0 <= (IF step' = "alive" THEN 1 ELSE 0) + Room'
      BY <1>b, <2>1, <2>4 DEF Room
    <3> QED BY <2>1, <2>4, <3>1 DEF CountInv
  <2> QED BY <2>3, <2>4
<1>7. CASE Adopt
  <2>1. /\ step = "adopt" /\ step' = "hooks"
        /\ UNCHANGED <<shortExits, gaveUp, todo, inARow, crossed>>
    BY <1>7 DEF Adopt, history
  <2>2. CASE ~declared /\ declared' = TRUE
    <3>1. inARow' = 0 /\ ~gaveUp'
      BY <2>1, <2>2 DEF CountInv, LoopInv
    <3>2. inARow' <= shortExits' + Room' /\ inARow' <= (IF step' = "alive" THEN 1 ELSE 0) + Room'
      BY ONLY <1>a, <1>b, <2>1, <3>1 DEF Room
    <3> QED BY <2>1, <2>2, <3>1, <3>2 DEF CountInv
  <2>3. CASE UNCHANGED <<declared, offer, cmd, running, stopping, span, proc, mine, devSpent>>
    BY <2>1, <2>3, QuietCount DEF CountQuiet, NoneUp
  <2> QED BY <1>7, <2>2, <2>3 DEF Adopt
<1>8. CASE RunHooks
  <2>1. /\ step = "hooks" /\ step' \in {"stop", "alive"} /\ (step' = "stop" => todo # {})
        /\ UNCHANGED <<proc, shortExits, gaveUp, declared, todo, inARow, crossed>>
    BY <1>8 DEF RunHooks, supervisor, Asked
  <2> QED BY <2>1, QuietCount DEF CountQuiet, NoneUp
<1>9. CASE ReloadStops
  <2>1. /\ step = "stop" /\ step' = "start" /\ Stop
        /\ UNCHANGED <<shortExits, gaveUp, declared, todo, inARow, crossed>>
    BY <1>9 DEF ReloadStops, work, history
  <2> QED BY <1>c, <1>d, <2>1, QuietCount DEF CountQuiet
<1>10. CASE ReloadStarts
  <2>1. /\ step = "start" /\ step' = "alive" /\ todo # {}
        /\ UNCHANGED <<shortExits, gaveUp, declared, todo, inARow, crossed>>
    BY <1>10, <1>c DEF ReloadStarts, work, history
  <2>2. ASSUME ~crossed PROVE inARow' <= (IF step' = "alive" THEN 1 ELSE 0) + Room'
    <3>1. inARow <= 0 + Room
      BY <2>1, <2>2 DEF CountInv
    <3> QED BY ONLY <1>a, <1>b, <2>1, <3>1 DEF Room
  <2> QED BY <2>1, <2>2 DEF CountInv
<1>11. CASE Look
  <2>1. /\ step = "alive" /\ todo' = {} /\ UNCHANGED <<proc, declared, crossed>>
        /\ step' \in {"restart", "select"}
    BY <1>11 DEF Look, work
  <2>2. Room' = Room
    BY <2>1 DEF Room, NoneUp
  <2>3. CASE todo # {}
    <3>1. shortExits' = 0 /\ gaveUp' = FALSE /\ inARow' = 0
      BY <1>11, <2>3 DEF Look
    <3>2. inARow' <= shortExits' + Room'
      BY ONLY <1>b, <3>1 DEF Room
    <3> QED BY <2>1, <3>1, <3>2 DEF CountInv
  <2>4. CASE todo = {}
    <3>1. UNCHANGED <<shortExits, gaveUp, inARow>>
      BY <1>11, <2>4 DEF Look
    <3> QED BY <2>1, <2>4, <3>1, QuietCount DEF CountQuiet, NoneUp
  <2> QED BY <2>3, <2>4
<1>12. CASE StartDev
  <2>1. step = "select" /\ step' \in {"select", "publish"} /\ UNCHANGED <<todo, declared, crossed>>
    BY <1>12 DEF StartDev, work, supervisor
  <2>2. CASE shortExits' = 0 /\ gaveUp' = FALSE /\ inARow' = 0
    <3>1. inARow' <= shortExits' + Room'
      BY ONLY <1>b, <2>2 DEF Room
    <3> QED BY <1>c, <2>1, <2>2, <3>1 DEF CountInv
  <2>3. CASE UNCHANGED <<supervisor, proc, mine, step, inARow>>
    BY <1>c, <2>1, <2>3, QuietCount DEF CountQuiet, NoneUp, supervisor
  <2> QED BY <1>12, <2>2, <2>3 DEF StartDev
<1>13. CASE PublishDev
  <2>1. /\ step = "publish" /\ step' = "select" /\ (Stop \/ UNCHANGED proc)
        /\ UNCHANGED <<shortExits, gaveUp, declared, todo, inARow, crossed>>
    BY <1>13 DEF PublishDev, work
  <2> QED BY <1>c, <1>d, <2>1, QuietCount DEF CountQuiet, NoneUp
<1>14. CASE Keep
  <2>1. /\ step = "select" /\ step' \in {"select", "restart"}
        /\ UNCHANGED <<proc, shortExits, gaveUp, declared, todo, inARow, crossed>>
    BY <1>14 DEF Keep, supervisor, work, history
  <2> QED BY <1>c, <2>1, QuietCount DEF CountQuiet, NoneUp
<1>15. CASE RestartIt
  <2>1. /\ step = "restart" /\ step' = "select" /\ todo = {} /\ todo' = {} /\ declared
        /\ UNCHANGED <<declared, inARow, crossed>>
    BY <1>15, <1>c DEF RestartIt, work, LoopInv
  <2>2. CASE UNCHANGED <<supervisor, proc, mine, devSpent>>
    BY <2>1, <2>2, QuietCount DEF CountQuiet, NoneUp, supervisor
  <2>3. CASE /\ span \notin {"never", "open"}
             /\ shortExits' = IF span = "short" THEN shortExits + 1 ELSE 0
             /\ ~gaveUp' \/ UNCHANGED proc
    <3>1. ~crossed => NoneUp
      BY <2>3 DEF ServerInv, NoneUp
    <3>2. ASSUME ~crossed PROVE inARow' <= shortExits'
      <4>1. CASE span = "short"
        <5>1. inARow <= shortExits + Room /\ shortExits' = shortExits + 1
          BY <2>1, <2>3, <3>2, <4>1 DEF CountInv
        <5> QED BY ONLY <1>a, <1>b, <2>1, <5>1
      <4>2. CASE span # "short"
        <5>1. inARow = 0 /\ shortExits' = 0
          BY <2>3, <3>2, <4>2 DEF RowInv, DevTypeOK
        <5> QED BY ONLY <2>1, <5>1
      <4> QED BY <4>1, <4>2
    <3>3. shortExits' \in Nat
      BY <1>a, <2>3
    <3>4. ASSUME ~crossed PROVE inARow' <= shortExits' + Room'
      <4>1. inARow' <= shortExits'
        BY <3>2, <3>4
      <4>2. inARow' \in Nat /\ Room' \in Nat
        BY <1>a, <2>1 DEF Room
      <4>3. \A a, b, r \in Nat : a <= b => a <= b + r
        OBVIOUS
      <4> QED BY <3>3, <4>1, <4>2, <4>3, Zenon
    <3>5. ~crossed /\ gaveUp' => NoneUp'
      BY <2>3, <3>1 DEF NoneUp
    <3> QED BY <2>1, <3>2, <3>4, <3>5 DEF CountInv
  <2> QED BY <1>15, <2>2, <2>3 DEF RestartIt, Restart
<1>16. CASE StandDown
  <2>1. /\ Stop /\ UNCHANGED <<step, shortExits, gaveUp, declared, todo, inARow, crossed>>
    BY <1>16 DEF StandDown, HandBack, loop, work, history
  <2> QED BY <1>c, <1>d, <2>1, QuietCount DEF CountQuiet
<1>17. CASE Close
  <2>1. /\ Stop \/ UNCHANGED proc
        /\ UNCHANGED <<step, shortExits, gaveUp, declared, todo, inARow, crossed>>
    BY <1>17 DEF Close, HandBack, work, history
  <2> QED BY <1>c, <1>d, <2>1, QuietCount DEF CountQuiet, NoneUp
<1> QED
  BY <1>1, <1>2, <1>3, <1>4, <1>5, <1>6, <1>7, <1>8, <1>9, <1>10, <1>11, <1>12, <1>13, <1>14,
     <1>15, <1>16, <1>17 DEF DevNext, Ticking, Keeping

LEMMA DevSame ==
  ASSUME UNCHANGED devVars
  PROVE  /\ DevTypeOK' <=> DevTypeOK
         /\ LoopInv' <=> LoopInv
         /\ ServerInv' <=> ServerInv
         /\ HooksInv' <=> HooksInv
         /\ BreakerInv' <=> BreakerInv
<1> USE DEF devVars, supervisor, offer, loop, work, history
<1>1. (DevTypeOK' <=> DevTypeOK) /\ (LoopInv' <=> LoopInv) /\ (HooksInv' <=> HooksInv)
  BY DEF DevTypeOK, LoopInv, HooksInv
<1>2. ServerInv' <=> ServerInv
  BY DEF ServerInv, NoneUp
<1>3. RowInv' <=> RowInv
  BY DEF RowInv
<1>4. CountInv' <=> CountInv
  BY DEF CountInv, Room, NoneUp
<1>5. BreakerInv' <=> BreakerInv
  BY <1>3, <1>4 DEF BreakerInv
<1> QED BY <1>1, <1>2, <1>5

DevInv == DevTypeOK /\ LoopInv /\ ServerInv /\ HooksInv /\ BreakerInv

LEMMA DevStep == DevInv /\ [DevNext]_devVars => DevInv'
<1>1. CASE DevInv /\ DevNext
  <2>1. DevTypeOK' /\ (~gaveUp => shortExits <= MaxShortExits)'
    BY <1>1, DevTypes DEF DevInv, BreakerInv
  <2>2. LoopInv'
    BY <1>1, LoopStep DEF DevInv
  <2>3. ServerInv'
    BY <1>1, ServerStep DEF DevInv
  <2>4. HooksInv'
    BY <1>1, HooksStep DEF DevInv
  <2>5. RowInv'
    BY <1>1, RowStep DEF DevInv, BreakerInv
  <2>6. CountInv'
    BY <1>1, CountStep DEF DevInv, BreakerInv
  <2> QED BY <2>1, <2>2, <2>3, <2>4, <2>5, <2>6 DEF DevInv, BreakerInv
<1>2. CASE DevInv /\ UNCHANGED devVars
  BY <1>2, DevSame DEF DevInv
<1> QED BY <1>1, <1>2

LEMMA DevStart == DevInit => DevInv
<1> SUFFICES ASSUME DevInit PROVE DevInv
  OBVIOUS
<1> USE DevAssumption DEF DevInit
<1>1. DevTypeOK
  <2>1. declared \in BOOLEAN /\ driver \in {"host", "daemon"}
    BY Zenon
  <2>2. /\ shortExits \in 0 .. MaxShortExits + 1 /\ landings \in 0 .. MaxLandings
        /\ devSpent \in 0 .. MaxDevFaults /\ inARow \in Nat
    OBVIOUS
  <2>3. proc \in [Run -> {"none", "up", "killed", "dead"}]
    OBVIOUS
  <2>4. /\ cmd \in {0} \cup Run /\ running \in BOOLEAN /\ stopping \in BOOLEAN
        /\ span \in {"never", "open", "short", "long"} /\ gaveUp \in BOOLEAN
        /\ mine \subseteq Run /\ port \in {0} \cup Run
    OBVIOUS
  <2>5. /\ serving \in BOOLEAN /\ published \in BOOLEAN /\ announced \in BOOLEAN
        /\ step = "select" /\ known \in BOOLEAN /\ todo \subseteq Change /\ closed \in BOOLEAN
        /\ landed \subseteq Change /\ owed \subseteq Hook /\ excused \subseteq Hook
        /\ quick \subseteq Run /\ crossed \in BOOLEAN /\ revived \in BOOLEAN
    OBVIOUS
  <2> QED BY ONLY <2>1, <2>2, <2>3, <2>4, <2>5, Zenon DEF DevTypeOK
<1>2. LoopInv /\ HooksInv
  BY DEF LoopInv, HooksInv
<1>3. NoneUp /\ ServerInv
  BY DEF NoneUp, ServerInv
<1>4. RowInv
  BY DEF RowInv
<1>5. CountInv /\ shortExits <= MaxShortExits
  BY <1>3 DEF CountInv, Room
<1> QED BY <1>1, <1>2, <1>3, <1>4, <1>5 DEF DevInv, BreakerInv

-----------------------------------------------------------------------------
(* The five together. *)

LEMMA StandupStart == StandupInit => StandupInv
<1> SUFFICES ASSUME StandupInit PROVE StandupInv
  OBVIOUS
<1> USE StandupAssumption DEF StandupInit
<1>1. NoMarker \in Marker
  BY DEF NoMarker, Marker
<1>2. phaseOf \in [Pid -> {"new", "asks", "builds", "cloning", "up", "failed", "over", "dead"}]
  OBVIOUS
<1>3. copy \in [Pid -> Marker] /\ marker \in Marker
  BY <1>1
<1>4. verb \in [Verb -> {"idle", "enters", "looks", "waits", "again", "loads",
                        "opened", "refused", "printed"}]
  OBVIOUS
<1>5. StandupTypeOK
  <2>1. crashes \in 0 .. MaxCrashes
    OBVIOUS
  <2> QED BY <1>2, <1>3, <1>4, <2>1 DEF StandupTypeOK
<1>6. LockInv /\ PromiseInv
  BY DEF LockInv, PromiseInv, Building, NoMarker
<1> QED BY <1>5, <1>6 DEF StandupInv

LEMMA ExecStart == ExecInit => ExecInv
<1> SUFFICES ASSUME ExecInit PROVE ExecInv
  OBVIOUS
<1> USE ExecAssumption DEF ExecInit
<1>1. reader \in {"reads", "ended"}
  BY Zenon
<1>2. up \in Seq({"line", "eof"}) /\ down \in Seq({"output", "exit", "error"})
  <2>1. (up = <<>> \/ up = <<"eof">>) /\ down = <<>>
    BY Zenon
  <2>2. <<>> \in Seq({"line", "eof"}) /\ <<>> \in Seq({"output", "exit", "error"})
    OBVIOUS
  <2>3. <<"eof">> \in Seq({"line", "eof"})
    OBVIOUS
  <2> QED BY <2>1, <2>2, <2>3, Zenon
<1>3. ExecTypeOK
  <2>1. /\ typed \in 0 .. MaxTyped /\ printed \in 0 .. MaxOutput /\ written \in 0 .. MaxOutput
        /\ pipe \in 0 .. MaxOutput
    OBVIOUS
  <2> QED BY <1>1, <1>2, <2>1, Zenon DEF ExecTypeOK
<1>4. Len(down) = 0 /\ Outputs = 0
  BY DEF Outputs
<1> QED BY <1>3, <1>4 DEF ExecInv

LEMMA ConsoleStart == ConsoleInit => ConsoleInv
<1> SUFFICES ASSUME ConsoleInit PROVE ConsoleInv
  OBVIOUS
<1> USE ConsoleAssumption DEF ConsoleInit, Command, Free, VerbItself
<1>1. registered \in BOOLEAN /\ shown \in BOOLEAN
  BY Zenon
<1>2. /\ mode \in {"host", "join", "rejoin"} /\ terminal \in BOOLEAN
      /\ works \in {"starts", "has", "closes", "runs", "ended", "failed", "rejoins"}
      /\ daemon \in {"none", "half", "up", "down"} /\ screen \in {"loops", "stuck", "down"}
  BY Zenon
<1>3. cmds \in [Command -> {"none", "waits", "closes", "done"}]
  OBVIOUS
<1>4. closes \in 0 .. 2 /\ mu \in Free .. VerbItself
  <2>1. closes = 0 /\ mu = Free
    BY Zenon
  <2> QED BY ONLY <2>1, ConsoleAssumption DEF Free, VerbItself
<1>5. ConsoleTypeOK
  <2>1. /\ asked = FALSE /\ left = FALSE /\ main = "draws" /\ news = "none" /\ nudge = "asked"
        /\ signalled = FALSE
    BY Zenon
  <2> QED BY <1>1, <1>2, <1>3, <1>4, <2>1, Zenon DEF ConsoleTypeOK
<1>6. mode = "host" => works = "starts" /\ daemon = "none"
  BY Zenon
<1>7. /\ closes = 0 /\ mu = Free /\ main = "draws" /\ left = FALSE
      /\ registered => works = "runs"
  BY Zenon
<1>8. cmds = [c \in Command |-> "none"]
  BY Zenon
<1>9. mu \notin Command /\ mu # VerbItself
  BY ONLY <1>7, ConsoleAssumption DEF Command, Free, VerbItself
<1>10. /\ closes <= 1 /\ \A c \in Command : cmds[c] = "closes" <=> mu = c
  BY ONLY <1>7, <1>8, <1>9
<1> QED
  BY ONLY <1>5, <1>7, <1>9, <1>10 DEF ConsoleInv, Free

\* Each component moves by its own action or not at all.
LEMMA EachMoves ==
  ASSUME [Next]_vars
  PROVE  /\ [DevNext]_devVars /\ [LogNext]_logVars /\ [StandupNext]_standupVars
         /\ [ExecNext]_execVars /\ [ConsoleNext]_consoleVars
<1>1. CASE Next
  BY <1>1 DEF Next
<1>2. CASE UNCHANGED vars
  BY <1>2 DEF vars
<1> QED BY <1>1, <1>2

\* What holds of each while it moves, and of each that does not.
MemberInv ==
  /\ part \in {"dev", "log", "standup", "exec", "console"}
  /\ DevInv /\ LogInv /\ StandupInv /\ ExecInv /\ ConsoleInv

LEMMA MemberInvariant == Spec => []MemberInv
<1>1. Init => MemberInv
  BY DevStart, LogStart, StandupStart, ExecStart, ConsoleStart DEF Init, MemberInv
<1>2. MemberInv /\ [Next]_vars => MemberInv'
  <2>1. ASSUME [Next]_vars PROVE part' = part
    BY <2>1 DEF Next, vars
  <2> QED BY <2>1, EachMoves, DevStep, LogStep, StandupStep, ExecStep, ConsoleStep
             DEF MemberInv
<1> QED BY <1>1, <1>2, PTL DEF Spec

\* One of each at a time, for any number of processes, commands, crashes and
\* quits: the Supervisor has one dev server up while its service is served and
\* none after (devserver.go Start, Stop, Restart), starts one that dies at once
\* no more often than the breaker allows between two commits; one process builds
\* a directory (standup.go BeginStandup), and nobody is let in before the tree is
\* whole; the leaver closes the daemon once (console.go).
THEOREM OneAtATimeAlways == Spec => []OneAtATime
<1>1. MemberInv => OneServer /\ BreakerHolds
  BY OneServerHolds, BreakerLemma DEF MemberInv, DevInv
<1>2. StandupInv => BuildsAlone
  <2> SUFFICES ASSUME StandupInv PROVE BuildsAlone
    OBVIOUS
  <2>1. \A p, q \in Pid : Building(p) /\ Building(q) => p = q
    BY DEF StandupInv, LockInv
  <2>2. \A t \in through : verb[t[1]] # "refused" /\ (t[2] \notin hosting => tree = "whole")
    BY DEF StandupInv, PromiseInv, Promise
  <2> QED BY <2>1, <2>2 DEF BuildsAlone
<1>3. ConsoleInv => HandsBackOnce
  BY DEF ConsoleInv, HandsBackOnce
<1>4. MemberInv => OneAtATime
  BY <1>1, <1>2, <1>3 DEF MemberInv, OneAtATime
<1> QED BY <1>4, MemberInvariant, PTL

\* Nothing is skipped, for any number of lines, any room and any faults: a hook
\* that main asks for has run once its tick is over, unless it failed or git could
\* not say what is new (runtime.go ReconcileFromTo); the view of another machine's
\* log has no hole (devserver.go deliver, follow.go, conductor/logsource.go); and a
\* client that is told how its command ended has all that the command printed
\* (boxexec/client.go, holder.go).
THEOREM NothingIsSkippedAlways == Spec => []NothingIsSkipped
<1>1. MemberInv => OnlyFailuresSkipHooks
  BY DEF MemberInv, DevInv, HooksInv, OnlyFailuresSkipHooks
<1>2. MemberInv => NoHole
  BY LogNoHole DEF MemberInv
<1>3. MemberInv => OutputIsWhole
  BY DEF MemberInv, ExecInv, OutputIsWhole
<1>4. MemberInv => NothingIsSkipped
  BY <1>1, <1>2, <1>3 DEF NothingIsSkipped
<1> QED BY <1>4, MemberInvariant, PTL

\* Every variable of the five keeps its type.
THEOREM MemberTypes == Spec => []TypeOK
<1>1. MemberInv => TypeOK
  BY DEF MemberInv, DevInv, LogInv, StandupInv, ExecInv, ConsoleInv, TypeOK
<1> QED BY <1>1, MemberInvariant, PTL

=============================================================================
