------------------------------- MODULE BoxExec -------------------------------
(***************************************************************************)
(* slopball box run: one command executed in the box's work tree over the   *)
(* session network (boxexec/client.go, boxexec/holder.go), and box rm, which *)
(* asks the same holder to stop (cli/boxsession.go).                         *)
(*                                                                          *)
(* Between the terminal and the command a line passes the client's reader,   *)
(* the connection, pumpStdin, an io.Pipe and the goroutine os/exec starts to *)
(* copy it; output comes back through os/exec's copier, which frames it.     *)
(* cmd.Wait waits for both copiers.                                          *)
(***************************************************************************)
EXTENDS Naturals, Sequences

CONSTANTS
  MaxTyped,  \* bound on the lines the user types
  MaxOutput  \* bound on what the command writes

ASSUME ExecAssumption == MaxTyped \in Nat /\ MaxOutput \in Nat

VARIABLES
  kind,        \* "ls" ends by itself, "cat" when its input does, "serves" never
  typed,       \* lines typed
  stdin,       \* the local standard input
  interrupted, \* Ctrl-C: the client's context is cancelled
  reader,      \* the client's goroutine on stdin; ended: stdinDone is closed
  clientRun,        \* Client.Run
  result, printed,
  up, down,    \* frames in flight
  conn,        \* "closed" by one end, or "cut": lost
  child, written,
  pipe,        \* written and not yet framed
  broken,      \* os/exec's copier of the output gave up
  pump, copier,
  waited,      \* cmd.Wait returned
  rm           \* slopball box rm

execVars == <<kind, typed, stdin, interrupted, reader, clientRun, result, printed, up, down, conn,
              child, written, pipe, broken, pump, copier, waited, rm>>

ExecTypeOK ==
  /\ kind \in {"ls", "cat", "serves"} /\ typed \in 0 .. MaxTyped
  /\ stdin \in {"open", "closed"} /\ interrupted \in BOOLEAN /\ reader \in {"reads", "ended"}
  /\ clientRun \in {"runs", "drains", "returned"} /\ result \in {"none", "status", "error"}
  /\ printed \in 0 .. MaxOutput /\ written \in 0 .. MaxOutput /\ pipe \in 0 .. MaxOutput
  /\ up \in Seq({"line", "eof"}) /\ down \in Seq({"output", "exit", "error"})
  /\ conn \in {"up", "closed", "cut"} /\ child \in {"none", "runs", "ended"}
  /\ broken \in BOOLEAN /\ pump \in {"reads", "ended"} /\ copier \in {"reads", "ended"}
  /\ waited \in BOOLEAN /\ rm \in {"none", "signalled", "destroyed"}

\* Run dialled, sent msgRun and started its reader; a nil stdin is at its end.
ExecInit ==
  /\ kind \in {"ls", "cat", "serves"} /\ stdin \in {"open", "closed"}
  /\ reader = (IF stdin = "open" THEN "reads" ELSE "ended")
  /\ up = (IF stdin = "open" THEN <<>> ELSE <<"eof">>) /\ down = <<>> /\ conn = "up"
  /\ typed = 0 /\ interrupted = FALSE /\ clientRun = "runs" /\ result = "none" /\ printed = 0
  /\ child = "none" /\ written = 0 /\ pipe = 0 /\ broken = FALSE
  /\ pump = "reads" /\ copier = "reads" /\ waited = FALSE /\ rm = "none"

-----------------------------------------------------------------------------
(* The client's reader. *)

Sends(frames) == up' = IF conn = "up" THEN up \o frames ELSE up

\* The context is looked at before a read, never during one.
Types ==
  /\ reader = "reads" /\ stdin = "open" /\ typed < MaxTyped /\ typed' = typed + 1
  /\ Sends(IF interrupted THEN <<"line", "eof">> ELSE <<"line">>)
  /\ reader' = (IF interrupted \/ conn # "up" THEN "ended" ELSE "reads")
  /\ UNCHANGED <<kind, stdin, interrupted, clientRun, result, printed, down, conn, child,
                 written, pipe, broken, pump, copier, waited, rm>>

CloseStdin ==
  /\ stdin = "open" /\ stdin' = "closed"
  /\ UNCHANGED <<kind, typed, interrupted, reader, clientRun, result, printed, up, down,
                 conn, child, written, pipe, broken, pump, copier, waited, rm>>

ReadsEnd ==
  /\ reader = "reads" /\ stdin = "closed" /\ reader' = "ended" /\ Sends(<<"eof">>)
  /\ UNCHANGED <<kind, typed, stdin, interrupted, clientRun, result, printed, down, conn, child,
                 written, pipe, broken, pump, copier, waited, rm>>

Interrupt ==
  /\ ~interrupted /\ clientRun # "returned" /\ interrupted' = TRUE
  /\ UNCHANGED <<kind, typed, stdin, reader, clientRun, result, printed, up, down, conn, child,
                 written, pipe, broken, pump, copier, waited, rm>>

-----------------------------------------------------------------------------
(* The holder: run, pumpStdin, and os/exec. *)

\* The command starts, or msgError says why not.
Starts ==
  /\ child = "none" /\ ~waited
  /\ \/ child' = "runs" /\ UNCHANGED <<down, conn, waited>>
     \/ waited' = TRUE /\ UNCHANGED child
          /\ IF conn = "up" THEN down' = Append(down, "error") /\ conn' = "closed"
                            ELSE UNCHANGED <<down, conn>>
  /\ UNCHANGED <<kind, typed, stdin, interrupted, reader, clientRun, result, printed, up,
                 written, pipe, broken, pump, copier, rm>>

\* A line goes to os/exec's copier, which ends on a command that is gone; the
\* pipe closed after Wait, or anything else, cancels the command.
PumpsLine ==
  /\ child # "none" /\ pump = "reads" /\ up # <<>> /\ Head(up) = "line"
  /\ \/ copier = "reads" /\ up' = Tail(up) /\ UNCHANGED <<child, pump>>
          /\ copier' = (IF child = "ended" THEN "ended" ELSE "reads")
     \/ copier = "ended" /\ waited /\ up' = Tail(up) /\ pump' = "ended" /\ child' = "ended"
          /\ UNCHANGED copier
  /\ UNCHANGED <<kind, typed, stdin, interrupted, reader, clientRun, result, printed, down,
                 conn, written, pipe, broken, waited, rm>>

\* Mutant: the frame is taken and the pipe left open.
LeavesItOpen ==
  /\ child # "none" /\ pump = "reads" /\ up # <<>> /\ Head(up) = "eof"
  /\ up' = Tail(up) /\ pump' = "ended"
  /\ UNCHANGED <<kind, typed, stdin, interrupted, reader, clientRun, result, printed, down,
                 conn, child, written, pipe, broken, copier, waited, rm>>

\* pumpStdin returns and its deferred Close ends the copier.
PumpsEnd ==
  /\ child # "none" /\ pump = "reads" /\ up # <<>> /\ Head(up) = "eof"
  /\ up' = Tail(up) /\ pump' = "ended" /\ copier' = "ended"
  /\ UNCHANGED <<kind, typed, stdin, interrupted, reader, clientRun, result, printed, down,
                 conn, child, written, pipe, broken, waited, rm>>

\* A connection that is gone cancels the command - while somebody reads it.
PumpLosesConn ==
  /\ child # "none" /\ pump = "reads" /\ up = <<>> /\ conn # "up"
  /\ pump' = "ended" /\ copier' = "ended" /\ child' = "ended"
  /\ UNCHANGED <<kind, typed, stdin, interrupted, reader, clientRun, result, printed, up,
                 down, conn, written, pipe, broken, waited, rm>>

\* A command whose output nobody copies any more dies of its next write.
Writes ==
  /\ child = "runs" /\ written < MaxOutput
  /\ IF broken THEN child' = "ended" /\ UNCHANGED <<written, pipe>>
               ELSE written' = written + 1 /\ pipe' = pipe + 1 /\ UNCHANGED child
  /\ UNCHANGED <<kind, typed, stdin, interrupted, reader, clientRun, result, printed, up,
                 down, conn, broken, pump, copier, waited, rm>>

Exits ==
  /\ child = "runs" /\ (kind = "ls" \/ (kind = "cat" /\ copier = "ended"))
  /\ child' = "ended"
  /\ UNCHANGED <<kind, typed, stdin, interrupted, reader, clientRun, result, printed, up,
                 down, conn, written, pipe, broken, pump, copier, waited, rm>>

\* msgWriter frames it, or learns that the connection is gone.
CopiesOutput ==
  /\ pipe > 0 /\ ~waited
  /\ IF conn = "up" THEN pipe' = pipe - 1 /\ down' = Append(down, "output") /\ UNCHANGED broken
                    ELSE pipe' = 0 /\ broken' = TRUE /\ UNCHANGED down
  /\ UNCHANGED <<kind, typed, stdin, interrupted, reader, clientRun, result, printed, up,
                 conn, child, written, pump, copier, waited, rm>>

\* Mutant: with StdoutPipe, Wait returned with the process, whatever was unread.
ProcessIsGone == child = "ended" /\ copier = "ended"

\* Wait returns when the process is gone and both copiers are done.
WaitReturns == child = "ended" /\ copier = "ended" /\ pipe = 0

\* Then the exit frame, and serveConn's caller closes the connection.
HolderWaits ==
  /\ WaitReturns /\ ~waited /\ waited' = TRUE
  /\ IF conn = "up" THEN down' = Append(down, "exit") /\ conn' = "closed"
                    ELSE UNCHANGED <<down, conn>>
  /\ UNCHANGED <<kind, typed, stdin, interrupted, reader, clientRun, result, printed, up, child,
                 written, pipe, broken, pump, copier, rm>>

\* The relay, a laptop that sleeps: what was in flight goes with it.
Cut ==
  /\ conn = "up" /\ conn' = "cut" /\ up' = <<>> /\ down' = <<>>
  /\ UNCHANGED <<kind, typed, stdin, interrupted, reader, clientRun, result, printed, child,
                 written, pipe, broken, pump, copier, waited, rm>>

-----------------------------------------------------------------------------
(* Client.Run. *)

ReadsFrame ==
  /\ clientRun = "runs" /\ down # <<>> /\ down' = Tail(down)
  /\ \/ Head(down) = "output" /\ printed' = printed + 1 /\ UNCHANGED <<clientRun, result>>
     \/ Head(down) = "exit" /\ clientRun' = "drains" /\ result' = "status" /\ UNCHANGED printed
     \/ Head(down) = "error" /\ clientRun' = "drains" /\ result' = "error" /\ UNCHANGED printed
  /\ UNCHANGED <<kind, typed, stdin, interrupted, reader, up, conn, child, written, pipe,
                 broken, pump, copier, waited, rm>>

\* An end of file waits for the reader as an exit does; another error does not.
ReadsLoss ==
  /\ clientRun = "runs" /\ down = <<>> /\ conn # "up" /\ result' = "error"
  /\ clientRun' \in (IF conn = "cut" THEN {"drains", "returned"} ELSE {"drains"})
  /\ UNCHANGED <<kind, typed, stdin, interrupted, reader, printed, up, down, conn, child,
                 written, pipe, broken, pump, copier, waited, rm>>

\* <-stdinDone.
Returns ==
  /\ clientRun = "drains" /\ reader = "ended" /\ clientRun' = "returned"
  /\ conn' = (IF conn = "up" THEN "closed" ELSE conn)
  /\ UNCHANGED <<kind, typed, stdin, interrupted, reader, result, printed, up, down, child,
                 written, pipe, broken, pump, copier, waited, rm>>

-----------------------------------------------------------------------------
(* slopball box rm, from another terminal. *)

\* Shutdown: the frame arrives and the host stops, its holder's context with it;
\* or it does not arrive, which a warning says of a box of one's own.
RmSignals ==
  /\ rm = "none" /\ rm' = "signalled"
  /\ child' \in {child, IF child = "runs" THEN "ended" ELSE child}
  /\ UNCHANGED <<kind, typed, stdin, interrupted, reader, clientRun, result, printed, up,
                 down, conn, written, pipe, broken, pump, copier, waited>>

\* DestroyBox: the service removes a container of its own, and what it served.
RmDestroys ==
  /\ rm = "signalled" /\ rm' = "destroyed"
  /\ \/ conn = "up" /\ conn' = "cut" /\ up' = <<>> /\ down' = <<>>
     \/ UNCHANGED <<conn, up, down>>
  /\ UNCHANGED <<kind, typed, stdin, interrupted, reader, clientRun, result, printed, child,
                 written, pipe, broken, pump, copier, waited>>

-----------------------------------------------------------------------------

\* What the program does once it can; the user, the network and the command's own
\* writing are under no obligation.
Runs ==
  \/ ReadsEnd \/ Starts \/ PumpsLine \/ PumpsEnd \/ PumpLosesConn \/ Exits \/ CopiesOutput
  \/ HolderWaits \/ ReadsFrame \/ ReadsLoss \/ Returns

ExecNext ==
  \/ Runs \/ Types \/ CloseStdin \/ Interrupt \/ Writes \/ Cut \/ RmSignals \/ RmDestroys

ExecFairness == WF_execVars(Runs)

ExecSpec == ExecInit /\ [][ExecNext]_execVars /\ ExecFairness

-----------------------------------------------------------------------------
(* Properties. *)

\* An exit status comes with all the command wrote: "returned the correct exit
\* status with no output, on a loaded box" (boxexec/holder.go:149) is over.
OutputIsWhole == result = "status" => printed = written

\* Once its input has ended, a command that does not run for ever is over on the
\* client too, whatever the connection does.
ExecReturns == (stdin = "closed" /\ kind # "serves") ~> (clientRun = "returned")

\* "streaming stdio until exit" (boxexec/client.go:31): at a terminal where nobody
\* types, the command exits and Run does not return.
ReturnsWithTheCommand == (child = "ended") ~> (clientRun = "returned")

\* The caller's context is the bound on a command (boxexec/holder.go:154); the
\* client never closes the connection for it.
InterruptEnds == interrupted ~> (clientRun = "returned")

\* Nor is a lost connection, once its input has ended: nobody reads it any more.
LostConnectionKills == (conn = "cut") ~> (child # "runs")

=============================================================================
