------------------------------- MODULE Splice -------------------------------
(***************************************************************************)
(* A connection to a service of the session: Dialer.Dial, with its direct   *)
(* attempt (sessionnet/dial.go), Relay.connect, acceptData and splice       *)
(* (sessionnet/relay.go), the holder's openData and handleDirect            *)
(* (sessionnet/holder.go), and the handshake between the two ends           *)
(* (sessionnet/conn.go).                                                    *)
(*                                                                          *)
(* Each call is a stream of its own.  The windows nest: the relay waits 15  *)
(* seconds for a holder, a client 20 for the relay, a handshake 20 for its  *)
(* peer; so on links that deliver it is the relay that gives up first.      *)
(***************************************************************************)
EXTENDS Naturals, FiniteSets

CONSTANTS
  Call,       \* the calls there will be
  MaxSplices, \* Relay.MaxConcurrentSplices
  NetFaults,  \* what may go wrong, see NetFaultKinds
  MaxNetFaults \* bound on how often

\* "drop": the holder's registration goes; "dial": a connection is refused;
\* "quiet": a link delivers nothing any more; "late": the holder's connection
\* takes longer than the relay waits; "limit": the client's bucket is empty.
NetFaultKinds == {"drop", "dial", "quiet", "late", "limit"}

ASSUME NetAssumption ==
  /\ IsFiniteSet(Call) /\ MaxSplices \in Nat
  /\ NetFaults \subseteq NetFaultKinds /\ MaxNetFaults \in Nat

VARIABLES
  tunnel,  \* the holder's control connection, as the relay has it
  nearby,  \* a direct address is published
  call,    \* where Dial is
  reply,   \* what the relay answered, not yet read
  door,    \* where connect is
  splices, \* Relay.splices
  waiting, \* Relay.waiting
  data,    \* the holder's data connection: the relay's end
  hold,    \* openData: the holder's end
  silent,  \* the links that deliver nothing: <<call, "near">> or <<call, "far">>
  cutShort, \* history: calls whose direct handshake the budget ended
  netSpent

netVars == <<tunnel, nearby, call, reply, door, splices, waiting, data, hold,
             silent, cutShort, netSpent>>

NetTypeOK ==
  /\ tunnel \in {"none", "up", "quiet"} /\ nearby \in {"no", "peer", "stranger", "dead"}
  /\ call \in [Call -> {"idle", "greet", "direct", "relay", "shake", "open", "failed",
                        "over"}]
  /\ reply \in [Call -> {"none", "ok", "refused"}]
  /\ door \in [Call -> {"none", "arrived", "slot", "asked", "splice", "gone"}]
  /\ splices \in 0 .. MaxSplices /\ waiting \subseteq Call
  /\ splices = Cardinality({c \in Call : door[c] \in {"slot", "asked", "splice"}})
  /\ data \in [Call -> {"none", "asked", "coming", "found", "boxed", "spliced", "shut"}]
  /\ hold \in [Call -> {"none", "shake", "open", "closed"}]
  /\ silent \subseteq Call \X {"near", "far"} /\ cutShort \subseteq Call
  /\ netSpent \in 0 .. MaxNetFaults

NetInit ==
  /\ tunnel \in {"none", "up"} /\ nearby \in {"no", "peer", "stranger", "dead"}
  /\ call = [c \in Call |-> "idle"] /\ reply = [c \in Call |-> "none"]
  /\ door = [c \in Call |-> "none"] /\ splices = 0 /\ waiting = {}
  /\ data = [c \in Call |-> "none"] /\ hold = [c \in Call |-> "none"]
  /\ silent = {} /\ cutShort = {} /\ netSpent = 0

NetFault(kind) ==
  kind \in NetFaults /\ netSpent < MaxNetFaults /\ netSpent' = netSpent + 1

CallIs(c, to) == call' = [call EXCEPT ![c] = to]
DoorIs(c, to) == door' = [door EXCEPT ![c] = to]
DataIs(c, to) == data' = [data EXCEPT ![c] = to]
HoldIs(c, to) == hold' = [hold EXCEPT ![c] = to]
Delivers(c, side) == <<c, side>> \notin silent

-----------------------------------------------------------------------------
(* The holder's registration, as Registration has it. *)

Registers ==
  /\ tunnel # "up" /\ tunnel' = "up"
  /\ UNCHANGED <<nearby, call, reply, door, splices, waiting, data, hold, silent,
                 cutShort, netSpent>>

TunnelGoes ==
  /\ tunnel = "up" /\ NetFault("drop")
  /\ tunnel' \in {"none", "quiet"}
  /\ UNCHANGED <<nearby, call, reply, door, splices, waiting, data, hold, silent,
                 cutShort>>

LinkGoesQuiet(c) ==
  /\ NetFault("quiet")
  /\ \/ door[c] # "none" /\ silent' = silent \cup {<<c, "near">>}
     \/ data[c] \notin {"none", "asked"} /\ silent' = silent \cup {<<c, "far">>}
  /\ UNCHANGED <<tunnel, nearby, call, reply, door, splices, waiting, data, hold,
                 cutShort>>

-----------------------------------------------------------------------------
(* Dialer.Dial. *)

\* With an address to try, the direct way first; a connection to the relay that
\* is refused ends the call.
StartDial(c) ==
  /\ call[c] = "idle"
  /\ \/ nearby # "no" /\ CallIs(c, "greet") /\ UNCHANGED <<door, netSpent>>
     \/ nearby = "no" /\ CallIs(c, "relay") /\ DoorIs(c, "arrived") /\ UNCHANGED netSpent
     \/ nearby = "no" /\ CallIs(c, "failed") /\ NetFault("dial") /\ UNCHANGED door
  /\ UNCHANGED <<tunnel, nearby, reply, splices, waiting, data, hold, silent, cutShort>>

\* Nobody at that address, or no greeting within the budget: the relay it is.
DirectFails(c) ==
  /\ call[c] = "greet"
  /\ IF nearby = "dead" THEN UNCHANGED netSpent ELSE NetFault("dial")
  /\ CallIs(c, "relay") /\ DoorIs(c, "arrived")
  /\ UNCHANGED <<tunnel, nearby, reply, splices, waiting, data, hold, silent, cutShort>>

\* Whoever listens there greets, and says nothing of what it holds.
DirectGreets(c) ==
  /\ call[c] = "greet" /\ nearby \in {"peer", "stranger"}
  /\ CallIs(c, "direct") /\ HoldIs(c, IF nearby = "peer" THEN "shake" ELSE "none")
  /\ UNCHANGED <<tunnel, nearby, reply, door, splices, waiting, data, silent,
                 cutShort, netSpent>>

\* Any handshake that fails is final, also one that the budget cut short.
DirectShakes(c) ==
  /\ call[c] = "direct"
  /\ \/ /\ nearby = "peer" /\ CallIs(c, "open") /\ HoldIs(c, "open")
        /\ UNCHANGED <<cutShort, netSpent>>
     \/ /\ nearby = "stranger" /\ CallIs(c, "failed")
        /\ UNCHANGED <<hold, cutShort, netSpent>>
     \/ /\ NetFault("quiet") /\ cutShort' = cutShort \cup {c}
        /\ CallIs(c, "failed") /\ HoldIs(c, "closed")
  /\ UNCHANGED <<tunnel, nearby, reply, door, splices, waiting, data, silent>>

\* The relay's answer.
ReadReply(c) ==
  /\ call[c] = "relay" /\ reply[c] # "none" /\ Delivers(c, "near")
  /\ CallIs(c, IF reply[c] = "ok" THEN "shake" ELSE "failed")
  /\ UNCHANGED <<tunnel, nearby, reply, door, splices, waiting, data, hold, silent,
                 cutShort, netSpent>>

\* The client's two windows: for the answer, and for the handshake.
ClientGivesUp(c) ==
  /\ \/ call[c] = "relay" /\ ~Delivers(c, "near")
     \/ call[c] = "shake" /\ (door[c] # "splice" \/ ~Delivers(c, "near") \/ ~Delivers(c, "far")
                              \/ hold[c] = "closed")
  /\ CallIs(c, "failed")
  /\ UNCHANGED <<tunnel, nearby, reply, door, splices, waiting, data, hold, silent,
                 cutShort, netSpent>>

\* Both ends have written and read their halves.
Shake(c) ==
  /\ call[c] = "shake" /\ hold[c] = "shake" /\ door[c] = "splice"
  /\ Delivers(c, "near") /\ Delivers(c, "far")
  /\ CallIs(c, "open") /\ HoldIs(c, "open")
  /\ UNCHANGED <<tunnel, nearby, reply, door, splices, waiting, data, silent,
                 cutShort, netSpent>>

\* Either end is done with the connection.
HangUp(c) ==
  /\ \/ call[c] = "open" /\ CallIs(c, "over") /\ UNCHANGED hold
     \/ hold[c] = "open" /\ HoldIs(c, "closed") /\ UNCHANGED call
  /\ UNCHANGED <<tunnel, nearby, reply, door, splices, waiting, data, silent,
                 cutShort, netSpent>>

\* One end learns that the other has gone or, on a link that is quiet, TCP gives
\* up.
Notices(c) ==
  LET direct == door[c] = "none"
      near == IF direct THEN hold[c] = "closed" ELSE door[c] = "gone" \/ ~Delivers(c, "near")
      far == IF direct THEN call[c] \in {"failed", "over"}
             ELSE data[c] = "shut" \/ ~Delivers(c, "far")
  IN /\ \/ call[c] = "open" /\ near /\ CallIs(c, "over") /\ UNCHANGED hold
        \/ hold[c] \in {"shake", "open"} /\ far /\ HoldIs(c, "closed") /\ UNCHANGED call
     /\ UNCHANGED <<tunnel, nearby, reply, door, splices, waiting, data, silent,
                    cutShort, netSpent>>

-----------------------------------------------------------------------------
(* The relay. *)

\* Mutant: the slot is given back where a splice ends.
ReleasedBySplice(c) == IF door[c] = "splice" THEN splices - 1 ELSE splices

\* The deferred releaseSpliceSlot.
ReleasedSlot(c) == splices - 1

\* connect returns, and the client's connection is closed.
Leave(c, answer) ==
  /\ DoorIs(c, "gone") /\ splices' = ReleasedSlot(c) /\ waiting' = waiting \ {c}
  /\ reply' = [reply EXCEPT ![c] = answer]

\* allowConnect and takeSpliceSlot.
Admit(c) ==
  /\ door[c] = "arrived"
  /\ \/ /\ splices < MaxSplices
        /\ splices' = splices + 1 /\ DoorIs(c, "slot") /\ UNCHANGED <<reply, netSpent>>
     \/ /\ IF splices < MaxSplices THEN NetFault("limit") ELSE UNCHANGED netSpent
        /\ DoorIs(c, "gone") /\ reply' = [reply EXCEPT ![c] = "refused"]
        /\ UNCHANGED splices
  /\ UNCHANGED <<tunnel, nearby, call, waiting, data, hold, silent, cutShort>>

\* The holder is looked up and asked; on a link that is quiet it is not reached.
Ask(c) ==
  /\ door[c] = "slot"
  /\ IF tunnel = "none"
     THEN Leave(c, "refused") /\ UNCHANGED data
     ELSE /\ waiting' = waiting \cup {c} /\ DoorIs(c, "asked")
          /\ DataIs(c, IF tunnel = "up" THEN "asked" ELSE "none")
          /\ UNCHANGED <<splices, reply>>
  /\ UNCHANGED <<tunnel, nearby, call, hold, silent, cutShort, netSpent>>

\* openData
HolderDials(c) ==
  /\ data[c] = "asked"
  /\ \/ DataIs(c, "coming") /\ HoldIs(c, "shake") /\ UNCHANGED netSpent
     \/ DataIs(c, "none") /\ NetFault("dial") /\ UNCHANGED hold
  /\ UNCHANGED <<tunnel, nearby, call, reply, door, splices, waiting, silent, cutShort>>

\* acceptData finds the channel, or closes the connection,
FindsChannel(c) ==
  /\ data[c] = "coming" /\ Delivers(c, "far")
  /\ DataIs(c, IF c \in waiting THEN "found" ELSE "shut")
  /\ UNCHANGED <<tunnel, nearby, call, reply, door, splices, waiting, hold, silent,
                 cutShort, netSpent>>

\* and puts the connection into it, whether or not somebody still waits.
PutsIn(c) ==
  /\ data[c] = "found"
  /\ DataIs(c, "boxed")
  /\ UNCHANGED <<tunnel, nearby, call, reply, door, splices, waiting, hold, silent,
                 cutShort, netSpent>>

\* A client that is seen to be gone takes both with it.
TakesOut(c) ==
  /\ door[c] = "asked" /\ data[c] = "boxed"
  /\ IF call[c] = "failed" /\ Delivers(c, "near")
     THEN Leave(c, "none") /\ DataIs(c, "shut")
     ELSE /\ DoorIs(c, "splice") /\ DataIs(c, "spliced")
          /\ reply' = [reply EXCEPT ![c] = "ok"] /\ UNCHANGED <<splices, waiting>>
  /\ UNCHANGED <<tunnel, nearby, call, hold, silent, cutShort, netSpent>>

\* Mutant: nobody counts the 15 seconds.
NeverTimesOut(c) == FALSE

\* The holder has not come in time: it was not reached, cannot be, or is late.
TimesOut(c) ==
  door[c] = "asked" /\ (data[c] = "none" \/ (data[c] = "coming" /\ ~Delivers(c, "far")))

GiveUp(c) ==
  /\ \/ TimesOut(c) /\ UNCHANGED netSpent
     \/ door[c] = "asked" /\ ~TimesOut(c) /\ NetFault("late")
  /\ Leave(c, "refused")
  /\ UNCHANGED <<tunnel, nearby, call, data, hold, silent, cutShort>>

\* A copy ends when its end closes or, on a link that is quiet, when TCP gives up;
\* either ends the splice, and both connections.
SpliceEnds(c) ==
  /\ door[c] = "splice"
  /\ call[c] \in {"failed", "over"} \/ hold[c] = "closed"
     \/ ~Delivers(c, "near") \/ ~Delivers(c, "far")
  /\ Leave(c, reply[c]) /\ DataIs(c, "shut")
  /\ UNCHANGED <<tunnel, nearby, call, hold, silent, cutShort, netSpent>>

\* Mutant: the responder waits for its peer without a deadline.
WaitsForever(c) == FALSE

\* The holder's handshake window.
WindowCloses(c) ==
  hold[c] = "shake" /\ door[c] # "none" /\ (door[c] # "splice" \/ call[c] # "shake")

\* Its window closes while nobody speaks to it; or its handshake fails; and the
\* relay's end of a connection that nobody took out of the channel goes with it.
HolderGivesUp(c) ==
  /\ \/ WindowCloses(c) /\ (door[c] = "gone" \/ ~Delivers(c, "far")) /\ HoldIs(c, "closed")
        /\ UNCHANGED data
     \/ /\ hold[c] = "closed" /\ c \notin waiting
        /\ data[c] = "boxed" \/ (data[c] = "coming" /\ ~Delivers(c, "far"))
        /\ DataIs(c, "shut") /\ UNCHANGED hold
  /\ UNCHANGED <<tunnel, nearby, call, reply, door, splices, waiting, silent,
                 cutShort, netSpent>>

-----------------------------------------------------------------------------
Client(c) ==
  \/ StartDial(c) \/ DirectFails(c) \/ DirectGreets(c) \/ DirectShakes(c)
  \/ ReadReply(c) \/ ClientGivesUp(c) \/ Shake(c)
AtRelay(c) ==
  Admit(c) \/ Ask(c) \/ FindsChannel(c) \/ PutsIn(c) \/ TakesOut(c) \/ GiveUp(c)
    \/ SpliceEnds(c)
AtHolder(c) == HolderDials(c) \/ HolderGivesUp(c)

NetNext ==
  \/ Registers \/ TunnelGoes
  \/ \E c \in Call : LinkGoesQuiet(c) \/ Client(c) \/ AtRelay(c) \/ AtHolder(c)
                     \/ Notices(c) \/ HangUp(c)

NetSpec == NetInit /\ [][NetNext]_netVars

\* Every window ends and every handler runs on; nobody need hang up.
NetFairness ==
  \A c \in Call :
    /\ WF_netVars(Client(c)) /\ WF_netVars(AtRelay(c))
    /\ WF_netVars(AtHolder(c)) /\ WF_netVars(Notices(c))

NetFairSpec == NetSpec /\ NetFairness

-----------------------------------------------------------------------------
\* Whatever goes quiet, drops or is late, a Dial returns.
DialReturns ==
  \A c \in Call : [](call[c] # "idle" => <>(call[c] \in {"open", "failed", "over"}))

\* What a call used is given back once it is over: its place among the waiting,
\* its slot, and both ends of the holder's connection, the one that came too late
\* too.
NothingStays ==
  (<>[](\A c \in Call : call[c] \in {"idle", "failed", "over"}))
    => <>[](/\ splices = 0 /\ waiting = {}
            /\ \A c \in Call : /\ data[c] \in {"none", "shut"}
                               /\ hold[c] \in {"none", "closed"})

\* What the comment on Dial says: the direct path is an optimisation, the relay
\* the mechanism; a direct peer that goes silent is no reason to fail.
SilentPeerFallsBack == \A c \in cutShort : call[c] # "failed"
=============================================================================
