----------------------------- MODULE MCSession ------------------------------
(***************************************************************************)
(* What connects the machines of a session, for model checking: the       *)
(* network's calls, the knocks and the feed, a box that is provisioned,   *)
(* and the telemetry.  Each has a specification of its own and none reads *)
(* another's variables, so one of them moves in a behaviour (part) and    *)
(* the others stay in an initial state.                                   *)
(***************************************************************************)
EXTENDS Splice, Admission, Provisioning, Telemetry

VARIABLE part

TypeOK ==
  /\ part \in {"net", "admission", "box", "telemetry"}
  /\ NetTypeOK /\ AdmissionTypeOK /\ BoxTypeOK /\ TelTypeOK

\* A part that does not move has one initial state.
Init ==
  /\ part \in {"net", "admission", "box", "telemetry"}
  /\ NetInit /\ AdmissionInit /\ BoxInit /\ TelInit
  /\ part # "net" => tunnel = "none" /\ nearby = "no"
  /\ part # "box" =>
       /\ flow = "add" /\ ~networked /\ image = "none" /\ ~earlier
       /\ opts = CHOOSE o \in Options : TRUE

Next ==
  /\ \/ /\ part = "net" /\ NetNext
        /\ UNCHANGED <<admissionVars, boxVars, telVars>>
     \/ /\ part = "admission" /\ AdmissionNext
        /\ UNCHANGED <<netVars, boxVars, telVars>>
     \/ /\ part = "box" /\ BoxNext
        /\ UNCHANGED <<netVars, admissionVars, telVars>>
     \/ /\ part = "telemetry" /\ TelNext
        /\ UNCHANGED <<netVars, admissionVars, boxVars>>
  /\ UNCHANGED part

\* Each component's own fairness, where it is the one that moves.
Fairness ==
  /\ \A c \in Call : /\ WF_netVars(part = "net" /\ Client(c))
                     /\ WF_netVars(part = "net" /\ AtRelay(c))
                     /\ WF_netVars(part = "net" /\ AtHolder(c))
                     /\ WF_netVars(part = "net" /\ Notices(c))
  /\ \A j \in Newcomer :
       WF_admissionVars(part = "admission" /\ (\/ Asks(j) \/ Redeems(j) \/ Answered(j)
                                               \/ Persists(j) \/ KnocksAgain(j)))
  /\ WF_admissionVars(part = "admission" /\ (FrameArrives \/ Reconnects))
  /\ WF_admissionVars(part = "admission" /\ (Ticks \/ ReadsQueue))
  /\ WF_admissionVars(part = "admission" /\ Moves)
  /\ SF_admissionVars(part = "admission" /\ Accepts)
  /\ WF_boxVars(part = "box" /\ Command)
  /\ WF_boxVars(part = "box" /\ (BoxClaims \/ BoxAnnounces))
  /\ WF_boxVars(part = "box" /\ Provisioner)
  /\ \A e \in Emitters : WF_telVars(part = "telemetry" /\ DeliversOn(e))
  /\ \A c \in Cycle : WF_telVars(part = "telemetry" /\ (Installs(c) \/ CloseReturns(c)))

vars == <<part, netVars, admissionVars, boxVars, telVars>>

Spec == Init /\ [][Next]_vars /\ Fairness

-----------------------------------------------------------------------------
\* What members are told is so: the counts of the telemetry, the events of the
\* feed, and the box that a provision reports.
WhatIsToldIsSo == GapIsTold /\ FeedIsWhole /\ ReportsTheBox

\* Who calls comes back: a Dial, a cycle that closes an emitter, and a provision.
WhoCallsComesBack == DialReturns /\ CloseComesBack /\ (part = "box" => CommandEnds)

\* A knock gets onto the users tab, and a machine that keeps asking gets in.
KnocksArrive == KnockIsSeen /\ (part = "admission" => KnockGetsIn)
=============================================================================
