------------------------------- MODULE MCHost -------------------------------
(***************************************************************************)
(* What a host has, for model checking: the line of history it carries    *)
(* on, and the conductor's fleet.  Each has a specification of its own    *)
(* and none reads the other's variables, so one of them moves in a        *)
(* behaviour (part) and the other stays in an initial state.              *)
(***************************************************************************)
EXTENDS Hosting, Fleet

VARIABLE part

TypeOK ==
  /\ part \in {"hosting", "fleet"}
  /\ HostTypeOK /\ FleetTypeOK

\* A part that does not move has one initial state.
Init ==
  /\ part \in {"hosting", "fleet"}
  /\ HostInit /\ FleetInit
  /\ part # "fleet" => scene = "scaffold" /\ ~hub.project /\ ~afar

Next ==
  /\ \/ part = "hosting" /\ HostNext /\ UNCHANGED fleetVars
     \/ part = "fleet" /\ FleetNext /\ UNCHANGED hostVars
  /\ UNCHANGED part

\* Each component's own fairness, where it is the one that moves.
Fairness ==
  /\ \A h \in Box : /\ WF_hostVars(part = "hosting" /\ StandsUp(h))
                    /\ WF_hostVars(part = "hosting" /\ Hosts(h))
  /\ \A j \in Joiner : WF_hostVars(part = "hosting" /\ Promotes(j))
  /\ WF_hostVars(part = "hosting" /\ lease # Nowhere /\ ~Renews(lease) /\ Lapses)
  /\ WF_fleetVars(part = "fleet" /\ (BeginTick \/ EndTick \/ Merge))
  /\ WF_fleetVars(part = "fleet" /\ (Watch \/ Fix))
  /\ WF_fleetVars(part = "fleet" /\ FloorPasses)
  /\ WF_fleetVars(part = "fleet" /\ (Ripen \/ CoolOff))
  /\ \A f \in Fleets : WF_fleetVars(part = "fleet" /\ Setting(f))

vars == <<part, hostVars, fleetVars>>

Spec == Init /\ [][Next]_vars /\ Fairness

-----------------------------------------------------------------------------
\* The session goes on as one: whatever is published carries its history on, who
\* writes as the host is the one it names, and what a scaffold lands on main still
\* carries the protocol.
OneSession == OneHistory /\ OneHost /\ ScaffoldKeepsProtocol

\* The conductor goes on: what is ahead is merged while an agent works, and a
\* brief becomes a project.
FleetGoesOn == AheadIsMerged /\ BriefBecomesProject
=============================================================================
