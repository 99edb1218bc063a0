------------------------------ MODULE Ranking ------------------------------
(***************************************************************************)
(* placement/placement.go: which member should run which service.  Every   *)
(* daemon evaluates these operators over its own copy of the session        *)
(* document; they have no state.                                            *)
(*                                                                          *)
(* A document is [lease, presence, world]: who owns which lease, which      *)
(* members are online, and one number for everything else the fingerprint   *)
(* reads (generation, endpoint URLs, main).  What Rank reads of a member    *)
(* besides its presence is the constant Profile.                            *)
(***************************************************************************)
EXTENDS Integers, Sequences

CONSTANTS
  Member,     \* the roster
  NoOne,      \* the empty owner
  Services,   \* controlplane.Services, the order a tick visits them in
  Profile     \* what a member reports about itself

Service == {Services[i] : i \in 1 .. Len(Services)}

ProfileType ==
  [role : {"client", "box"}, runs : BOOLEAN, harness : BOOLEAN,
   height : Nat, score : Nat, id : Nat]

ASSUME NoOneAssumption == NoOne \notin Member
ASSUME ServicesAssumption ==
  /\ Services \in Seq({"git", "dev", "conductor"})
  /\ Len(Services) > 0
  /\ \A i, j \in 1 .. Len(Services) : Services[i] = Services[j] => i = j
ASSUME ProfileAssumption ==
  /\ Profile \in [Member -> ProfileType]
  /\ \A m, n \in Member : Profile[m].id = Profile[n].id => m = n

-----------------------------------------------------------------------------
Presence == {"online", "away", "left"}

Lease == [owner : Member \cup {NoOne}, live : BOOLEAN]

Free == [owner |-> NoOne, live |-> FALSE]
OwnedBy(m) == [owner |-> m, live |-> TRUE]

Document == [lease : [Service -> Lease], presence : [Member -> Presence], world : Nat]

\* Eligibility: git runs anywhere, dev where the runtime matches the stack,
\* the conductor where a harness is and never on a box.
CanRun(m, s) ==
  \/ s = "git"
  \/ s = "dev" /\ Profile[m].runs
  \/ s = "conductor" /\ Profile[m].role # "box" /\ Profile[m].harness

Eligible(doc, s) == {m \in Member : doc.presence[m] = "online" /\ CanRun(m, s)}

Boxed(m, s) == s # "conductor" /\ Profile[m].role = "box"
Freshness(m, s) == IF s = "git" THEN Profile[m].height ELSE 0

\* less: a box first, then (git only) the freshest mirror, then the score,
\* then the member id.
Outranks(a, b, s) ==
  \/ Boxed(a, s) /\ ~ Boxed(b, s)
  \/ /\ Boxed(a, s) <=> Boxed(b, s)
     /\ \/ Freshness(a, s) > Freshness(b, s)
        \/ /\ Freshness(a, s) = Freshness(b, s)
           /\ \/ Profile[a].score > Profile[b].score
              \/ /\ Profile[a].score = Profile[b].score
                 /\ Profile[a].id < Profile[b].id

IsBest(doc, s, m) ==
  /\ m \in Eligible(doc, s)
  /\ \A n \in Eligible(doc, s) : ~ Outranks(n, m, s)

Holds(doc, s, m) == doc.lease[s].owner = m /\ doc.lease[s].live

ShouldClaim(doc, s, m) == ~ doc.lease[s].live /\ IsBest(doc, s, m)

\* StateFingerprint: owners (not expiry), roster (not heartbeats), the rest.
Fingerprint(doc) ==
  [owner  |-> [s \in Service |-> doc.lease[s].owner],
   roster |-> {m \in Member : doc.presence[m] # "left"},
   world  |-> doc.world]
=============================================================================
