---------------------------- MODULE SessionProofs ---------------------------
(***************************************************************************)
(* That what members of a session are told is so, for any calls, machines,  *)
(* cycles, bounds and faults: every variable of MCSession keeps its type,   *)
(* no gap in the telemetry goes untold, the feed shows every event once and *)
(* in order, a provision reports the box, and the selection on the users    *)
(* tab moves only when the user moves it.                                   *)
(***************************************************************************)
EXTENDS MCSession, FiniteSetTheorems, SequenceTheorems, WellFoundedInduction, TLAPS

-----------------------------------------------------------------------------
(* The network's calls.                                                     *)

\* The calls that hold a slot of the relay.
Holds(d) == {c \in Call : d[c] \in {"slot", "asked", "splice"}}

\* The parts of the type invariant.
CallsOK ==
  /\ call \in [Call -> {"idle", "greet", "direct", "relay", "shake", "open", "failed",
                        "over"}]
  /\ reply \in [Call -> {"none", "ok", "refused"}]
  /\ data \in [Call -> {"none", "asked", "coming", "found", "boxed", "spliced", "shut"}]
  /\ hold \in [Call -> {"none", "shake", "open", "closed"}]

LinksOK ==
  /\ tunnel \in {"none", "up", "quiet"} /\ nearby \in {"no", "peer", "stranger", "dead"}
  /\ waiting \subseteq Call
  /\ silent \subseteq Call \X {"near", "far"} /\ cutShort \subseteq Call
  /\ netSpent \in 0 .. MaxNetFaults

\* The relay's counter is the number of those who hold a slot; and nobody knocks at
\* the relay who has not been sent there.
SlotsOK ==
  /\ door \in [Call -> {"none", "arrived", "slot", "asked", "splice", "gone"}]
  /\ splices \in 0 .. MaxSplices /\ splices = Cardinality(Holds(door))
  /\ \A c \in Call : call[c] \in {"idle", "greet"} => door[c] = "none"

NetInv == CallsOK /\ LinksOK /\ SlotsOK

\* The parts make the type invariant of the network.
LEMMA NetInvTypes == NetInv => NetTypeOK
BY DEF NetInv, NetTypeOK, CallsOK, LinksOK, SlotsOK, Holds

\* The slots that are held are counted by a number.
LEMMA HoldsFinite == \A d : IsFiniteSet(Holds(d)) /\ Cardinality(Holds(d)) \in Nat
<1> TAKE d
<1>1. Holds(d) \in SUBSET Call
  BY DEF Holds
<1>2. IsFiniteSet(Call)
  BY NetAssumption
<1>3. IsFiniteSet(Holds(d))
  BY <1>1, <1>2, FS_Subset
<1> QED BY <1>3, FS_CardinalityType

\* A call that is admitted takes a slot, one that leaves gives it back, and any
\* other step at the door changes no slot.
LEMMA DoorCounts ==
  ASSUME SlotsOK, NEW c \in Call, NEW to \in {"arrived", "slot", "asked", "splice", "gone"},
         door' = [door EXCEPT ![c] = to]
  PROVE  Cardinality(Holds(door')) =
           IF c \in Holds(door) /\ to \in {"arrived", "gone"} THEN Cardinality(Holds(door)) - 1
           ELSE IF c \notin Holds(door) /\ to \notin {"arrived", "gone"}
                THEN Cardinality(Holds(door)) + 1
                ELSE Cardinality(Holds(door))
<1>1. IsFiniteSet(Holds(door))
  BY HoldsFinite
<1>2. CASE to \in {"arrived", "gone"}
  <2>1. Holds(door') = Holds(door) \ {c}
    BY <1>2 DEF Holds, SlotsOK
  <2>2. Cardinality(Holds(door) \ {c}) =
          IF c \in Holds(door) THEN Cardinality(Holds(door)) - 1 ELSE Cardinality(Holds(door))
    BY <1>1, FS_RemoveElement
  <2> QED BY <1>2, <2>1, <2>2
<1>3. CASE to \notin {"arrived", "gone"}
  <2>1. Holds(door') = Holds(door) \cup {c}
    BY <1>3 DEF Holds, SlotsOK
  <2>2. Cardinality(Holds(door) \cup {c}) =
          IF c \in Holds(door) THEN Cardinality(Holds(door)) ELSE Cardinality(Holds(door)) + 1
    BY <1>1, FS_AddElement
  <2> QED BY <1>3, <2>1, <2>2
<1> QED BY <1>2, <1>3

\* connect returns: the slot is given back.
LEMMA LeaveCounts ==
  ASSUME NetInv, NEW c \in Call, door[c] \in {"slot", "asked", "splice"},
         NEW answer \in {"none", "ok", "refused"}, Leave(c, answer), UNCHANGED call
  PROVE  SlotsOK' /\ reply' \in [Call -> {"none", "ok", "refused"}] /\ waiting' \subseteq Call
<1>1. door' = [door EXCEPT ![c] = "gone"] /\ splices' = splices - 1
  BY DEF Leave, DoorIs, ReleasedSlot
<1>2. c \in Holds(door) /\ splices = Cardinality(Holds(door)) /\ splices \in 0 .. MaxSplices
  BY DEF NetInv, SlotsOK, Holds
<1>3. Cardinality(Holds(door')) = splices - 1
  BY <1>1, <1>2, DoorCounts DEF NetInv
<1>4. Cardinality(Holds(door')) \in Nat
  BY HoldsFinite
<1>5. splices' \in 0 .. MaxSplices /\ splices' = Cardinality(Holds(door'))
  BY <1>1, <1>2, <1>3, <1>4, NetAssumption
<1>6. SlotsOK'
  <2>1. door' \in [Call -> {"none", "arrived", "slot", "asked", "splice", "gone"}]
    BY <1>1 DEF NetInv, SlotsOK
  <2>2. \A i \in Call : call'[i] \in {"idle", "greet"} => door'[i] = "none"
    BY <1>1 DEF NetInv, SlotsOK
  <2> QED BY <1>5, <2>1, <2>2 DEF SlotsOK
<1> QED BY <1>6 DEF Leave, NetInv, CallsOK, LinksOK

\* Where no door moves, and no call goes back to where it began, no slot does.
LEMMA NoDoor ==
  ASSUME SlotsOK, UNCHANGED <<door, splices>>,
         \A c \in Call : call'[c] \in {"idle", "greet"} => call[c] \in {"idle", "greet"}
  PROVE  SlotsOK'
BY DEF SlotsOK, Holds

\* A fault is spent.
LEMMA FaultSpent == ASSUME NetInv, NEW kind, NetFault(kind) PROVE netSpent' \in 0 .. MaxNetFaults
BY NetAssumption DEF NetFault, NetInv, LinksOK

\* The registration comes and goes, and a link goes quiet.
LEMMA LinksKeep ==
  NetInv /\ (Registers \/ TunnelGoes \/ \E c \in Call : LinkGoesQuiet(c)) => NetInv'
<1> SUFFICES ASSUME NetInv, Registers \/ TunnelGoes \/ \E c \in Call : LinkGoesQuiet(c)
             PROVE  NetInv'
  OBVIOUS
<1>1. UNCHANGED <<call, reply, door, splices, data, hold, waiting, nearby, cutShort>>
  BY DEF Registers, TunnelGoes, LinkGoesQuiet
<1>2. SlotsOK' /\ CallsOK'
  BY <1>1, NoDoor DEF NetInv, CallsOK
<1>3. CASE Registers
  BY <1>1, <1>2, <1>3 DEF Registers, NetInv, LinksOK
<1>4. CASE TunnelGoes
  BY <1>1, <1>2, <1>4, FaultSpent DEF TunnelGoes, NetInv, LinksOK
<1>5. ASSUME NEW c \in Call, LinkGoesQuiet(c) PROVE NetInv'
  BY <1>1, <1>2, <1>5, FaultSpent DEF LinkGoesQuiet, NetInv, LinksOK
<1> QED BY <1>3, <1>4, <1>5

\* A call begins, or gives the direct way up: it arrives at the relay.
LEMMA ArrivesKeeps == \A c \in Call : NetInv /\ (StartDial(c) \/ DirectFails(c)) => NetInv'
<1> SUFFICES ASSUME NetInv, NEW c \in Call, StartDial(c) \/ DirectFails(c) PROVE NetInv'
  OBVIOUS
<1>1. call[c] \in {"idle", "greet"} /\ door[c] = "none"
  BY DEF StartDial, DirectFails, NetInv, SlotsOK
<1>2. netSpent' \in 0 .. MaxNetFaults
  BY FaultSpent DEF StartDial, DirectFails, NetInv, LinksOK
<1>3. LinksOK'
  BY <1>2 DEF StartDial, DirectFails, NetInv, LinksOK
<1>4. CallsOK'
  BY DEF StartDial, DirectFails, CallIs, NetInv, CallsOK
<1>5. SlotsOK'
  <2>1. CASE DoorIs(c, "arrived") /\ CallIs(c, "relay")
    <3>1. door' = [door EXCEPT ![c] = "arrived"] /\ c \notin Holds(door)
      BY <1>1, <2>1 DEF DoorIs, Holds
    <3>2. Cardinality(Holds(door')) = Cardinality(Holds(door))
      BY <3>1, DoorCounts DEF NetInv
    <3>3. splices' = splices
      BY DEF StartDial, DirectFails
    <3> QED BY <2>1, <3>1, <3>2, <3>3 DEF CallIs, NetInv, SlotsOK, CallsOK
  <2>2. CASE UNCHANGED door /\ (CallIs(c, "greet") \/ CallIs(c, "failed"))
    <3>1. UNCHANGED <<door, splices>>
      BY <2>2 DEF StartDial, DirectFails
    <3>2. \A i \in Call : call'[i] \in {"idle", "greet"} => call[i] \in {"idle", "greet"}
      BY <1>1, <2>2 DEF CallIs, NetInv, CallsOK
    <3> QED BY <3>1, <3>2, NoDoor DEF NetInv
  <2> QED BY <2>1, <2>2 DEF StartDial, DirectFails
<1> QED BY <1>3, <1>4, <1>5 DEF NetInv

\* Everything else a client does, and what either end does, changes no slot.
LEMMA EndsKeep ==
  \A c \in Call :
    NetInv /\ (\/ DirectGreets(c) \/ DirectShakes(c) \/ ReadReply(c) \/ ClientGivesUp(c)
               \/ Shake(c) \/ HangUp(c) \/ Notices(c) \/ HolderDials(c) \/ HolderGivesUp(c)
               \/ FindsChannel(c) \/ PutsIn(c)) => NetInv'
<1> SUFFICES ASSUME NetInv, NEW c \in Call,
                    \/ DirectGreets(c) \/ DirectShakes(c) \/ ReadReply(c) \/ ClientGivesUp(c)
                    \/ Shake(c) \/ HangUp(c) \/ Notices(c) \/ HolderDials(c) \/ HolderGivesUp(c)
                    \/ FindsChannel(c) \/ PutsIn(c)
             PROVE  NetInv'
  OBVIOUS
<1>1. SUFFICES /\ CallsOK' /\ UNCHANGED <<tunnel, nearby, waiting, silent, door, splices>>
               /\ cutShort' \subseteq Call /\ netSpent' \in 0 .. MaxNetFaults
               /\ \A i \in Call : call'[i] \in {"idle", "greet"} => call[i] \in {"idle", "greet"}
  BY NoDoor DEF NetInv, LinksOK
<1>2. CASE DirectGreets(c)
  BY <1>2 DEF DirectGreets, CallIs, HoldIs, NetInv, CallsOK, LinksOK
<1>3. CASE DirectShakes(c)
  <2>1. netSpent' \in 0 .. MaxNetFaults
    BY <1>3, FaultSpent DEF DirectShakes, NetInv, LinksOK
  <2> QED BY <1>3, <2>1 DEF DirectShakes, CallIs, HoldIs, NetInv, CallsOK, LinksOK
<1>4. CASE ReadReply(c) \/ ClientGivesUp(c)
  BY <1>4 DEF ReadReply, ClientGivesUp, CallIs, NetInv, CallsOK, LinksOK
<1>5. CASE Shake(c) \/ HangUp(c)
  BY <1>5 DEF Shake, HangUp, CallIs, HoldIs, NetInv, CallsOK, LinksOK
<1>6. CASE Notices(c)
  BY <1>6 DEF Notices, CallIs, HoldIs, NetInv, CallsOK, LinksOK
<1>7. CASE HolderDials(c)
  <2>1. netSpent' \in 0 .. MaxNetFaults
    BY <1>7, FaultSpent DEF HolderDials, NetInv, LinksOK
  <2> QED BY <1>7, <2>1 DEF HolderDials, DataIs, HoldIs, NetInv, CallsOK, LinksOK
<1>8. CASE HolderGivesUp(c)
  BY <1>8 DEF HolderGivesUp, DataIs, HoldIs, NetInv, CallsOK, LinksOK
<1>9. CASE FindsChannel(c) \/ PutsIn(c)
  BY <1>9 DEF FindsChannel, PutsIn, DataIs, NetInv, CallsOK, LinksOK
<1> QED BY <1>2, <1>3, <1>4, <1>5, <1>6, <1>7, <1>8, <1>9

\* A slot is taken while there is one.
LEMMA AdmitKeeps == \A c \in Call : NetInv /\ Admit(c) => NetInv'
<1> SUFFICES ASSUME NetInv, NEW c \in Call, Admit(c) PROVE NetInv'
  OBVIOUS
<1>1. /\ door[c] = "arrived" /\ c \notin Holds(door)
      /\ UNCHANGED <<tunnel, nearby, call, waiting, data, hold, silent, cutShort>>
  BY DEF Admit, Holds
<1>2. netSpent' \in 0 .. MaxNetFaults
  BY FaultSpent DEF Admit, NetInv, LinksOK
<1>3. LinksOK' /\ CallsOK'
  BY <1>1, <1>2 DEF Admit, NetInv, LinksOK, CallsOK
<1>4. CASE splices < MaxSplices /\ splices' = splices + 1 /\ DoorIs(c, "slot")
  <2>1. Cardinality(Holds(door')) = Cardinality(Holds(door)) + 1
    BY <1>1, <1>4, DoorCounts DEF DoorIs, NetInv
  <2>2. splices' \in 0 .. MaxSplices /\ splices' = Cardinality(Holds(door'))
    BY <1>4, <2>1, NetAssumption DEF NetInv, SlotsOK
  <2>3. SlotsOK'
    BY <1>1, <1>4, <2>2 DEF DoorIs, NetInv, SlotsOK
  <2> QED BY <1>3, <2>3 DEF NetInv
<1>5. CASE DoorIs(c, "gone") /\ UNCHANGED splices
  <2>1. Cardinality(Holds(door')) = Cardinality(Holds(door))
    BY <1>1, <1>5, DoorCounts DEF DoorIs, NetInv
  <2>2. SlotsOK'
    BY <1>1, <1>5, <2>1 DEF DoorIs, NetInv, SlotsOK
  <2> QED BY <1>3, <2>2 DEF NetInv
<1> QED BY <1>4, <1>5 DEF Admit

\* A call at the door goes on, or leaves and gives its slot back.
LEMMA DoorKeeps ==
  \A c \in Call : NetInv /\ (Ask(c) \/ TakesOut(c) \/ GiveUp(c) \/ SpliceEnds(c)) => NetInv'
<1> SUFFICES ASSUME NetInv, NEW c \in Call,
                    Ask(c) \/ TakesOut(c) \/ GiveUp(c) \/ SpliceEnds(c)
             PROVE  NetInv'
  OBVIOUS
<1>1. /\ door[c] \in {"slot", "asked", "splice"} /\ c \in Holds(door)
      /\ UNCHANGED <<tunnel, nearby, call, hold, silent, cutShort>>
  BY DEF Ask, TakesOut, GiveUp, TimesOut, SpliceEnds, Holds
<1>2. netSpent' \in 0 .. MaxNetFaults
  BY FaultSpent DEF Ask, TakesOut, GiveUp, SpliceEnds, NetInv, LinksOK
<1>3. data' \in [Call -> {"none", "asked", "coming", "found", "boxed", "spliced", "shut"}]
  BY DEF Ask, TakesOut, GiveUp, SpliceEnds, DataIs, NetInv, CallsOK
<1>4. ASSUME NEW answer \in {"none", "ok", "refused"}, Leave(c, answer) PROVE NetInv'
  <2>1. SlotsOK' /\ reply' \in [Call -> {"none", "ok", "refused"}] /\ waiting' \subseteq Call
    BY <1>1, <1>4, LeaveCounts
  <2> QED BY <1>1, <1>2, <1>3, <2>1 DEF NetInv, CallsOK, LinksOK
<1>5. ASSUME NEW to \in {"asked", "splice"}, DoorIs(c, to), UNCHANGED splices,
             reply' = reply \/ reply' = [reply EXCEPT ![c] = "ok"],
             waiting' = waiting \/ waiting' = waiting \cup {c}
      PROVE  NetInv'
  <2>1. Cardinality(Holds(door')) = Cardinality(Holds(door))
    BY <1>1, <1>5, DoorCounts DEF DoorIs, NetInv
  <2>2. SlotsOK'
    BY <1>1, <1>5, <2>1 DEF DoorIs, NetInv, SlotsOK
  <2>3. CallsOK' /\ LinksOK'
    BY <1>1, <1>2, <1>3, <1>5 DEF NetInv, CallsOK, LinksOK
  <2> QED BY <2>2, <2>3 DEF NetInv
<1>6. CASE Ask(c)
  BY <1>4, <1>5, <1>6 DEF Ask
<1>7. CASE TakesOut(c)
  BY <1>4, <1>5, <1>7 DEF TakesOut
<1>8. CASE GiveUp(c)
  BY <1>4, <1>8 DEF GiveUp
<1>9. CASE SpliceEnds(c)
  BY <1>4, <1>9 DEF SpliceEnds, NetInv, CallsOK
<1> QED BY <1>6, <1>7, <1>8, <1>9

\* Nobody has called yet.
LEMMA NetStart == NetInit => NetInv
<1> SUFFICES ASSUME NetInit PROVE NetInv
  OBVIOUS
<1>1. Holds(door) = {}
  BY DEF NetInit, Holds
<1>2. Cardinality(Holds(door)) = 0
  BY <1>1, FS_EmptySet
<1> QED BY <1>2, NetAssumption DEF NetInit, NetInv, CallsOK, LinksOK, SlotsOK

\* Every step of the network keeps the count of its slots.
LEMMA NetStep == NetInv /\ [NetNext]_netVars => NetInv'
<1> SUFFICES ASSUME NetInv, [NetNext]_netVars PROVE NetInv'
  OBVIOUS
<1>1. CASE UNCHANGED netVars
  BY <1>1 DEF netVars, NetInv, CallsOK, LinksOK, SlotsOK, Holds
<1>2. ASSUME NEW c \in Call, Client(c) PROVE NetInv'
  BY <1>2, ArrivesKeeps, EndsKeep DEF Client
<1>3. ASSUME NEW c \in Call, AtRelay(c) PROVE NetInv'
  BY <1>3, AdmitKeeps, DoorKeeps, EndsKeep DEF AtRelay
<1>4. ASSUME NEW c \in Call, AtHolder(c) \/ Notices(c) \/ HangUp(c) PROVE NetInv'
  BY <1>4, EndsKeep DEF AtHolder
<1> QED BY <1>1, <1>2, <1>3, <1>4, LinksKeep DEF NetNext

-----------------------------------------------------------------------------
(* Numbers of a set, in order.                                              *)

\* A set of naturals that is not empty has a least element.
LEMMA LeastOf ==
  ASSUME NEW S, S \subseteq Nat, S # {}
  PROVE  \E x \in S : \A y \in S : x <= y
<1>1. PICK x \in S : \A y \in S : ~(<<y, x>> \in OpToRel(<, Nat))
  BY NatLessThanWellFounded, WFMin
<1>2. \A a, b \in Nat : a < b => <<a, b>> \in OpToRel(<, Nat)
  BY DEF OpToRel
<1>3. \A y \in S : ~(y < x) /\ y \in Nat /\ x \in Nat
  BY <1>1, <1>2
<1>4. \A y \in S : x <= y
  BY ONLY <1>3
<1> QED BY <1>4

\* How many of a set are at most x.
Rank(S, x) == Cardinality({y \in S : y <= x})

\* Different numbers of a set have different ranks, in their order.
LEMMA RankRises ==
  ASSUME NEW S, S \subseteq Nat, IsFiniteSet(S)
  PROVE  /\ \A x \in S : Rank(S, x) \in 1 .. Cardinality(S)
         /\ \A x, y \in S : x < y => Rank(S, x) < Rank(S, y)
<1>0. Cardinality(S) \in Nat /\ \A x \in S : x \in Nat
  BY FS_CardinalityType
<1>1. ASSUME NEW x \in S PROVE Rank(S, x) \in 1 .. Cardinality(S)
  <2> DEFINE T == {y \in S : y <= x}
  <2>1. T \in SUBSET S /\ x \in T
    OBVIOUS
  <2>2. IsFiniteSet(T) /\ Cardinality(T) <= Cardinality(S)
    BY <2>1, FS_Subset
  <2>3. Cardinality(T) \in Nat /\ Cardinality(T) # 0
    BY <2>1, <2>2, FS_CardinalityType, FS_EmptySet
  <2>4. Rank(S, x) = Cardinality(T)
    BY DEF Rank
  <2> QED BY <1>0, <2>2, <2>3, <2>4
<1>2. ASSUME NEW x \in S, NEW y \in S, x < y PROVE Rank(S, x) < Rank(S, y)
  <2> DEFINE T == {z \in S : z <= x}
             U == {z \in S : z <= y}
  <2>1. U \in SUBSET S /\ T \in SUBSET U /\ y \in U /\ y \notin T
    <3>1. x \in Nat /\ y \in Nat /\ \A z \in S : z \in Nat
      BY <1>0
    <3>2. \A z \in S : z <= x => z <= y
      BY ONLY <3>1, <1>2
    <3>3. y <= y /\ ~(y <= x)
      BY ONLY <3>1, <1>2
    <3> QED BY <3>2, <3>3
  <2>2. IsFiniteSet(U)
    BY <2>1, FS_Subset
  <2>3. IsFiniteSet(T) /\ Cardinality(T) <= Cardinality(U) /\ Cardinality(T) # Cardinality(U)
    BY <2>1, <2>2, FS_Subset
  <2>4. Cardinality(T) \in Nat /\ Cardinality(U) \in Nat
    BY <2>2, <2>3, FS_CardinalityType
  <2>5. Rank(S, x) = Cardinality(T) /\ Rank(S, y) = Cardinality(U)
    BY DEF Rank
  <2> HIDE DEF T, U
  <2> QED BY <2>3, <2>4, <2>5
<1> QED BY <1>1, <1>2

\* Rising lists all of a set, each number at its rank.
LEMMA RisingLists ==
  ASSUME NEW S, S \subseteq Nat, IsFiniteSet(S)
  PROVE  /\ Cardinality(S) \in Nat
         /\ DOMAIN Rising(S) = 1 .. Cardinality(S)
         /\ \A n \in 1 .. Cardinality(S) : Rising(S)[n] \in S
         /\ \A m, n \in 1 .. Cardinality(S) : m < n => Rising(S)[m] < Rising(S)[n]
         /\ \A x \in S : \E n \in 1 .. Cardinality(S) : Rising(S)[n] = x
<1> DEFINE m == Cardinality(S)
           f == [x \in S |-> Rank(S, x)]
<1>1. m \in Nat
  BY FS_CardinalityType
<1>10. \A x \in S : x \in Nat
  OBVIOUS
<1>11. \A x \in S : Rank(S, x) \in 1 .. m /\ Rank(S, x) \in Nat
  <2>1. \A x \in S : Rank(S, x) \in 1 .. m
    BY RankRises
  <2> HIDE DEF m
  <2>2. 1 .. m \subseteq Nat
    BY <1>1
  <2> QED BY <2>1, <2>2
<1>12. \A x, y \in S : x < y => Rank(S, x) < Rank(S, y)
  BY RankRises
<1>2. f \in Injection(S, 1 .. m)
  <2>1. f \in [S -> 1 .. m]
    BY <1>11
  <2>2. \A x, y \in S : f[x] = f[y] => x = y
    <3> SUFFICES ASSUME NEW x \in S, NEW y \in S, f[x] = f[y], x # y PROVE FALSE
      OBVIOUS
    <3>1. x \in Nat /\ y \in Nat /\ x # y
      BY <1>10
    <3>2. x < y \/ y < x
      BY ONLY <3>1
    <3>3. Rank(S, x) = Rank(S, y)
      OBVIOUS
    <3>4. Rank(S, x) \in Nat /\ Rank(S, y) \in Nat
      BY <1>11
    <3>5. Rank(S, x) < Rank(S, y) \/ Rank(S, y) < Rank(S, x)
      BY <1>12, <3>2
    <3> QED BY ONLY <3>3, <3>4, <3>5
  <2> QED BY <2>1, <2>2 DEF Injection, IsInjective
<1>3. IsFiniteSet(1 .. m) /\ Cardinality(1 .. m) = m
  <2>1. m >= 0 /\ m \in Int /\ 1 \in Int
    BY <1>1
  <2>2. IsFiniteSet(1 .. m) /\ Cardinality(1 .. m) = IF 1 > m THEN 0 ELSE m - 1 + 1
    BY <2>1, FS_Interval
  <2> HIDE DEF m
  <2> QED BY <1>1, <2>2
<1>4. f \in Surjection(S, 1 .. m)
  BY <1>2, <1>3, FS_Injection
<1>5. \A n \in 1 .. m : \E x \in S : Rank(S, x) = n
  BY <1>4 DEF Surjection
<1>6. /\ DOMAIN Rising(S) = 1 .. m
      /\ \A n \in 1 .. m : Rising(S)[n] = CHOOSE x \in S : Rank(S, x) = n
  BY DEF Rising, Rank
<1>7. \A n \in 1 .. m : Rising(S)[n] \in S /\ Rank(S, Rising(S)[n]) = n
  BY <1>5, <1>6
<1> HIDE DEF m, f
<1>8. \A k, n \in 1 .. m : k < n => Rising(S)[k] < Rising(S)[n]
  <2> SUFFICES ASSUME NEW k \in 1 .. m, NEW n \in 1 .. m, k < n
               PROVE  Rising(S)[k] < Rising(S)[n]
    OBVIOUS
  <2> DEFINE a == Rising(S)[k]
             b == Rising(S)[n]
  <2>1. a \in S /\ b \in S /\ Rank(S, a) = k /\ Rank(S, b) = n
    BY <1>7
  <2> HIDE DEF a, b
  <2>2. a \in Nat /\ b \in Nat
    BY <2>1, <1>10
  <2>5. k \in Nat /\ n \in Nat
    BY <1>1
  <2>3. b < a => n < k
    BY <2>1, <1>12
  <2>6. b = a => n = k
    BY <2>1
  <2>4. a < b
    BY ONLY <2>2, <2>3, <2>5, <2>6, k < n
  <2> QED BY <2>4 DEF a, b
<1>9. \A x \in S : \E n \in 1 .. m : Rising(S)[n] = x
  <2> SUFFICES ASSUME NEW x \in S PROVE \E n \in 1 .. m : Rising(S)[n] = x
    OBVIOUS
  <2> DEFINE n == Rank(S, x)
             b == Rising(S)[n]
  <2>1. n \in 1 .. m /\ n \in Nat
    BY <1>11
  <2>2. b \in S /\ Rank(S, b) = n
    BY <1>7, <2>1
  <2> HIDE DEF b
  <2>3. (b < x => Rank(S, b) < n) /\ (x < b => n < Rank(S, b))
    BY <2>2, <1>12
  <2>4. b \in Nat /\ x \in Nat
    BY <2>2, <1>10
  <2> HIDE DEF n
  <2>5. b = x
    BY ONLY <2>1, <2>2, <2>3, <2>4
  <2> QED BY <2>1, <2>5 DEF b
<1> QED BY <1>1, <1>6, <1>7, <1>8, <1>9 DEF m

-----------------------------------------------------------------------------
(* The feed.                                                                *)

\* The numbers from a to b.
LEMMA SpanSeq ==
  ASSUME NEW a \in Nat \ {0}, NEW b \in Nat
  PROVE  /\ Span(a, b) \in Seq(1 .. b)
         /\ Len(Span(a, b)) = (IF b < a THEN 0 ELSE b - a + 1)
         /\ \A i \in 1 .. Len(Span(a, b)) : Span(a, b)[i] = a + i - 1
<1> DEFINE n == IF b < a THEN 0 ELSE b - a + 1
<1>1. n \in Nat /\ \A i \in 1 .. n : a + i - 1 \in 1 .. b
  OBVIOUS
<1>2. Span(a, b) = [i \in 1 .. n |-> a + i - 1]
  BY DEF Span
<1> HIDE DEF n
<1>3. [i \in 1 .. n |-> a + i - 1] \in Seq(1 .. b)
  BY <1>1
<1>4. Len(Span(a, b)) = n
  BY <1>1, <1>2
<1> QED BY <1>2, <1>3, <1>4 DEF n

\* The numbers from 1.
LEMMA SpanFromOne ==
  ASSUME NEW b \in Nat
  PROVE  /\ Span(1, b) \in Seq(1 .. b) /\ Len(Span(1, b)) = b
         /\ \A i \in 1 .. b : Span(1, b)[i] = i
<1> DEFINE a == 1
           n == Len(Span(a, b))
<1>1. a \in Nat \ {0} /\ a = 1
  OBVIOUS
<1> HIDE DEF a
<1>2. /\ Span(a, b) \in Seq(1 .. b) /\ n = (IF b < a THEN 0 ELSE b - a + 1)
      /\ \A i \in 1 .. n : Span(a, b)[i] = a + i - 1
  BY <1>1, SpanSeq
<1> HIDE DEF n
<1>3. n = b
  BY ONLY <1>1, <1>2, b \in Nat
<1>4. \A i \in 1 .. n : a + i - 1 = i
  BY ONLY <1>1, <1>3, b \in Nat
<1>5. Span(a, b) \in Seq(1 .. b) /\ n = b /\ \A i \in 1 .. b : Span(a, b)[i] = i
  BY <1>2, <1>3, <1>4
<1> QED BY <1>1, <1>5 DEF n

\* What is after what was shown comes without a gap: an event that is more than one
\* past it has the one before it, or a later one, in front.
Gapless(events, L) ==
  \A i \in 1 .. Len(events) :
    events[i] <= L + 1 \/ \E h \in 1 .. i - 1 : events[h] + 1 >= events[i]

\* So what applyEvents shows of them continues what was shown, up to the last of them.
LEMMA ShowsContinues ==
  ASSUME NEW L \in Nat, NEW N \in Nat, L <= N, shown = Span(1, L),
         NEW events \in Seq(1 .. N), Gapless(events, L), Shows(events)
  PROVE  \E M \in L .. N : /\ shown' = Span(1, M)
                           /\ \A i \in 1 .. Len(events) : events[i] <= M
<1>0. Len(events) \in Nat /\ DOMAIN events = 1 .. Len(events)
      /\ \A i \in 1 .. Len(events) : events[i] \in 1 .. N
  BY LenProperties, ElementOfSeq
<1>1. LastSeq(shown) = L
  <2>2. shown \in Seq(1 .. L) /\ Len(shown) = L /\ \A i \in 1 .. L : shown[i] = i
    BY SpanFromOne
  <2>1. (L > 0 => shown[L] = L) /\ (shown = <<>> => L = 0)
    BY <2>2, EmptySeq
  <2>3. L = 0 => shown = <<>>
    BY <2>2, EmptySeq
  <2> QED BY <2>1, <2>2, <2>3 DEF LastSeq
<1> DEFINE F == {i \in DOMAIN events : /\ events[i] > LastSeq(shown)
                                       /\ \A h \in 1 .. i - 1 : events[h] < events[i]}
           r == Rising(F)
           m == Cardinality(F)
<1>2. F \subseteq 1 .. Len(events) /\ F \subseteq Nat /\ IsFiniteSet(F)
  <2>1. F \subseteq 1 .. Len(events)
    BY <1>0
  <2>2. IsFiniteSet(1 .. Len(events))
    BY <1>0, FS_Interval
  <2> QED BY <2>1, <2>2, FS_Subset
<1>3. \A i \in F : events[i] > L /\ \A h \in 1 .. i - 1 : events[h] < events[i]
  BY <1>1
<1>4. \A i \in 1 .. Len(events) :
        events[i] > L /\ (\A h \in 1 .. i - 1 : events[h] < events[i]) => i \in F
  BY <1>0, <1>1
<1>5. shown' = shown \o [n \in DOMAIN r |-> events[r[n]]]
  BY DEF Shows
<1> HIDE DEF F
<1>6. /\ m \in Nat /\ DOMAIN r = 1 .. m
      /\ \A n \in 1 .. m : r[n] \in F
      /\ \A k, n \in 1 .. m : k < n => r[k] < r[n]
      /\ \A x \in F : \E n \in 1 .. m : r[n] = x
  BY <1>2, RisingLists
<1> HIDE DEF r, m
\* An event that is new has, at or before it, one that is shown and is no smaller.
<1>7. ASSUME NEW i \in 1 .. Len(events), events[i] > L
      PROVE  \E q \in 1 .. m : r[q] <= i /\ events[r[q]] >= events[i]
  <2> DEFINE G == {g \in 1 .. Len(events) : g <= i /\ events[g] >= events[i]}
  <2>1. G \subseteq Nat /\ i \in G
    BY <1>0
  <2>2. PICK g \in G : \A y \in G : g <= y
    BY <2>1, LeastOf
  <2>3. /\ g \in 1 .. Len(events) /\ g <= i /\ events[g] >= events[i]
        /\ \A h \in 1 .. g - 1 : h \in 1 .. Len(events) /\ h <= i /\ h \notin G
    BY <2>2, <1>0
  <2>4. \A h \in 1 .. g - 1 : events[h] < events[i]
    BY <2>3, <1>0
  <2>5. g \in F
    <3>1. events[g] > L
      BY <2>3, <1>0, <1>7
    <3>2. \A h \in 1 .. g - 1 : events[h] < events[g]
      BY <2>3, <2>4, <1>0
    <3> QED BY <2>3, <3>1, <3>2, <1>4
  <2> HIDE DEF G
  <2>6. PICK q \in 1 .. m : r[q] = g
    BY <2>5, <1>6
  <2> QED BY <2>3, <2>6
\* The n-th event that is shown is the n-th after what was shown.
<1>8. \A n \in 1 .. m : events[r[n]] = L + n
  <2> DEFINE B == {n \in 1 .. m : events[r[n]] # L + n}
  <2> SUFFICES ASSUME B # {} PROVE FALSE
    OBVIOUS
  <2>1. B \subseteq Nat
    BY <1>6
  <2>2. PICK n \in B : \A y \in B : n <= y
    BY <2>1, LeastOf
  <2>3. n \in 1 .. m /\ events[r[n]] # L + n
    BY <2>2
  <2>4. \A k \in 1 .. n - 1 : k \in 1 .. m /\ events[r[k]] = L + k
    BY <2>2, <2>3, <1>6
  <2> HIDE DEF B
  <2> DEFINE i == r[n]
             e == events[i]
  <2>5. i \in F /\ i \in 1 .. Len(events)
    BY <2>3, <1>6, <1>2
  <2>6. e > L /\ e \in 1 .. N /\ \A h \in 1 .. i - 1 : events[h] < e
    BY <2>5, <1>3, <1>0
  <2>7. e >= L + n
    <3>1. CASE n = 1
      BY <3>1, <2>6
    <3>2. CASE n # 1
      <4>1. n - 1 \in 1 .. m /\ n - 1 \in 1 .. n - 1 /\ n - 1 < n
        BY <3>2, <2>3, <1>6
      <4>2. r[n - 1] < i /\ r[n - 1] \in F /\ events[r[n - 1]] = L + (n - 1)
        BY <4>1, <2>3, <2>4, <1>6
      <4>3. r[n - 1] \in 1 .. i - 1
        <5>1. r[n - 1] \in 1 .. Len(events)
          BY <4>2, <1>2
        <5> DEFINE z == r[n - 1]
        <5> HIDE DEF i, z
        <5>2. z \in 1 .. Len(events) /\ z < i /\ i \in 1 .. Len(events)
          BY <4>2, <5>1, <2>5 DEF z
        <5>3. z \in 1 .. i - 1
          BY ONLY <5>2, <1>0
        <5> QED BY <5>3 DEF z
      <4>4. events[r[n - 1]] < e
        BY <4>3, <2>6
      <4> HIDE DEF e, i
      <4> QED BY <4>2, <4>4, <2>3, <2>6, <1>6
    <3> QED BY <3>1, <3>2
  <2>8. e <= L + n
    <3>1. e <= L + 1 \/ \E h \in 1 .. i - 1 : events[h] + 1 >= e
      BY <2>5 DEF Gapless
    <3>2. CASE e <= L + 1
      <4> HIDE DEF e
      <4> QED BY <3>2, <2>3, <2>6, <1>6
    <3>3. CASE e > L + 1 /\ \E h \in 1 .. i - 1 : events[h] + 1 >= e
      <4>1. PICK h \in 1 .. i - 1 : events[h] + 1 >= e
        BY <3>3
      <4>2. h \in 1 .. Len(events) /\ events[h] \in 1 .. N
        BY <2>5, <1>0
      <4>3. events[h] > L
        <5> HIDE DEF e
        <5> QED BY <3>3, <4>1, <4>2, <2>6
      <4>4. PICK q \in 1 .. m : r[q] <= h /\ events[r[q]] >= events[h]
        BY <4>2, <4>3, <1>7
      <4>5. r[q] < i /\ r[q] \in Nat /\ i \in Nat
        <5>1. r[q] \in 1 .. Len(events)
          BY <1>2, <1>6
        <5> DEFINE z == r[q]
        <5> HIDE DEF i, z
        <5>2. z \in 1 .. Len(events) /\ z <= h /\ i \in 1 .. Len(events)
          BY <4>4, <5>1, <2>5 DEF z
        <5>3. z < i /\ z \in Nat /\ i \in Nat
          BY ONLY <5>2, <1>0, h \in 1 .. i - 1
        <5> QED BY <5>3 DEF z
      <4>6. ~(n < q) /\ n # q
        <5>1. n < q => i < r[q]
          BY <2>3, <1>6
        <5>2. n = q => i = r[q]
          OBVIOUS
        <5> DEFINE z == r[q]
        <5> HIDE DEF i, z
        <5>3. z < i /\ z \in Nat /\ i \in Nat /\ (n < q => i < z) /\ (n = q => i = z)
          BY <4>5, <5>1, <5>2 DEF z
        <5> QED BY ONLY <5>3
      <4>7. q \in 1 .. n - 1
        BY <4>6, <2>3, <1>6
      <4>8. events[r[q]] = L + q
        BY <4>7, <2>4
      <4>9. L + q >= events[h] /\ events[h] \in 1 .. N /\ n \in Nat
        BY <4>2, <4>4, <4>8, <2>3, <1>6
      <4> DEFINE w == events[h]
      <4>10. w + 1 >= e /\ w \in 1 .. N /\ e \in 1 .. N /\ L + q >= w
        BY <4>1, <4>9, <2>6
      <4> HIDE DEF e, w
      <4> QED BY ONLY <4>7, <4>9, <4>10, L \in Nat, N \in Nat
    <3> HIDE DEF e
    <3> QED BY <3>1, <3>2, <3>3, <2>6
  <2>9. e # L + n
    BY <2>3
  <2> HIDE DEF e
  <2> QED BY <2>3, <2>6, <2>7, <2>8, <2>9, <1>6
<1> DEFINE M == L + m
<1>9. M \in L .. N
  <2>1. CASE m = 0
    BY <2>1
  <2>2. CASE m # 0
    <3>1. m \in 1 .. m
      BY <2>2, <1>6
    <3>2. events[r[m]] = L + m /\ events[r[m]] \in 1 .. N
      BY <3>1, <1>8, <1>6, <1>2, <1>0
    <3> QED BY <3>2, <1>6
  <2> QED BY <2>1, <2>2
<1>10. \A i \in 1 .. Len(events) : events[i] <= M
  <2> SUFFICES ASSUME NEW i \in 1 .. Len(events) PROVE events[i] <= M
    OBVIOUS
  <2>1. events[i] \in 1 .. N
    BY <1>0
  <2>2. CASE events[i] > L
    <3>1. PICK q \in 1 .. m : events[r[q]] >= events[i]
      BY <2>2, <1>7
    <3>2. events[r[q]] = L + q
      BY <1>8
    <3> QED BY <3>1, <3>2, <2>1, <1>6
  <2>3. CASE ~(events[i] > L)
    BY <2>1, <2>3, <1>6
  <2> QED BY <2>2, <2>3
<1>11. shown' = Span(1, M)
  <2> DEFINE t == [n \in 1 .. m |-> L + n]
  <2>1. shown' = shown \o t
    <3>1. [n \in DOMAIN r |-> events[r[n]]] = t
      BY <1>6, <1>8
    <3> QED BY <3>1, <1>5
  <2>2. shown \in Seq(Nat) /\ Len(shown) = L /\ \A i \in 1 .. L : shown[i] = i
    <3>1. shown \in Seq(1 .. L) /\ Len(shown) = L /\ \A i \in 1 .. L : shown[i] = i
      BY SpanFromOne
    <3>2. 1 .. L \subseteq Nat
      OBVIOUS
    <3> QED BY <3>1, <3>2, SeqMonotonic
  <2>3. t \in Seq(Nat) /\ Len(t) = m
    BY <1>6
  <2>4. /\ shown \o t \in Seq(Nat) /\ Len(shown \o t) = L + m
        /\ \A i \in 1 .. L + m : (shown \o t)[i] = IF i <= L THEN shown[i] ELSE t[i - L]
    <3> HIDE DEF t
    <3>1. /\ shown \o t \in Seq(Nat) /\ Len(shown \o t) = Len(shown) + Len(t)
          /\ \A i \in 1 .. Len(shown) + Len(t) :
               (shown \o t)[i] = IF i <= Len(shown) THEN shown[i] ELSE t[i - Len(shown)]
      BY <2>2, <2>3, ConcatProperties
    <3> QED BY ONLY <2>2, <2>3, <3>1, Zenon
  <2>5. Span(1, M) \in Seq(Nat) /\ Len(Span(1, M)) = M /\ \A i \in 1 .. M : Span(1, M)[i] = i
    <3>1. M \in Nat
      BY <1>6
    <3> HIDE DEF M
    <3>2. /\ Span(1, M) \in Seq(1 .. M) /\ Len(Span(1, M)) = M
          /\ \A i \in 1 .. M : Span(1, M)[i] = i
      BY <3>1, SpanFromOne
    <3>3. 1 .. M \subseteq Nat
      OBVIOUS
    <3> QED BY <3>2, <3>3, SeqMonotonic
  <2>6. \A i \in 1 .. M : (shown \o t)[i] = i
    <3> SUFFICES ASSUME NEW i \in 1 .. L + m PROVE (shown \o t)[i] = i
      OBVIOUS
    <3>1. CASE i <= L
      <4>1. i \in 1 .. L
        BY <3>1, <1>6
      <4> HIDE DEF t
      <4> QED BY <3>1, <4>1, <2>2, <2>4
    <3>2. CASE ~(i <= L)
      <4>1. i - L \in 1 .. m /\ L + (i - L) = i
        BY <3>2, <1>6
      <4>2. t[i - L] = L + (i - L)
        BY <4>1
      <4> HIDE DEF t
      <4> QED BY <3>2, <4>1, <4>2, <2>4
    <3> QED BY <3>1, <3>2
  <2> HIDE DEF t, M
  <2>7. Len(shown \o t) = M
    BY <2>4 DEF M
  <2>8. shown \o t = Span(1, M)
    BY <2>4, <2>5, <2>6, <2>7, SeqEqual
  <2> QED BY <2>1, <2>8
<1> QED BY <1>9, <1>10, <1>11

-----------------------------------------------------------------------------
(* Knocks, and who decides.                                                 *)

\* A member in the document, and a row of the users tab.
DocStates == {"none", "admitted", "left"}
RowStates == {"pending", "active", "left", "declined"}
Row == [id : Knock, is : RowStates]

\* The parts of the type invariant: the control plane, the joiners, what the member's
\* process has of the stream, the console, and the bounds.
RowsOK ==
  /\ row \in [Knock -> {"none", "pending", "declined", "admitted", "left"}]
  /\ ownerOf \in [Knock -> Newcomer \cup {"nobody"}] /\ kept \subseteq Knock
  /\ access \in {"open", "closed"}

JoinersOK ==
  /\ secret \in [Newcomer -> 0 .. MaxKnocks] /\ reqId \in [Newcomer -> 0 .. MaxKnocks]
  /\ stage \in [Newcomer -> {"away", "asks", "held", "told", "spent", "in"}]

StreamOK ==
  /\ log \in Seq(EventKinds \X (0 .. MaxKnocks))
  /\ live \in BOOLEAN /\ sent \in 0 .. Len(log) /\ queued \in Seq(1 .. Len(log))
  /\ cursor \in 0 .. Len(log) /\ shown \in Seq(1 .. Len(log))

ConsoleOK ==
  /\ pump \in {"ticks", "queue"} /\ first \in BOOLEAN /\ want \in BOOLEAN
  /\ banner \in BOOLEAN
  /\ cache \in {<<>>} \cup [Knock -> DocStates]

SpentOK == faults \in 0 .. MaxUpsets /\ whims \in 0 .. MaxUpsets

\* The row that is selected is there.
SelectedInv ==
  /\ roster \in Seq(Row) /\ selected \in 0 .. MaxKnocks
  /\ selected # 0 => selected \in Ids(roster)

\* What was shown is whole; what this connection has carried was shown, or is queued;
\* and what is queued follows what was shown without a gap.
FeedInv ==
  /\ FeedIsWhole /\ cursor <= Len(shown)
  /\ sent <= Len(shown) \/ \E i \in 1 .. Len(queued) : queued[i] >= sent
  /\ Gapless(queued, Len(shown))

AdmInv ==
  /\ RowsOK /\ JoinersOK /\ StreamOK /\ ConsoleOK /\ SpentOK /\ SelectedInv /\ FeedInv

\* The parts make the type invariant of the admission.
LEMMA AdmInvTypes == AdmInv => AdmissionTypeOK
BY DEF AdmInv, AdmissionTypeOK, RowsOK, JoinersOK, StreamOK, ConsoleOK, SpentOK, SelectedInv,
       Row, DocStates, RowStates

\* A fault or a whim is spent.
LEMMA UpsetSpent ==
  ASSUME SpentOK
  PROVE  /\ Fault => faults' \in 0 .. MaxUpsets
         /\ Whim => whims' \in 0 .. MaxUpsets
BY AdmissionAssumption DEF SpentOK, Fault, Whim

\* An event is a kind and a knock.
Event == EventKinds \X (0 .. MaxKnocks)

\* A frame of one event.
LEMMA OneEvent ==
  ASSUME NEW kind \in EventKinds, NEW k \in 0 .. MaxKnocks PROVE <<<<kind, k>>>> \in Seq(Event)
<1> DEFINE e == <<kind, k>>
<1>1. e \in Event
  BY DEF Event
<1> HIDE DEF e
<1>2. <<e>> \in Seq(Event)
  BY <1>1
<1> QED BY <1>2 DEF e

\* The log only grows: whoever has read of it has read no more than there is.
LEMMA LogGrows ==
  ASSUME StreamOK, NEW events \in Seq(Event), Tells(events),
         UNCHANGED <<live, sent, queued, cursor, shown>>
  PROVE  StreamOK'
<1>1. /\ log' \in Seq(Event) /\ Len(log') = Len(log) + Len(events)
      /\ Len(log) \in Nat /\ Len(events) \in Nat
  BY ConcatProperties, LenProperties DEF Tells, StreamOK, Event
<1>2. 1 .. Len(log) \subseteq 1 .. Len(log') /\ 0 .. Len(log) \subseteq 0 .. Len(log')
  BY <1>1
<1>3. queued \in Seq(1 .. Len(log')) /\ shown \in Seq(1 .. Len(log'))
  BY <1>2, SeqMonotonic DEF StreamOK
<1> QED BY <1>1, <1>2, <1>3 DEF StreamOK, Event

\* Where the stream and the console do not move, neither does what they promise.
LEMMA FeedStays ==
  ASSUME FeedInv, UNCHANGED <<sent, queued, cursor, shown>> PROVE FeedInv'
BY DEF FeedInv, FeedIsWhole, Gapless

\* So it is with the selection.
LEMMA SelectedStays == ASSUME SelectedInv, UNCHANGED <<roster, selected>> PROVE SelectedInv'
BY DEF SelectedInv, Ids

\* A stream that does not move.
LEMMA StreamStays ==
  ASSUME StreamOK, UNCHANGED <<log, live, sent, queued, cursor, shown>> PROVE StreamOK'
BY DEF StreamOK

\* A joiner asks: for the session it has a secret of, or with a knock.
LEMMA AsksKeeps == \A j \in Newcomer : AdmInv /\ Asks(j) => AdmInv'
<1> SUFFICES ASSUME AdmInv, NEW j \in Newcomer, Asks(j) PROVE AdmInv'
  OBVIOUS
<1>1. /\ UNCHANGED <<kept, access, secret, live, sent, cache, queued, pump, first, want,
                     cursor, roster, selected, banner, shown, faults, whims>>
      /\ stage' = [stage EXCEPT ![j] = "in"] \/ stage' = [stage EXCEPT ![j] = "asks"]
  BY DEF Asks
<1>2. ConsoleOK' /\ SpentOK' /\ SelectedInv' /\ FeedInv'
  BY <1>1, SelectedStays, FeedStays DEF AdmInv, ConsoleOK, SpentOK
<1>3. /\ row' = row \/ row' = [row EXCEPT ![secret[j]] = "admitted"]
      /\ log' = log \/ Tells(<<<<"member.joined", secret[j]>>>>)
      /\ UNCHANGED <<ownerOf, reqId>> \/ \E k \in Knock : /\ ownerOf' = [ownerOf EXCEPT ![k] = j]
                                                         /\ reqId' = [reqId EXCEPT ![j] = k]
  BY Zenon DEF Asks
<1>4. RowsOK'
  BY <1>1, <1>3 DEF AdmInv, RowsOK
<1>5. JoinersOK'
  BY <1>1, <1>3, AdmissionAssumption DEF AdmInv, JoinersOK, Knock
<1>6. StreamOK'
  <2>1. CASE log' = log
    BY <1>1, <2>1, StreamStays DEF AdmInv
  <2>2. CASE Tells(<<<<"member.joined", secret[j]>>>>)
    <3>1. <<<<"member.joined", secret[j]>>>> \in Seq(Event)
      <4>1. secret[j] \in 0 .. MaxKnocks
        BY DEF AdmInv, JoinersOK
      <4>2. "member.joined" \in EventKinds
        BY DEF EventKinds
      <4> QED BY <4>1, <4>2, OneEvent
    <3> QED BY <1>1, <2>2, <3>1, LogGrows DEF AdmInv
  <2> QED BY <1>3, <2>1, <2>2
<1> QED BY <1>2, <1>4, <1>5, <1>6 DEF AdmInv

\* The redeem is queued, held again, answered, or refused.
LEMMA RedeemsKeeps == \A j \in Newcomer : AdmInv /\ Redeems(j) => AdmInv'
<1> SUFFICES ASSUME AdmInv, NEW j \in Newcomer, Redeems(j) PROVE AdmInv'
  OBVIOUS
<1> DEFINE k == reqId[j]
<1>1. /\ UNCHANGED <<ownerOf, kept, access, secret, reqId, live, sent, cache, queued, pump, first,
                     want, cursor, roster, selected, banner, shown, faults, whims>>
      /\ \E to \in {"held", "away", "told", "spent"} : stage' = [stage EXCEPT ![j] = to]
  BY DEF Redeems
<1>2. ConsoleOK' /\ SpentOK' /\ SelectedInv' /\ FeedInv'
  BY <1>1, SelectedStays, FeedStays DEF AdmInv, ConsoleOK, SpentOK
<1>3. /\ row' = row \/ row' = [row EXCEPT ![k] = "pending"]
      /\ log' = log \/ Tells(<<<<"member.knock", k>>>>)
  BY Zenon DEF Redeems
<1>4. RowsOK' /\ JoinersOK'
  BY <1>1, <1>3 DEF AdmInv, RowsOK, JoinersOK
<1>6. StreamOK'
  <2>1. CASE log' = log
    BY <1>1, <2>1, StreamStays DEF AdmInv
  <2>2. CASE Tells(<<<<"member.knock", k>>>>)
    <3>1. <<<<"member.knock", k>>>> \in Seq(Event)
      <4>1. k \in 0 .. MaxKnocks
        BY DEF AdmInv, JoinersOK
      <4>2. "member.knock" \in EventKinds
        BY DEF EventKinds
      <4> QED BY <4>1, <4>2, OneEvent
    <3> QED BY <1>1, <2>2, <3>1, LogGrows DEF AdmInv
  <2> QED BY <1>3, <2>1, <2>2
<1> QED BY <1>2, <1>4, <1>6 DEF AdmInv

\* What a joiner hears, keeps on disk, forgets, or loses with its daemon.
LEMMA JoinersKeep ==
  \A j \in Newcomer :
    AdmInv /\ (Answered(j) \/ Persists(j) \/ KnocksAgain(j) \/ JoinerDies(j)) => AdmInv'
<1> SUFFICES ASSUME AdmInv, NEW j \in Newcomer,
                    Answered(j) \/ Persists(j) \/ KnocksAgain(j) \/ JoinerDies(j)
             PROVE  AdmInv'
  OBVIOUS
<1>1. UNCHANGED <<row, ownerOf, access, log, sent, live, cache, queued, pump, first, want,
cursor,
                  roster, selected, banner, shown, whims>>
  BY DEF Answered, Persists, KnocksAgain, JoinerDies
<1>2. kept' \subseteq Knock
  BY DEF Answered, Persists, KnocksAgain, JoinerDies, AdmInv, RowsOK
<1>3. faults' \in 0 .. MaxUpsets
  BY UpsetSpent DEF Answered, Persists, KnocksAgain, JoinerDies, AdmInv, SpentOK
<1>4. JoinersOK'
  <2>1. CASE Answered(j)
    <3>1. \E to \in {"away", "told", "spent"} : stage' = [stage EXCEPT ![j] = to]
      BY <2>1 DEF Answered
    <3> QED BY <2>1, <3>1 DEF Answered, AdmInv, JoinersOK
  <2>2. CASE Persists(j)
    BY <2>2 DEF Persists, AdmInv, JoinersOK
  <2>3. CASE KnocksAgain(j)
    BY <2>3, AdmissionAssumption DEF KnocksAgain, AdmInv, JoinersOK
  <2>4. CASE JoinerDies(j)
    BY <2>4 DEF JoinerDies, AdmInv, JoinersOK
  <2> QED BY <2>1, <2>2, <2>3, <2>4
<1>5. RowsOK' /\ StreamOK'
  BY <1>1, <1>2 DEF AdmInv, RowsOK, StreamOK
<1>6. ConsoleOK' /\ SelectedInv' /\ FeedInv'
  BY <1>1, SelectedStays, FeedStays DEF AdmInv, ConsoleOK
<1>7. SpentOK'
  BY <1>1, <1>3 DEF AdmInv, SpentOK
<1> QED BY <1>4, <1>5, <1>6, <1>7 DEF AdmInv

\* The control plane restarts: who was held is away, and no secret is left to hand
\* over.
LEMMA ServerKeeps == AdmInv /\ ServerRestarts => AdmInv'
<1> SUFFICES ASSUME AdmInv, ServerRestarts PROVE AdmInv'
  OBVIOUS
<1>1. UNCHANGED <<row, ownerOf, access, log, secret, reqId, sent, cache, queued, pump, first,
                  want, cursor, roster, selected, banner, shown, whims>>
  BY DEF ServerRestarts
<1>2. kept' \subseteq Knock /\ live' \in BOOLEAN
  BY DEF ServerRestarts
<1>3. faults' \in 0 .. MaxUpsets
  BY UpsetSpent DEF ServerRestarts, AdmInv, SpentOK
<1>4. JoinersOK'
  BY DEF ServerRestarts, AdmInv, JoinersOK
<1>5. RowsOK' /\ StreamOK'
  BY <1>1, <1>2 DEF AdmInv, RowsOK, StreamOK
<1>6. ConsoleOK' /\ SelectedInv' /\ FeedInv'
  BY <1>1, SelectedStays, FeedStays DEF AdmInv, ConsoleOK
<1>7. SpentOK'
  BY <1>1, <1>3 DEF AdmInv, SpentOK
<1> QED BY <1>4, <1>5, <1>6, <1>7 DEF AdmInv

\* A member leaves.
LEMMA LeavesKeeps == \A j \in Newcomer : AdmInv /\ Leaves(j) => AdmInv'
<1> SUFFICES ASSUME AdmInv, NEW j \in Newcomer, Leaves(j) PROVE AdmInv'
  OBVIOUS
<1>1. <<<<"member.left", secret[j]>>>> \in Seq(Event)
  <2>1. secret[j] \in 0 .. MaxKnocks
    BY DEF AdmInv, JoinersOK
  <2>2. "member.left" \in EventKinds
    BY DEF EventKinds
  <2> QED BY <2>1, <2>2, OneEvent
<1>2. StreamOK'
  BY <1>1, LogGrows DEF Leaves, AdmInv
<1>3. RowsOK' /\ JoinersOK'
  BY DEF Leaves, AdmInv, RowsOK, JoinersOK
<1>4. SpentOK'
  BY UpsetSpent DEF Leaves, AdmInv, SpentOK
<1>5. ConsoleOK' /\ SelectedInv' /\ FeedInv'
  BY SelectedStays, FeedStays DEF Leaves, AdmInv, ConsoleOK
<1> QED BY <1>2, <1>3, <1>4, <1>5 DEF AdmInv

\* The document is one of the rows.
LEMMA DocumentTyped == AdmInv => Document \in [Knock -> DocStates]
BY DEF AdmInv, RowsOK, Document, DocStates

\* A frame carries what this connection has not carried yet: it follows what is
\* queued.
LEMMA FrameKeeps == AdmInv /\ FrameArrives => AdmInv'
<1> SUFFICES ASSUME AdmInv, FrameArrives PROVE AdmInv'
  OBVIOUS
<1> DEFINE n == Len(log)
           new == Span(sent + 1, n)
           S == Len(shown)
<1>1. n \in Nat /\ sent \in 0 .. n /\ queued \in Seq(1 .. n) /\ shown \in Seq(1 .. n)
  BY LenProperties DEF AdmInv, StreamOK
<1>2. S \in Nat /\ Len(queued) \in Nat /\ \A i \in 1 .. Len(queued) : queued[i] \in 1 .. n
  BY <1>1, LenProperties, ElementOfSeq
<1>3. /\ new \in Seq(1 .. n) /\ Len(new) = (IF n < sent + 1 THEN 0 ELSE n - (sent + 1) + 1)
      /\ \A i \in 1 .. Len(new) : new[i] = (sent + 1) + i - 1
  <2> DEFINE a == sent + 1
  <2>1. a \in Nat \ {0}
    BY <1>1
  <2> HIDE DEF a
  <2>2. /\ Span(a, n) \in Seq(1 .. n) /\ Len(Span(a, n)) = (IF n < a THEN 0 ELSE n - a + 1)
        /\ \A i \in 1 .. Len(Span(a, n)) : Span(a, n)[i] = a + i - 1
    BY <1>1, <2>1, SpanSeq
  <2> QED BY <2>2 DEF a
<1> HIDE DEF n, new, S
<1>4. sent' = n /\ queued' = queued \o new /\ cache' = Document
  BY DEF FrameArrives, Fold, n, new
<1>5. Len(new) \in Nat /\ Len(new) = n - sent /\ \A i \in 1 .. Len(new) : new[i] = sent + i
  BY <1>1, <1>3
<1>6. /\ queued' \in Seq(1 .. n) /\ Len(queued') = Len(queued) + Len(new)
      /\ \A i \in 1 .. Len(queued) + Len(new) :
           queued'[i] = IF i <= Len(queued) THEN queued[i] ELSE new[i - Len(queued)]
  BY <1>1, <1>3, <1>4, ConcatProperties
<1>7. /\ sent <= S \/ \E i \in 1 .. Len(queued) : queued[i] >= sent
      /\ \A i \in 1 .. Len(queued) :
           queued[i] <= S + 1 \/ \E h \in 1 .. i - 1 : queued[h] + 1 >= queued[i]
  BY DEF AdmInv, FeedInv, Gapless, S
<1> DEFINE q == Len(queued)
           w == Len(new)
<1>8. q \in Nat /\ w \in Nat /\ w = n - sent
  BY <1>2, <1>5
<1>9. \A i \in 1 .. q : queued'[i] = queued[i]
  BY <1>2, <1>6, <1>8
<1>10. \A i \in q + 1 .. q + w : queued'[i] = sent + (i - q)
  <2> SUFFICES ASSUME NEW i \in q + 1 .. q + w PROVE queued'[i] = sent + (i - q)
    OBVIOUS
  <2>1. i \in 1 .. q + w /\ ~(i <= q) /\ i - q \in 1 .. w
    BY <1>8
  <2> QED BY <2>1, <1>5, <1>6
<1>11. \A i \in 1 .. q : queued[i] \in 1 .. n
  BY <1>2
<1>12. Len(queued') = q + w
  BY <1>6
<1> HIDE DEF q, w
<1>13. sent' <= S \/ \E i \in 1 .. q + w : queued'[i] >= sent'
  <2>1. CASE w = 0
    <3>1. sent = n
      BY <1>1, <1>8, <2>1
    <3>2. CASE sent <= S
      BY <1>4, <3>1, <3>2
    <3>3. CASE \E i \in 1 .. q : queued[i] >= sent
      <4>1. PICK i \in 1 .. q : queued[i] >= sent
        BY <3>3
      <4>2. i \in 1 .. q + w
        BY <1>8, <2>1
      <4>3. queued'[i] >= sent'
        BY <1>4, <1>9, <3>1, <4>1
      <4> QED BY <4>2, <4>3
    <3> QED BY <1>7, <3>2, <3>3 DEF q
  <2>2. CASE w # 0
    <3>1. q + w \in q + 1 .. q + w /\ q + w \in 1 .. q + w
      BY <1>8, <2>2
    <3>2. queued'[q + w] = sent + ((q + w) - q)
      BY <1>10, <3>1
    <3>3. sent + ((q + w) - q) = n
      BY <1>1, <1>8
    <3>4. queued'[q + w] = n /\ sent' = n /\ n >= n
      BY <1>1, <1>4, <3>2, <3>3
    <3>5. queued'[q + w] >= sent'
      BY ONLY <3>4
    <3> QED BY <3>1, <3>5
  <2> QED BY <2>1, <2>2
<1>14. \A i \in 1 .. q + w :
         queued'[i] <= S + 1 \/ \E h \in 1 .. i - 1 : queued'[h] + 1 >= queued'[i]
  <2> SUFFICES ASSUME NEW i \in 1 .. q + w
               PROVE  queued'[i] <= S + 1 \/ \E h \in 1 .. i - 1 : queued'[h] + 1 >= queued'[i]
    OBVIOUS
  <2>1. CASE i <= q
    <3>1. i \in 1 .. q /\ \A h \in 1 .. i - 1 : h \in 1 .. q
      BY <1>8, <2>1
    <3>2. queued'[i] = queued[i] /\ \A h \in 1 .. i - 1 : queued'[h] = queued[h]
      BY <1>9, <3>1
    <3>3. queued[i] <= S + 1 \/ \E h \in 1 .. i - 1 : queued[h] + 1 >= queued[i]
      BY <1>7, <3>1 DEF q
    <3>4. CASE queued[i] <= S + 1
      BY <3>2, <3>4
    <3>5. CASE \E h \in 1 .. i - 1 : queued[h] + 1 >= queued[i]
      BY <3>2, <3>5
    <3> QED BY <3>3, <3>4, <3>5
  <2>2. CASE i = q + 1
    <3>1. i \in q + 1 .. q + w
      BY <1>8, <2>2
    <3>2. queued'[i] = sent + (i - q)
      BY <1>10, <3>1
    <3>3. sent + (i - q) = sent + 1
      BY <1>1, <1>8, <2>2
    <3>4. CASE sent <= S
      BY <1>1, <1>2, <3>2, <3>3, <3>4
    <3>5. CASE \E h \in 1 .. q : queued[h] >= sent
      <4>1. PICK h \in 1 .. q : queued[h] >= sent
        BY <3>5
      <4>2. h \in 1 .. i - 1 /\ queued'[h] = queued[h] /\ queued[h] \in 1 .. n
        BY <4>1, <1>8, <1>9, <1>11, <2>2
      <4>3. queued'[h] + 1 >= queued'[i]
        BY <1>1, <3>2, <3>3, <4>1, <4>2
      <4> QED BY <4>2, <4>3
    <3> QED BY <1>7, <3>4, <3>5 DEF q
  <2>3. CASE i > q + 1
    <3>1. i \in q + 1 .. q + w /\ i - 1 \in q + 1 .. q + w /\ i - 1 \in 1 .. i - 1
      BY <1>8, <2>3
    <3>2. queued'[i] = sent + (i - q) /\ queued'[i - 1] = sent + ((i - 1) - q)
      BY <1>10, <3>1
    <3>3. queued'[i - 1] + 1 >= queued'[i]
      BY <1>1, <1>8, <3>1, <3>2
    <3> QED BY <3>1, <3>3
  <2> QED BY <1>8, <2>1, <2>2, <2>3
<1>15. UNCHANGED <<row, ownerOf, kept, access, log, secret, reqId, stage, live, pump, first,
want,
                   cursor, roster, selected, banner, shown, faults, whims>>
  BY DEF FrameArrives
<1>16. FeedInv'
  <2>1. Len(shown') = S /\ FeedIsWhole' /\ cursor' <= Len(shown')
    BY <1>15 DEF AdmInv, FeedInv, FeedIsWhole, S
  <2>2. Gapless(queued', S)
    BY <1>12, <1>14 DEF Gapless
  <2>3. Gapless(queued, Len(shown))'
    BY <2>1, <2>2 DEF Gapless
  <2>4. sent' <= Len(shown') \/ \E i \in 1 .. Len(queued') : queued'[i] >= sent'
    BY <1>12, <1>13, <2>1
  <2> QED BY <2>1, <2>3, <2>4 DEF FeedInv
<1>17. StreamOK'
  <2>1. sent' \in 0 .. n
    BY <1>1, <1>4
  <2> QED BY <1>6, <1>15, <2>1 DEF AdmInv, StreamOK, n
<1>18. ConsoleOK'
  BY <1>4, <1>15, DocumentTyped DEF AdmInv, ConsoleOK
<1>19. RowsOK' /\ JoinersOK' /\ SpentOK' /\ SelectedInv'
  BY <1>15, SelectedStays DEF AdmInv, RowsOK, JoinersOK, SpentOK
<1> QED BY <1>16, <1>17, <1>18, <1>19 DEF AdmInv

\* A connection begins from the start, and ends.
LEMMA ConnectionKeeps == AdmInv /\ (Reconnects \/ StreamEnds) => AdmInv'
<1> SUFFICES ASSUME AdmInv, Reconnects \/ StreamEnds PROVE AdmInv'
  OBVIOUS
<1>1. UNCHANGED <<row, ownerOf, kept, access, log, secret, reqId, stage, cache, queued, pump,
                  first, want, cursor, roster, selected, banner, shown, whims>>
  BY DEF Reconnects, StreamEnds
<1>2. live' \in BOOLEAN /\ sent' \in {0, sent}
  BY DEF Reconnects, StreamEnds
<1>3. faults' \in 0 .. MaxUpsets
  BY UpsetSpent DEF Reconnects, StreamEnds, AdmInv, SpentOK
<1>4. Len(log) \in Nat /\ Len(shown) \in Nat
  BY LenProperties DEF AdmInv, StreamOK
<1>5. StreamOK'
  BY <1>1, <1>2, <1>4 DEF AdmInv, StreamOK
<1>6. FeedInv'
  <2>1. Len(shown') = Len(shown) /\ FeedIsWhole' /\ cursor' <= Len(shown')
    BY <1>1 DEF AdmInv, FeedInv, FeedIsWhole
  <2>2. Gapless(queued, Len(shown))'
    BY <1>1 DEF AdmInv, FeedInv, Gapless
  <2>3. sent' <= Len(shown') \/ \E i \in 1 .. Len(queued') : queued'[i] >= sent'
    <3>1. CASE sent' = sent
      BY <1>1, <3>1 DEF AdmInv, FeedInv
    <3>2. CASE sent' = 0
      BY <1>4, <2>1, <3>2
    <3> QED BY <1>2, <3>1, <3>2
  <2> QED BY <2>1, <2>2, <2>3 DEF FeedInv
<1>7. RowsOK' /\ JoinersOK' /\ ConsoleOK' /\ SelectedInv'
  BY <1>1, SelectedStays DEF AdmInv, RowsOK, JoinersOK, ConsoleOK
<1>8. SpentOK'
  BY <1>1, <1>3 DEF AdmInv, SpentOK
<1> QED BY <1>5, <1>6, <1>7, <1>8 DEF AdmInv

-----------------------------------------------------------------------------
(* The users tab.                                                           *)

\* The elements of a row's sequence.
LEMMA RowFacts ==
  ASSUME NEW r \in Seq(Row)
  PROVE  /\ Len(r) \in Nat /\ DOMAIN r = 1 .. Len(r)
         /\ \A i \in 1 .. Len(r) : r[i] \in Row /\ r[i].id \in Knock /\ r[i].id \in Ids(r)
         /\ Ids(r) \subseteq Knock
<1>1. Len(r) \in Nat /\ DOMAIN r = 1 .. Len(r)
  BY LenProperties
<1>2. \A i \in 1 .. Len(r) : r[i] \in Row
  BY ElementOfSeq
<1>3. \A i \in 1 .. Len(r) : r[i].id \in Knock
  BY <1>2 DEF Row
<1>4. Ids(r) = {r[i].id : i \in 1 .. Len(r)}
  BY <1>1 DEF Ids
<1> QED BY <1>1, <1>2, <1>3, <1>4

\* Rows that are new are put at the end, in order: the others stay.
LEMMA AppendedKeeps ==
  ASSUME NEW r \in Seq(Row), NEW ids, ids \subseteq Knock, NEW is \in [Knock -> RowStates]
  PROVE  Appended(r, ids, is) \in Seq(Row) /\ Ids(r) \subseteq Ids(Appended(r, ids, is))
<1> DEFINE S == ids \ Ids(r)
           t == [i \in 1 .. Cardinality(S) |->
                   [id |-> Rising(S)[i], is |-> is[Rising(S)[i]]]]
<1>1. S \subseteq Knock /\ S \subseteq Nat
  <2>1. S \subseteq Knock
    OBVIOUS
  <2>2. Knock \subseteq Nat
    BY AdmissionAssumption DEF Knock
  <2> QED BY <2>1, <2>2
<1>2. IsFiniteSet(S)
  <2>1. IsFiniteSet(Knock)
    BY AdmissionAssumption, FS_Interval DEF Knock
  <2> QED BY <1>1, <2>1, FS_Subset
<1>3. Cardinality(S) \in Nat /\ \A n \in 1 .. Cardinality(S) : Rising(S)[n] \in S
  BY <1>1, <1>2, RisingLists
<1>4. Appended(r, ids, is) = r \o t
  BY Zenon DEF Appended
<1>5. \A n \in 1 .. Cardinality(S) : [id |-> Rising(S)[n], is |-> is[Rising(S)[n]]] \in Row
  <2> HIDE DEF S
  <2>1. \A n \in 1 .. Cardinality(S) : Rising(S)[n] \in Knock /\ is[Rising(S)[n]] \in RowStates
    BY <1>1, <1>3
  <2> QED BY <2>1 DEF Row
<1>6. t \in Seq(Row)
  <2> HIDE DEF S
  <2> QED BY <1>3, <1>5
<1> HIDE DEF t
<1>7. /\ r \o t \in Seq(Row) /\ Len(r \o t) = Len(r) + Len(t)
      /\ \A i \in 1 .. Len(r) + Len(t) :
           (r \o t)[i] = IF i <= Len(r) THEN r[i] ELSE t[i - Len(r)]
  BY <1>6, ConcatProperties
<1>8. ASSUME NEW x \in Ids(r) PROVE x \in Ids(r \o t)
  <2>1. PICK i \in 1 .. Len(r) : x = r[i].id
    BY RowFacts DEF Ids
  <2>2. Len(r) \in Nat /\ Len(t) \in Nat
    BY <1>6, LenProperties
  <2>3. i \in 1 .. Len(r) + Len(t) /\ i <= Len(r)
    BY <2>2
  <2>4. (r \o t)[i] = r[i] /\ i \in 1 .. Len(r \o t)
    BY <1>7, <2>3
  <2> QED BY <1>7, <2>1, <2>4, RowFacts
<1> QED BY <1>4, <1>7, <1>8

\* The member that was selected stays selected while its row is there.
LEMMA SelectsKeeps ==
  ASSUME SelectedInv, NEW r \in Seq(Row), Ids(roster) \subseteq Ids(r), roster' = r, Selects(r)
  PROVE  SelectedInv' /\ (selected # 0 => selected' = selected)
<1>0. /\ Len(r) \in Nat /\ DOMAIN r = 1 .. Len(r) /\ Ids(r) \subseteq Knock
      /\ \A i \in 1 .. Len(r) : r[i].id \in Ids(r)
  BY RowFacts
<1>1. 0 \notin Knock /\ Knock \subseteq 0 .. MaxKnocks /\ 0 \in 0 .. MaxKnocks
  BY AdmissionAssumption DEF Knock
<1>2. selected # 0 => selected \in Ids(r)
  BY DEF SelectedInv
<1>3. CASE selected \in Ids(r) \/ r = <<>>
  <2>1. selected' = selected
    BY <1>3 DEF Selects
  <2> QED BY <1>0, <1>2, <2>1 DEF SelectedInv, Ids
<1>4. CASE selected \notin Ids(r) /\ r # <<>>
  <2> DEFINE awaited == {i \in DOMAIN r : r[i].is = "pending"}
             at == IF awaited # {} THEN Min(awaited) ELSE 1
  <2>1. selected' = r[at].id
    BY <1>4 DEF Selects
  <2>2. Len(r) # 0
    BY <1>4, EmptySeq
  <2>3. at \in 1 .. Len(r)
    <3>1. awaited \subseteq Nat /\ awaited \subseteq 1 .. Len(r)
      BY <1>0
    <3>2. CASE awaited # {}
      <4>1. \E x \in awaited : \A y \in awaited : x <= y
        <5> HIDE DEF awaited
        <5> QED BY <3>1, <3>2, LeastOf
      <4>2. Min(awaited) \in awaited
        <5> HIDE DEF awaited
        <5> QED BY <4>1 DEF Min
      <4> QED BY <3>1, <3>2, <4>2
    <3>3. CASE awaited = {}
      BY <1>0, <2>2, <3>3
    <3> QED BY <3>2, <3>3
  <2> HIDE DEF at
  <2>4. selected' \in Ids(r) /\ selected = 0
    BY <1>0, <1>2, <1>4, <2>1, <2>3
  <2> QED BY <1>0, <1>1, <2>4 DEF SelectedInv, Ids
<1> QED BY <1>3, <1>4

\* A row whose state changes is the row it was.
LEMMA RestatesKeeps ==
  ASSUME NEW r \in Seq(Row), NEW t, DOMAIN t = DOMAIN r,
         \A i \in DOMAIN r : t[i] \in Row /\ t[i].id = r[i].id,
         t = [i \in DOMAIN r |-> t[i]]
  PROVE  t \in Seq(Row) /\ Ids(t) = Ids(r)
<1>1. Len(r) \in Nat /\ DOMAIN r = 1 .. Len(r)
  BY LenProperties
<1>2. t \in Seq(Row)
  BY <1>1
<1>3. Ids(t) = Ids(r)
  BY DEF Ids
<1> QED BY <1>2, <1>3

\* The members that the document names.
LEMMA AdmittedKeeps ==
  ASSUME SelectedInv, NEW doc \in [Knock -> DocStates]
  PROVE  Admitted(doc) \in Seq(Row) /\ Ids(roster) \subseteq Ids(Admitted(doc))
<1> DEFINE is == [k \in Knock |-> IF doc[k] = "left" THEN "left" ELSE "active"]
           there == {k \in Knock : doc[k] # "none"}
           known == [i \in DOMAIN roster |->
                       IF roster[i].id \in there
                         THEN [roster[i] EXCEPT !.is = is[roster[i].id]]
                         ELSE IF roster[i].is = "active" THEN [roster[i] EXCEPT !.is = "left"]
                         ELSE roster[i]]
<1>1. Admitted(doc) = Appended(known, there, is)
  BY DEF Admitted
<1>2. is \in [Knock -> RowStates] /\ there \subseteq Knock
  BY DEF RowStates
<1>3. \A i \in DOMAIN roster : roster[i] \in Row
  BY RowFacts DEF SelectedInv
<1>4. known \in Seq(Row) /\ Ids(known) = Ids(roster)
  <2> HIDE DEF is, there
  <2>1. ASSUME NEW i \in DOMAIN roster
        PROVE  known[i] \in Row /\ known[i].id = roster[i].id
    <3>1. roster[i] \in Row
      BY <1>3
    <3>2. is[roster[i].id] \in RowStates /\ "left" \in RowStates
      BY <1>2, <3>1 DEF Row, RowStates
    <3>3. \A x \in RowStates : /\ [roster[i] EXCEPT !.is = x] \in Row
                               /\ [roster[i] EXCEPT !.is = x].id = roster[i].id
      BY <3>1 DEF Row
    <3>4. \/ known[i] = [roster[i] EXCEPT !.is = is[roster[i].id]]
          \/ known[i] = [roster[i] EXCEPT !.is = "left"]
          \/ known[i] = roster[i]
      OBVIOUS
    <3> HIDE DEF known
    <3> QED BY <3>1, <3>2, <3>3, <3>4
  <2>2. DOMAIN known = DOMAIN roster /\ known = [i \in DOMAIN roster |-> known[i]]
    OBVIOUS
  <2>3. roster \in Seq(Row)
    BY DEF SelectedInv
  <2> HIDE DEF known
  <2> QED BY <2>1, <2>2, <2>3, RestatesKeeps
<1> HIDE DEF is, there, known
<1> QED BY <1>1, <1>2, <1>4, AppendedKeeps

\* The knocks that the queue names.
LEMMA PendingKeeps ==
  ASSUME SelectedInv, NEW awaited, awaited \subseteq Knock
  PROVE  Pending(awaited) \in Seq(Row) /\ Ids(roster) \subseteq Ids(Pending(awaited))
<1> DEFINE is == [k \in Knock |-> "pending"]
           known == [i \in DOMAIN roster |->
                       IF roster[i].id \in awaited THEN [roster[i] EXCEPT !.is = "pending"]
                       ELSE IF roster[i].is = "pending" THEN [roster[i] EXCEPT !.is = "declined"]
                       ELSE roster[i]]
<1>1. Pending(awaited) = Appended(known, awaited, is)
  BY DEF Pending
<1>2. is \in [Knock -> RowStates]
  BY DEF RowStates
<1>3. \A i \in DOMAIN roster : roster[i] \in Row
  BY RowFacts DEF SelectedInv
<1>4. known \in Seq(Row) /\ Ids(known) = Ids(roster)
  <2> HIDE DEF is
  <2>1. ASSUME NEW i \in DOMAIN roster
        PROVE  known[i] \in Row /\ known[i].id = roster[i].id
    <3>1. roster[i] \in Row
      BY <1>3
    <3>2. "pending" \in RowStates /\ "declined" \in RowStates
      BY DEF RowStates
    <3>3. \A x \in RowStates : /\ [roster[i] EXCEPT !.is = x] \in Row
                               /\ [roster[i] EXCEPT !.is = x].id = roster[i].id
      BY <3>1 DEF Row
    <3>4. \/ known[i] = [roster[i] EXCEPT !.is = "pending"]
          \/ known[i] = [roster[i] EXCEPT !.is = "declined"]
          \/ known[i] = roster[i]
      OBVIOUS
    <3> HIDE DEF known
    <3> QED BY <3>1, <3>2, <3>3, <3>4
  <2>2. DOMAIN known = DOMAIN roster /\ known = [i \in DOMAIN roster |-> known[i]]
    OBVIOUS
  <2>3. roster \in Seq(Row)
    BY DEF SelectedInv
  <2> HIDE DEF known
  <2> QED BY <2>1, <2>2, <2>3, RestatesKeeps
<1> HIDE DEF is, known
<1> QED BY <1>1, <1>2, <1>4, AppendedKeeps

\* The queue is read, when it is asked for: no row goes, so the selection stays.
LEMMA ReadsQueueKeeps ==
  AdmInv /\ ReadsQueue => AdmInv' /\ (selected # 0 => selected' = selected)
<1> SUFFICES ASSUME AdmInv, ReadsQueue
             PROVE  AdmInv' /\ (selected # 0 => selected' = selected)
  OBVIOUS
<1>1. UNCHANGED <<row, ownerOf, kept, access, log, secret, reqId, stage, live, sent, cache,
                  queued, first, cursor, shown, whims>>
  BY DEF ReadsQueue
<1>2. pump' = "ticks" /\ want' = FALSE /\ banner' \in BOOLEAN
  BY DEF ReadsQueue, AdmInv, ConsoleOK
<1>3. faults' \in 0 .. MaxUpsets
  BY UpsetSpent DEF ReadsQueue, AdmInv, SpentOK
<1>4. SelectedInv' /\ (selected # 0 => selected' = selected)
  <2> DEFINE awaited == {k \in Knock : row[k] = "pending"}
  <2>1. CASE UNCHANGED <<roster, selected>>
    BY <2>1, SelectedStays DEF AdmInv
  <2>2. CASE roster' = Pending(awaited) /\ Selects(roster')
    <3>1. awaited \subseteq Knock
      OBVIOUS
    <3> HIDE DEF awaited
    <3>2. Pending(awaited) \in Seq(Row) /\ Ids(roster) \subseteq Ids(Pending(awaited))
      BY <3>1, PendingKeeps DEF AdmInv
    <3> QED BY <2>2, <3>2, SelectsKeeps DEF AdmInv
  <2> QED BY <2>1, <2>2 DEF ReadsQueue
<1>5. RowsOK' /\ JoinersOK' /\ StreamOK' /\ FeedInv'
  BY <1>1, FeedStays, StreamStays DEF AdmInv, RowsOK, JoinersOK
<1>6. ConsoleOK' /\ SpentOK'
  BY <1>1, <1>2, <1>3 DEF AdmInv, ConsoleOK, SpentOK
<1> QED BY <1>4, <1>5, <1>6 DEF AdmInv

\* What a tick takes, drained or fetched, goes on from what was shown.
LEMMA TicksFeed ==
  ASSUME AdmInv, NEW events, Shows(events),
         \/ live /\ events = queued /\ queued' = <<>>
         \/ ~live /\ events \in {Span(cursor + 1, Len(log)), <<>>} /\ queued' = queued,
         cursor' = (IF events # <<>> /\ Last(events) > cursor THEN Last(events) ELSE cursor),
         UNCHANGED <<log, live, sent>>
  PROVE  StreamOK' /\ FeedInv'
<1> DEFINE N == Len(log)
           L == Len(shown)
<1>1. /\ N \in Nat /\ L \in Nat /\ cursor \in 0 .. N /\ sent \in 0 .. N
      /\ queued \in Seq(1 .. N) /\ shown \in Seq(1 .. N)
  BY LenProperties DEF AdmInv, StreamOK
<1>2. /\ shown = Span(1, L) /\ cursor <= L /\ Gapless(queued, L)
      /\ sent <= L \/ \E i \in 1 .. Len(queued) : queued[i] >= sent
  BY DEF AdmInv, FeedInv, FeedIsWhole
<1>3. \A i \in 1 .. L : shown[i] \in 1 .. N
  BY <1>1, ElementOfSeq
<1> HIDE DEF N, L
<1>4. L <= N
  <2>1. CASE L = 0
    BY <1>1, <2>1
  <2>2. CASE L # 0
    <3>1. L \in 1 .. L
      BY <1>1, <2>2
    <3>2. shown[L] = L
      BY <1>1, <1>2, <3>1, SpanFromOne
    <3> QED BY <1>3, <3>1, <3>2
  <2> QED BY <2>1, <2>2
<1>5. events \in Seq(1 .. N) /\ Gapless(events, L)
  <2>1. CASE events = queued
    BY <1>1, <1>2, <2>1
  <2>2. CASE events = <<>>
    BY <2>2, EmptySeq DEF Gapless
  <2>3. CASE events = Span(cursor + 1, N)
    <3> DEFINE a == cursor + 1
    <3>1. a \in Nat \ {0} /\ a <= L + 1
      BY <1>1, <1>2
    <3>2. events = Span(a, N)
      BY <2>3
    <3> HIDE DEF a
    <3>3. /\ events \in Seq(1 .. N)
          /\ \A i \in 1 .. Len(events) : events[i] = a + i - 1
      BY <1>1, <3>1, <3>2, SpanSeq
    <3>4. Gapless(events, L)
      <4> SUFFICES ASSUME NEW i \in 1 .. Len(events)
                   PROVE  events[i] <= L + 1 \/ \E h \in 1 .. i - 1 : events[h] + 1 >= events[i]
        BY DEF Gapless
      <4>0. Len(events) \in Nat
        BY <3>3, LenProperties
      <4>1. CASE i = 1
        <5>1. events[1] = a
          BY <3>1, <3>3, <4>1
        <5> QED BY <1>1, <3>1, <4>1, <5>1
      <4>2. CASE i # 1
        <5>1. i - 1 \in 1 .. i - 1 /\ i - 1 \in 1 .. Len(events)
          BY <4>0, <4>2
        <5>2. events[i] = a + i - 1 /\ events[i - 1] = a + (i - 1) - 1
          BY <3>3, <5>1
        <5>3. events[i - 1] + 1 >= events[i]
          BY <3>1, <4>0, <5>2
        <5> QED BY <5>1, <5>3
      <4> QED BY <4>1, <4>2
    <3> QED BY <3>3, <3>4
  <2> QED BY <2>1, <2>2, <2>3 DEF N
<1>6. PICK M \in L .. N : /\ shown' = Span(1, M)
                          /\ \A i \in 1 .. Len(events) : events[i] <= M
  BY <1>1, <1>2, <1>4, <1>5, ShowsContinues
<1>7. M \in Nat /\ L <= M /\ M <= N
  BY <1>1
<1>8. shown' \in Seq(1 .. N) /\ Len(shown') = M
  <2>1. shown' \in Seq(1 .. M) /\ Len(shown') = M
    BY <1>6, <1>7, SpanFromOne
  <2>2. 1 .. M \subseteq 1 .. N
    BY <1>1, <1>7
  <2> QED BY <2>1, <2>2, SeqMonotonic
<1>9. cursor' <= M /\ cursor' \in 0 .. N
  <2>1. CASE events # <<>> /\ Last(events) > cursor
    <3>1. Len(events) \in 1 .. Len(events)
      BY <1>5, <2>1, EmptySeq
    <3>2. events[Len(events)] \in 1 .. N /\ events[Len(events)] <= M
      BY <1>5, <1>6, <3>1, ElementOfSeq
    <3> QED BY <1>1, <2>1, <3>2 DEF Last
  <2>2. CASE ~(events # <<>> /\ Last(events) > cursor)
    BY <1>1, <1>2, <1>7, <2>2
  <2> QED BY <2>1, <2>2
<1>10. sent' <= M \/ \E i \in 1 .. Len(queued') : queued'[i] >= sent'
  <2>1. CASE sent <= L
    BY <1>1, <1>7, <2>1
  <2>2. CASE live /\ events = queued /\ \E i \in 1 .. Len(queued) : queued[i] >= sent
    <3>1. PICK i \in 1 .. Len(queued) : queued[i] >= sent
      BY <2>2
    <3>2. queued[i] <= M /\ queued[i] \in 1 .. N
      BY <1>1, <1>6, <2>2, ElementOfSeq
    <3> QED BY <1>1, <1>7, <3>1, <3>2
  <2>3. CASE ~live /\ queued' = queued /\ \E i \in 1 .. Len(queued) : queued[i] >= sent
    BY <2>3
  <2> QED BY <1>2, <2>1, <2>2, <2>3
<1>11. queued' \in Seq(1 .. N) /\ Gapless(queued', M)
  <2>1. CASE queued' = <<>>
    BY <2>1, EmptySeq DEF Gapless
  <2>2. CASE queued' = queued
    <3>1. \A i \in 1 .. Len(queued) : queued[i] \in 1 .. N
      BY <1>1, ElementOfSeq
    <3>2. \A i \in 1 .. Len(queued) : queued[i] <= L + 1 => queued[i] <= M + 1
      BY <1>1, <1>7, <3>1
    <3> QED BY <1>1, <1>2, <2>2, <3>2 DEF Gapless
  <2> QED BY <2>1, <2>2
<1>12. StreamOK'
  BY <1>1, <1>8, <1>9, <1>11 DEF AdmInv, StreamOK, N
<1>13. FeedInv'
  <2>1. FeedIsWhole'
    BY <1>6, <1>8 DEF FeedIsWhole
  <2>2. Gapless(queued, Len(shown))'
    BY <1>8, <1>11 DEF Gapless
  <2> QED BY <1>8, <1>9, <1>10, <2>1, <2>2 DEF FeedInv
<1> QED BY <1>12, <1>13

\* A tick: the session, then the events.
LEMMA TicksKeeps ==
  AdmInv /\ Ticks => AdmInv' /\ (selected # 0 => selected' = selected)
<1> SUFFICES ASSUME AdmInv, Ticks PROVE AdmInv' /\ (selected # 0 => selected' = selected)
  OBVIOUS
<1> DEFINE doc == IF cache # <<>> THEN cache ELSE Document
           Drained(fetched) ==
             IF live THEN queued ELSE IF fetched THEN Span(cursor + 1, Len(log)) ELSE <<>>
<1>1. PICK got, fetched \in BOOLEAN :
        /\ IF got /\ fetched THEN UNCHANGED faults ELSE Fault
        /\ cache' = (IF got THEN doc ELSE cache)
        /\ roster' = (IF got THEN Admitted(doc) ELSE roster) /\ Selects(roster')
        /\ Shows(Drained(fetched))
        /\ cursor' = (IF Drained(fetched) # <<>> /\ Last(Drained(fetched)) > cursor
                      THEN Last(Drained(fetched)) ELSE cursor)
        /\ want' = (\/ got /\ first
                    \/ ~live
                    \/ \E i \in DOMAIN Drained(fetched) : log[Drained(fetched)[i]][1] \in Waking)
        /\ queued' = (IF live THEN <<>> ELSE queued)
  BY Zenon DEF Ticks
<1>2. /\ pump' = "queue" /\ first' = FALSE
      /\ UNCHANGED <<row, ownerOf, kept, access, log, secret, reqId, stage, live, sent, banner,
                     whims>>
  BY DEF Ticks
<1>3. want' \in BOOLEAN
  BY <1>1, Zenon
<1> DEFINE events == Drained(fetched)
<1>4. \/ live /\ events = queued /\ queued' = <<>>
      \/ ~live /\ events \in {Span(cursor + 1, Len(log)), <<>>} /\ queued' = queued
  BY <1>1
<1>5. Shows(events) /\ cursor' = (IF events # <<>> /\ Last(events) > cursor
                                  THEN Last(events) ELSE cursor)
  BY <1>1
<1> HIDE DEF events, Drained
<1>6. StreamOK' /\ FeedInv'
  BY <1>2, <1>4, <1>5, TicksFeed
<1>7. doc \in [Knock -> DocStates]
  BY DocumentTyped DEF AdmInv, ConsoleOK
<1> HIDE DEF doc
<1>8. SelectedInv' /\ (selected # 0 => selected' = selected)
  <2>1. CASE roster' = roster
    BY <1>1, <2>1, SelectsKeeps DEF AdmInv, SelectedInv
  <2>2. CASE roster' = Admitted(doc)
    BY <1>1, <1>7, <2>2, AdmittedKeeps, SelectsKeeps DEF AdmInv
  <2> QED BY <1>1, <2>1, <2>2
<1>9. cache' \in {<<>>} \cup [Knock -> DocStates]
  BY <1>1, <1>7 DEF AdmInv, ConsoleOK
<1>10. ConsoleOK'
  BY <1>2, <1>3, <1>9 DEF AdmInv, ConsoleOK
<1>11. SpentOK'
  BY <1>1, <1>2, UpsetSpent DEF AdmInv, SpentOK
<1>12. RowsOK' /\ JoinersOK'
  BY <1>2 DEF AdmInv, RowsOK, JoinersOK
<1> QED BY <1>6, <1>8, <1>10, <1>11, <1>12 DEF AdmInv

\* The selection moves to a row that is there.
LEMMA MovesKeeps == AdmInv /\ Moves => AdmInv'
<1> SUFFICES ASSUME AdmInv, Moves PROVE AdmInv'
  OBVIOUS
<1>1. UNCHANGED <<row, ownerOf, kept, access, log, secret, reqId, stage, live, sent, cache,
                  queued, pump, first, want, cursor, roster, banner, shown, faults, whims>>
  BY DEF Moves
<1>2. selected' \in Ids(roster)
  <2>1. /\ Len(roster) \in Nat /\ DOMAIN roster = 1 .. Len(roster)
        /\ \A i \in 1 .. Len(roster) : roster[i].id \in Ids(roster)
    BY RowFacts DEF AdmInv, SelectedInv
  <2>2. PICK i \in 1 .. Len(roster) : selected' = roster[(i % Len(roster)) + 1].id
    BY <2>1 DEF Moves
  <2> DEFINE n == Len(roster)
             at == (i % n) + 1
  <2>3. n \in Nat \ {0} /\ i \in Nat
    BY <2>1
  <2> HIDE DEF n
  <2>4. i % n \in 0 .. n - 1
    BY ONLY <2>3
  <2>5. at \in 1 .. n
    BY <2>3, <2>4
  <2>6. selected' = roster[at].id
    BY <2>2 DEF n
  <2> HIDE DEF at
  <2> QED BY <2>1, <2>5, <2>6 DEF n
<1>3. SelectedInv'
  <2>1. Ids(roster) \subseteq Knock /\ Ids(roster)' = Ids(roster)
    BY <1>1, RowFacts DEF AdmInv, SelectedInv, Ids
  <2>2. Knock \subseteq 0 .. MaxKnocks
    BY AdmissionAssumption DEF Knock
  <2> QED BY <1>1, <1>2, <2>1, <2>2 DEF AdmInv, SelectedInv
<1>4. RowsOK' /\ JoinersOK' /\ StreamOK' /\ FeedInv'
  BY <1>1, FeedStays, StreamStays DEF AdmInv, RowsOK, JoinersOK
<1>5. ConsoleOK' /\ SpentOK'
  BY <1>1 DEF AdmInv, ConsoleOK, SpentOK
<1> QED BY <1>3, <1>4, <1>5 DEF AdmInv

\* A decision, whoever makes it.
LEMMA DecidedKeeps ==
  ASSUME AdmInv, NEW k \in Knock, NEW as \in {"admitted", "declined"}, Decided(k, as),
         UNCHANGED <<ownerOf, access, secret, reqId, stage, live, sent, queued, pump, first,
         want,
                     cursor, roster, selected, shown, faults>>,
         whims' \in 0 .. MaxUpsets, banner' \in BOOLEAN
  PROVE  AdmInv'
<1>1. RowsOK' /\ JoinersOK'
  BY DEF Decided, AdmInv, RowsOK, JoinersOK
<1>2. ConsoleOK' /\ SpentOK'
  BY DEF Decided, AdmInv, ConsoleOK, SpentOK
<1>3. SelectedInv' /\ FeedInv'
  BY SelectedStays, FeedStays DEF AdmInv
<1>4. StreamOK'
  <2> DEFINE kind == IF as = "admitted" THEN "member.joined" ELSE "member.declined"
  <2>1. kind \in EventKinds
    BY DEF EventKinds
  <2>2. Tells(<<<<kind, k>>>>)
    BY DEF Decided
  <2>3. k \in 0 .. MaxKnocks
    BY AdmissionAssumption DEF Knock
  <2> HIDE DEF kind
  <2> QED BY <2>1, <2>2, <2>3, OneEvent, LogGrows DEF AdmInv
<1> QED BY <1>1, <1>2, <1>3, <1>4 DEF AdmInv

\* At the console, on the command line, or too late.
LEMMA DecisionsKeep ==
  AdmInv /\ (Accepts \/ Declines \/ PressesLate \/ \E k \in Knock : MembersVerb(k)) => AdmInv'
<1> SUFFICES ASSUME AdmInv,
                    Accepts \/ Declines \/ PressesLate \/ \E k \in Knock : MembersVerb(k)
             PROVE  AdmInv'
  OBVIOUS
<1>0. selected # 0 => selected \in Knock
  BY AdmissionAssumption DEF AdmInv, SelectedInv, Knock
<1>1. whims' \in 0 .. MaxUpsets
  BY UpsetSpent DEF Accepts, Declines, PressesLate, MembersVerb, AdmInv, SpentOK
<1>2. CASE Accepts
  BY <1>0, <1>1, <1>2, DecidedKeeps DEF Accepts
<1>3. CASE Declines
  BY <1>0, <1>1, <1>3, DecidedKeeps DEF Declines
<1>4. CASE PressesLate
  <2>1. RowsOK' /\ JoinersOK' /\ StreamOK' /\ FeedInv' /\ SelectedInv'
    BY <1>4, FeedStays, StreamStays, SelectedStays DEF PressesLate, AdmInv, RowsOK, JoinersOK
  <2>2. ConsoleOK' /\ SpentOK'
    BY <1>1, <1>4 DEF PressesLate, AdmInv, ConsoleOK, SpentOK
  <2> QED BY <2>1, <2>2 DEF AdmInv
<1>5. ASSUME NEW k \in Knock, MembersVerb(k) PROVE AdmInv'
  <2>1. PICK as \in {"admitted", "declined"} : Decided(k, as)
    BY <1>5 DEF MembersVerb
  <2>2. banner' \in BOOLEAN
    BY <1>5 DEF MembersVerb, AdmInv, ConsoleOK
  <2> QED BY <1>1, <1>5, <2>1, <2>2, DecidedKeeps DEF MembersVerb
<1> QED BY <1>2, <1>3, <1>4, <1>5

\* The door: who still waits when it closes is declined, each once.
LEMMA DoorFlipKeeps == AdmInv /\ FlipsDoor => AdmInv'
<1> SUFFICES ASSUME AdmInv, FlipsDoor PROVE AdmInv'
  OBVIOUS
<1> DEFINE awaited == {k \in Knock : row[k] = "pending" /\ access = "open"}
           each == [i \in 1 .. Cardinality(awaited) |->
                      <<"member.declined", Rising(awaited)[i]>>]
           door1 == <<<<"session.access", 0>>>>
<1>1. /\ access' \in {"open", "closed"} /\ cache' = <<>> /\ banner' = FALSE
      /\ row' = [k \in Knock |-> IF k \in awaited THEN "declined" ELSE row[k]]
      /\ Tells(door1 \o each)
      /\ UNCHANGED <<ownerOf, kept, secret, reqId, stage, live, sent, queued, pump, first, want,
                     cursor, roster, selected, shown, faults>>
  BY DEF FlipsDoor
<1>2. whims' \in 0 .. MaxUpsets
  BY UpsetSpent DEF FlipsDoor, AdmInv, SpentOK, RowsOK
<1>3. door1 \o each \in Seq(Event)
  <2>1. awaited \subseteq Knock /\ awaited \subseteq Nat
    BY DEF Knock
  <2>2. IsFiniteSet(Knock) /\ Knock \subseteq 0 .. MaxKnocks /\ 0 \in 0 .. MaxKnocks
    BY AdmissionAssumption, FS_Interval DEF Knock
  <2>3. IsFiniteSet(awaited)
    BY <2>1, <2>2, FS_Subset
  <2> HIDE DEF awaited
  <2>4. /\ Cardinality(awaited) \in Nat
        /\ \A n \in 1 .. Cardinality(awaited) : Rising(awaited)[n] \in awaited
    BY <2>1, <2>3, RisingLists
  <2>5. \A n \in 1 .. Cardinality(awaited) : <<"member.declined", Rising(awaited)[n]>> \in Event
    BY <2>1, <2>2, <2>4 DEF Event, EventKinds
  <2>6. each \in Seq(Event)
    BY <2>4, <2>5
  <2>7. door1 \in Seq(Event)
    <3>1. "session.access" \in EventKinds
      BY DEF EventKinds
    <3> QED BY <2>2, <3>1, OneEvent
  <2> HIDE DEF each, door1
  <2> QED BY <2>6, <2>7, ConcatProperties
<1> HIDE DEF each, door1
<1>4. StreamOK'
  BY <1>1, <1>3, LogGrows DEF AdmInv
<1>5. RowsOK' /\ JoinersOK'
  BY <1>1 DEF AdmInv, RowsOK, JoinersOK
<1>6. ConsoleOK' /\ SpentOK'
  BY <1>1, <1>2 DEF AdmInv, ConsoleOK, SpentOK
<1>7. SelectedInv' /\ FeedInv'
  BY <1>1, SelectedStays, FeedStays DEF AdmInv
<1> QED BY <1>4, <1>5, <1>6, <1>7 DEF AdmInv

\* Nobody has knocked.
LEMMA AdmStart == AdmissionInit => AdmInv
<1> SUFFICES ASSUME AdmissionInit PROVE AdmInv
  OBVIOUS
<1>1. RowsOK /\ JoinersOK /\ SpentOK
  BY AdmissionAssumption DEF AdmissionInit, RowsOK, JoinersOK, SpentOK
<1>2. StreamOK
  <2>1. Len(log) = 0 /\ log \in Seq(EventKinds \X (0 .. MaxKnocks))
    BY EmptySeq DEF AdmissionInit
  <2>2. queued \in Seq(1 .. Len(log)) /\ shown \in Seq(1 .. Len(log))
    BY EmptySeq DEF AdmissionInit
  <2>3. sent = 0 /\ cursor = 0 /\ live = FALSE
    BY DEF AdmissionInit
  <2>4. sent \in 0 .. Len(log) /\ cursor \in 0 .. Len(log)
    BY <2>1, <2>3
  <2> QED BY <2>1, <2>2, <2>3, <2>4 DEF StreamOK
<1>3. ConsoleOK
  BY DEF AdmissionInit, ConsoleOK
<1>4. SelectedInv
  BY EmptySeq, AdmissionAssumption DEF AdmissionInit, SelectedInv
<1>5. FeedInv
  <2>1. shown = <<>> /\ Len(shown) = 0 /\ Len(queued) = 0 /\ sent = 0 /\ cursor = 0
    BY EmptySeq DEF AdmissionInit
  <2>2. Span(1, 0) \in Seq(1 .. 0) /\ Len(Span(1, 0)) = 0
    BY SpanFromOne
  <2>3. Span(1, 0) = <<>>
    BY <2>2, EmptySeq
  <2> QED BY <2>1, <2>3 DEF FeedInv, FeedIsWhole, Gapless
<1> QED BY <1>1, <1>2, <1>3, <1>4, <1>5 DEF AdmInv

\* Every step of the admission keeps it, and only the user's moves the selection.
LEMMA AdmStep ==
  AdmInv /\ [AdmissionNext]_admissionVars =>
    AdmInv' /\ (Moves \/ selected = 0 \/ selected' = selected)
<1> SUFFICES ASSUME AdmInv, [AdmissionNext]_admissionVars
             PROVE  AdmInv' /\ (Moves \/ selected = 0 \/ selected' = selected)
  OBVIOUS
<1>1. CASE UNCHANGED admissionVars
  <2>1. /\ RowsOK' /\ JoinersOK' /\ StreamOK' /\ FeedInv' /\ SelectedInv' /\ ConsoleOK'
        /\ SpentOK'
    BY <1>1, FeedStays, StreamStays, SelectedStays
    DEF admissionVars, AdmInv, RowsOK, JoinersOK, ConsoleOK, SpentOK
  <2> QED BY <1>1, <2>1 DEF admissionVars, AdmInv
<1>2. ASSUME NEW j \in Newcomer,
             \/ Asks(j) \/ Redeems(j) \/ Answered(j) \/ Persists(j) \/ KnocksAgain(j)
             \/ JoinerDies(j) \/ Leaves(j)
      PROVE  AdmInv' /\ selected' = selected
  <2>1. AdmInv'
    BY <1>2, AsksKeeps, RedeemsKeeps, JoinersKeep, LeavesKeeps
  <2>2. selected' = selected
    BY <1>2 DEF Asks, Redeems, Answered, Persists, KnocksAgain, JoinerDies, Leaves
  <2> QED BY <2>1, <2>2
<1>3. CASE ServerRestarts \/ FrameArrives \/ Reconnects \/ StreamEnds
  <2>1. AdmInv'
    BY <1>3, ServerKeeps, FrameKeeps, ConnectionKeeps
  <2>2. selected' = selected
    BY <1>3 DEF ServerRestarts, FrameArrives, Reconnects, StreamEnds
  <2> QED BY <2>1, <2>2
<1>4. CASE Ticks \/ ReadsQueue
  BY <1>4, TicksKeeps, ReadsQueueKeeps
<1>5. CASE Moves
  BY <1>5, MovesKeeps
<1>6. CASE Accepts \/ Declines \/ PressesLate \/ \E k \in Knock : MembersVerb(k)
  <2>1. selected' = selected
    BY <1>6 DEF Accepts, Declines, PressesLate, MembersVerb
  <2> QED BY <1>6, <2>1, DecisionsKeep
<1>7. CASE FlipsDoor
  <2>1. selected' = selected
    BY <1>7 DEF FlipsDoor
  <2> QED BY <1>7, <2>1, DoorFlipKeeps
<1> QED BY <1>1, <1>2, <1>3, <1>4, <1>5, <1>6, <1>7 DEF AdmissionNext

-----------------------------------------------------------------------------
(* The box.                                                                 *)

\* The steps of a command before it has seen a box; those that have a baseline; and
\* those an invocation that is refused does not reach.
Unseen == {"claim", "seed", "invite", "validate", "preflight", "image", "baseline", "egress",
           "replace", "secret", "run", "waits", "asks", "watches"}
Based == {"egress", "replace", "secret", "run", "waits"}
Checked == {"preflight", "image", "baseline", "version"} \cup Based

\* The parts of the type invariant.
ChosenOK ==
  /\ flow \in {"add", "byo", "managed"} /\ networked \in BOOLEAN /\ opts \in Options
  /\ image \in {"none", "stale", "current"} /\ step \in Steps /\ seed \in Sites
  /\ container \in {"none", "boots", "claimed", "serves", "client", "error"}

NotedOK ==
  /\ earlier \in BOOLEAN /\ recorded \in BOOLEAN /\ envFile \in BOOLEAN
  /\ managed \in {"none", "requested", "provisioning", "ready", "failed"}
  /\ ended \in BOOLEAN /\ again \in 0 .. MaxAgain /\ boxSpent \in 0 .. MaxBoxFaults

PublishedOK ==
  /\ base \in Baseline /\ pinned \in 0 .. MaxPinned /\ serves \in Sites
  /\ seen \in [host : Sites, generation : 0 .. MaxPinned]

\* Until it sees one, a command has seen no box, and what is published is what was
\* parked there or somebody who announced since; what it saw is not what was parked.
SeenInv ==
  /\ step \in Unseen => seen.host = "none"
  /\ step \in Based /\ base.generation > 0 =>
       serves \in {"box", "other"} \/ Address(serves) = base.git
  /\ base.generation > 0 => seen.host \in {"none", "box", "other"}

\* A command that got past its flags is strict only of a version that is published,
\* and one that got past the check has it; a managed box is asked for and watched.
VersionInv ==
  /\ step = "claim" => flow # "add"
  /\ step \in {"asks", "watches"} => flow = "managed"
  /\ step \in Checked => ~(opts.strict /\ LatestFallback)
  /\ step \in {"cutover", "join", "scaffold", "done"} /\ opts.strict /\ flow # "managed"
       => image = "current"

BoxInv == ChosenOK /\ NotedOK /\ PublishedOK /\ SeenInv /\ VersionInv

\* The parts make the type invariant of the box.
LEMMA BoxInvTypes == BoxInv => BoxTypeOK
BY DEF BoxInv, BoxTypeOK, ChosenOK, NotedOK, PublishedOK

\* What the invariant is for: the box that is reported.
LEMMA BoxReported == BoxInv => ReportsTheBox
BY DEF BoxInv, ReportsTheBox, SeenInv, VersionInv

\* A fault is spent.
LEMMA BoxFaultSpent ==
  ASSUME NotedOK, NEW kind, BoxFault(kind) PROVE boxSpent' \in 0 .. MaxBoxFaults
BY BoxAssumption DEF BoxFault, NotedOK

\* Nothing has happened yet.
LEMMA BoxStart == BoxInit => BoxInv
<1> SUFFICES ASSUME BoxInit PROVE BoxInv
  OBVIOUS
<1>1. ChosenOK
  BY DEF BoxInit, ChosenOK, Steps, Sites
<1>2. NotedOK
  <2>1. again \in 0 .. MaxAgain /\ boxSpent \in 0 .. MaxBoxFaults
    BY BoxAssumption DEF BoxInit
  <2>2. earlier \in BOOLEAN
    <3>1. CASE flow = "add"
      BY <3>1 DEF BoxInit
    <3>2. CASE flow # "add"
      BY <3>2, Zenon DEF BoxInit
    <3> QED BY <3>1, <3>2
  <2>3. recorded = earlier /\ envFile = FALSE /\ managed = "none" /\ ended = FALSE
    BY DEF BoxInit
  <2> QED BY <2>1, <2>2, <2>3 DEF NotedOK
<1>3. PublishedOK
  BY DEF BoxInit, PublishedOK, Baseline, Sites, MaxPinned
<1>4. SeenInv /\ VersionInv
  <2>1. /\ seen.host = "none" /\ base.generation = 0 /\ step \in {"seed", "claim"}
        /\ step = "claim" => flow # "add"
    BY DEF BoxInit
  <2> QED BY <2>1 DEF SeenInv, VersionInv, Based, Checked
<1> QED BY <1>1, <1>2, <1>3, <1>4 DEF BoxInv

\* A step of the command that only moves on: what it is about says where it may.
LEMMA MovesOn ==
  ASSUME BoxInv, UNCHANGED <<flow, networked, opts, base, serves, seen, image>>, step' \in Steps,
         step' \in Unseen => step \in Unseen,
         step' \in Based => step \in Based,
         step' \in Checked => step \in Checked \/ ~(opts.strict /\ LatestFallback),
         step' = "claim" => step = "claim",
         step' \in {"asks", "watches"} => flow = "managed",
         step' \in {"cutover", "join", "scaffold", "done"} =>
           \/ step \in {"cutover", "join", "scaffold", "done"}
           \/ opts.strict /\ flow # "managed" => image = "current"
  PROVE  SeenInv' /\ VersionInv'
BY DEF BoxInv, SeenInv, VersionInv, Address, LatestFallback

\* The steps up to the container that change no more than where the command is.
LEMMA EarlyKeeps ==
  BoxInv /\ (\/ Invites \/ Validates \/ Preflights \/ BlocksEgress \/ Replaces \/ WritesSecret
             \/ RunsContainer \/ AsksForBox \/ JoinsSelf \/ Scaffolds) => BoxInv'
<1> SUFFICES ASSUME BoxInv,
                    \/ Invites \/ Validates \/ Preflights \/ BlocksEgress \/ Replaces
                    \/ WritesSecret \/ RunsContainer \/ AsksForBox \/ JoinsSelf \/ Scaffolds
             PROVE  BoxInv'
  OBVIOUS
<1> USE DEF Advances, Steps, Unseen, Based, Checked
<1>1. UNCHANGED <<flow, networked, opts, image, seed, base, pinned, serves, seen, recorded,
                  ended, again, boxSpent>>
  BY DEF Invites, Validates, Preflights, BlocksEgress, Replaces, WritesSecret, RunsContainer,
         AsksForBox, JoinsSelf, Scaffolds
<1>2. PublishedOK'
  BY <1>1 DEF BoxInv, PublishedOK
<1>3. ChosenOK' /\ NotedOK' /\ step' \in Steps
  <2>1. container' \in {container, "boots"} /\ step' \in Steps
    BY DEF Invites, Validates, Preflights, BlocksEgress, Replaces, WritesSecret,
       RunsContainer,
           AsksForBox, JoinsSelf, Scaffolds
  <2>2. managed' \in {managed, "requested"} /\ earlier' \in BOOLEAN /\ envFile' \in BOOLEAN
    BY DEF Invites, Validates, Preflights, BlocksEgress, Replaces, WritesSecret,
       RunsContainer,
           AsksForBox, JoinsSelf, Scaffolds, BoxInv, NotedOK
  <2>3. ChosenOK'
    BY <1>1, <2>1 DEF BoxInv, ChosenOK
  <2>4. NotedOK'
    BY <1>1, <2>2 DEF BoxInv, NotedOK
  <2> QED BY <2>1, <2>3, <2>4
<1>4. SeenInv' /\ VersionInv'
  <2>1. CASE Invites \/ Validates \/ Preflights
    BY <1>1, <2>1, MovesOn DEF Invites, Validates, Preflights
  <2>2. CASE BlocksEgress \/ Replaces \/ WritesSecret \/ RunsContainer
    BY <1>1, <2>2, MovesOn DEF BlocksEgress, Replaces, WritesSecret, RunsContainer
  <2>3. CASE AsksForBox
    BY <1>1, <2>3, MovesOn DEF AsksForBox, BoxInv, VersionInv
  <2>4. CASE JoinsSelf \/ Scaffolds
    BY <1>1, <2>4, MovesOn DEF JoinsSelf, Scaffolds
  <2> QED BY <2>1, <2>2, <2>3, <2>4
<1> QED BY <1>2, <1>3, <1>4 DEF BoxInv

\* The claim of a first run, the seed, and the image.
LEMMA PreparesKeeps == BoxInv /\ (ClaimsFirst \/ ResolvesSeed \/ HasImage) => BoxInv'
<1> SUFFICES ASSUME BoxInv, ClaimsFirst \/ ResolvesSeed \/ HasImage PROVE BoxInv'
  OBVIOUS
<1> USE DEF Advances, Steps, Unseen, Based, Checked
<1>1. CASE ClaimsFirst
  <2>1. NotedOK' /\ ChosenOK'
    BY <1>1 DEF ClaimsFirst, BoxInv, NotedOK, ChosenOK
  <2>2. PublishedOK'
    BY <1>1 DEF ClaimsFirst, BoxInv, PublishedOK, MaxPinned
  <2>3. SeenInv' /\ VersionInv'
    BY <1>1, MovesOn DEF ClaimsFirst, BoxInv, VersionInv, ChosenOK
  <2> QED BY <2>1, <2>2, <2>3 DEF BoxInv
<1>2. CASE ResolvesSeed
  <2>1. boxSpent' \in 0 .. MaxBoxFaults /\ seed' \in Sites
    BY <1>2, BoxFaultSpent DEF ResolvesSeed, BoxInv, NotedOK, PublishedOK, Sites
  <2>2. NotedOK' /\ ChosenOK'
    BY <1>2, <2>1 DEF ResolvesSeed, BoxInv, NotedOK, ChosenOK
  <2>3. PublishedOK'
    BY <1>2 DEF ResolvesSeed, BoxInv, PublishedOK
  <2>4. SeenInv' /\ VersionInv'
    BY <1>2, MovesOn DEF ResolvesSeed
  <2> QED BY <2>2, <2>3, <2>4 DEF BoxInv
<1>3. CASE HasImage
  <2>1. image' \in {"none", "stale", "current"}
    BY <1>3 DEF HasImage, BoxInv, ChosenOK
  <2>2. NotedOK' /\ ChosenOK' /\ PublishedOK'
    BY <1>3, <2>1 DEF HasImage, BoxInv, NotedOK, ChosenOK, PublishedOK
  <2>3. SeenInv' /\ VersionInv'
    BY <1>3 DEF HasImage, BoxInv, SeenInv, VersionInv, Address, LatestFallback
  <2> QED BY <2>2, <2>3 DEF BoxInv
<1> QED BY <1>1, <1>2, <1>3

\* The baseline is what is published when it is read.
LEMMA BaselineKeeps == BoxInv /\ ReadsBaseline => BoxInv'
<1> SUFFICES ASSUME BoxInv, ReadsBaseline PROVE BoxInv'
  OBVIOUS
<1> USE DEF Advances, Steps, Unseen, Based, Checked
<1>1. boxSpent' \in 0 .. MaxBoxFaults
  BY BoxFaultSpent DEF ReadsBaseline, BoxInv, NotedOK
<1>2. NotedOK' /\ ChosenOK'
  BY <1>1 DEF ReadsBaseline, BoxInv, NotedOK, ChosenOK
<1>3. /\ UNCHANGED <<flow, networked, opts, image, serves, seen, pinned>>
      /\ step = "baseline" /\ step' = "egress"
  BY DEF ReadsBaseline
<1>4. /\ base' \in Baseline
      /\ base'.generation > 0 => Address(serves) = base'.git
  <2>1. CASE base' = [generation |-> pinned, git |-> Address(serves)]
    BY <2>1 DEF BoxInv, PublishedOK, Baseline, Address
  <2>2. CASE base' = [generation |-> 0, git |-> "none"]
    BY <2>2 DEF Baseline, Sites, MaxPinned
  <2> QED BY <2>1, <2>2 DEF ReadsBaseline
<1>5. PublishedOK'
  BY <1>3, <1>4 DEF BoxInv, PublishedOK
<1>6. seen.host = "none"
  BY <1>3 DEF BoxInv, SeenInv
<1>7. SeenInv'
  BY <1>3, <1>4, <1>6 DEF SeenInv, Address
<1>8. VersionInv'
  BY <1>3 DEF BoxInv, VersionInv, LatestFallback
<1> QED BY <1>2, <1>5, <1>7, <1>8 DEF BoxInv

\* The container and whoever takes over: what is published is then one of theirs.
LEMMA OthersKeep ==
  BoxInv /\ (BoxClaims \/ BoxAnnounces \/ BoxGivesUp \/ OtherTakesOver \/ Provisioner) => BoxInv'
<1> SUFFICES ASSUME BoxInv,
                    BoxClaims \/ BoxAnnounces \/ BoxGivesUp \/ OtherTakesOver \/ Provisioner
             PROVE  BoxInv'
  OBVIOUS
<1>1. UNCHANGED <<flow, networked, opts, image, step, seed, base, seen, earlier, recorded,
                  envFile, ended, again>>
  BY DEF BoxClaims, BoxAnnounces, BoxGivesUp, OtherTakesOver, Provisioner
<1>2. serves' \in {serves, "box", "other"}
  BY DEF BoxClaims, BoxAnnounces, BoxGivesUp, OtherTakesOver, Provisioner
<1>3. pinned' \in 0 .. MaxPinned
  BY DEF BoxClaims, BoxAnnounces, BoxGivesUp, OtherTakesOver, Provisioner, BoxInv,
     PublishedOK,
         MaxPinned
<1>4. boxSpent' \in 0 .. MaxBoxFaults
  BY BoxFaultSpent DEF BoxClaims, BoxAnnounces, BoxGivesUp, OtherTakesOver, Provisioner,
     BoxInv,
     NotedOK
<1>5. /\ container' \in {container, "boots", "claimed", "serves", "client", "error"}
      /\ managed' \in {managed, "provisioning", "ready", "failed"}
  BY DEF BoxClaims, BoxAnnounces, BoxGivesUp, OtherTakesOver, Provisioner
<1>6. ChosenOK'
  BY <1>1, <1>5 DEF BoxInv, ChosenOK
<1>7. NotedOK'
  BY <1>1, <1>4, <1>5 DEF BoxInv, NotedOK
<1>8. PublishedOK'
  BY <1>1, <1>2, <1>3 DEF BoxInv, PublishedOK, Sites
<1>9. SeenInv' /\ VersionInv'
  BY <1>1, <1>2 DEF BoxInv, SeenInv, VersionInv, Address, LatestFallback
<1> QED BY <1>6, <1>7, <1>8, <1>9 DEF BoxInv

\* A command that fails.
LEMMA FailsKeeps ==
  ASSUME BoxInv, NEW from, FailsAt(from), boxSpent' \in 0 .. MaxBoxFaults PROVE BoxInv'
<1> USE DEF FailsAt, Steps, Unseen, Based, Checked
<1>1. ChosenOK' /\ PublishedOK'
  BY DEF BoxInv, ChosenOK, PublishedOK
<1>2. NotedOK'
  BY DEF BoxInv, NotedOK
<1>3. SeenInv' /\ VersionInv'
  BY MovesOn
<1> QED BY <1>1, <1>2, <1>3 DEF BoxInv

\* Wherever it fails.
LEMMA FailuresKeep ==
  BoxInv /\ (\/ ReadsItsError \/ WaitTimesOut \/ Refuses \/ FailsEarly \/ WaitForBoxFails
             \/ FlipConflicts \/ FailsLate) => BoxInv'
<1> SUFFICES ASSUME BoxInv,
                    \/ ReadsItsError \/ WaitTimesOut \/ Refuses \/ FailsEarly \/ WaitForBoxFails
                    \/ FlipConflicts \/ FailsLate
             PROVE  BoxInv'
  OBVIOUS
<1>1. boxSpent' \in 0 .. MaxBoxFaults
  BY BoxFaultSpent
  DEF ReadsItsError, WaitTimesOut, Refuses, FailsEarly, WaitForBoxFails, FlipConflicts,
  FailsLate,
      BoxInv, NotedOK
<1>2. \E from : FailsAt(from)
  BY DEF ReadsItsError, WaitTimesOut, Refuses, FailsEarly, WaitForBoxFails, FlipConflicts,
         FailsLate
<1> QED BY <1>1, <1>2, FailsKeeps

\* The box is seen: what is published is not what was parked there.
LEMMA SeesKeeps == BoxInv /\ (SeesTheBox \/ BoxIsReady) => BoxInv'
<1> SUFFICES ASSUME BoxInv, SeesTheBox \/ BoxIsReady PROVE BoxInv'
  OBVIOUS
<1> USE DEF Advances, Steps, Unseen, Based, Checked
<1>1. ChosenOK' /\ NotedOK'
  BY DEF SeesTheBox, BoxIsReady, BoxInv, ChosenOK, NotedOK
<1>2. UNCHANGED <<flow, networked, opts, image, base, serves, pinned>>
  BY DEF SeesTheBox, BoxIsReady
<1>3. \E h \in Sites : /\ seen' = [host |-> h, generation |-> pinned]
                       /\ base.generation > 0 => h \in {"box", "other"}
  BY DEF SeesTheBox, BoxIsReady, Announced, BoxInv, SeenInv, PublishedOK, Sites
<1>4. PublishedOK' /\ (base.generation > 0 => seen'.host \in {"box", "other"})
  BY <1>2, <1>3 DEF BoxInv, PublishedOK
<1>5. SeenInv'
  BY <1>2, <1>4 DEF SeesTheBox, BoxIsReady, SeenInv
<1>6. VersionInv'
  BY <1>2 DEF SeesTheBox, BoxIsReady, BoxInv, VersionInv, LatestFallback
<1> QED BY <1>1, <1>4, <1>5, <1>6 DEF BoxInv

\* Past the check of its version.
LEMMA ChecksKeeps == BoxInv /\ ChecksVersion => BoxInv'
<1> SUFFICES ASSUME BoxInv, ChecksVersion PROVE BoxInv'
  OBVIOUS
<1> USE DEF Advances, Steps, Unseen, Based, Checked
<1>1. /\ step = "version" /\ step' \in {"cutover", "done", "join"} /\ recorded' \in BOOLEAN
      /\ envFile' = FALSE
      /\ UNCHANGED <<flow, networked, opts, image, seed, base, pinned, serves, seen, container,
                     earlier, managed, ended, again, boxSpent>>
  BY DEF ChecksVersion, BoxInv, NotedOK
<1>2. ChosenOK' /\ PublishedOK'
  BY <1>1 DEF BoxInv, ChosenOK, PublishedOK
<1>3. NotedOK'
  BY <1>1 DEF BoxInv, NotedOK
<1>4. opts.strict => image = "current"
  BY <1>1 DEF ChecksVersion, VersionPasses, BoxInv, VersionInv
<1>5. SeenInv' /\ VersionInv'
  BY <1>1, <1>4, MovesOn
<1> QED BY <1>2, <1>3, <1>5 DEF BoxInv

\* The cutover publishes what was seen.
LEMMA CutsKeeps == BoxInv /\ CutsOver => BoxInv'
<1> SUFFICES ASSUME BoxInv, CutsOver PROVE BoxInv'
  OBVIOUS
<1> USE DEF Advances, Steps, Unseen, Based, Checked
<1>1. ChosenOK' /\ NotedOK'
  BY DEF CutsOver, BoxInv, ChosenOK, NotedOK
<1>2. PublishedOK'
  BY DEF CutsOver, BoxInv, PublishedOK, MaxPinned
<1>3. SeenInv' /\ VersionInv'
  BY DEF CutsOver, BoxInv, SeenInv, VersionInv
<1> QED BY <1>1, <1>2, <1>3 DEF BoxInv

\* The command is run again.
LEMMA RunsAgainKeeps == BoxInv /\ RunsAgain => BoxInv'
<1> SUFFICES ASSUME BoxInv, RunsAgain PROVE BoxInv'
  OBVIOUS
<1> USE DEF Advances, Steps, Unseen, Based, Checked
<1>1. ChosenOK'
  BY DEF RunsAgain, BoxInv, ChosenOK
<1>2. NotedOK'
  <2>1. earlier' \in BOOLEAN /\ again' \in 0 .. MaxAgain
    BY BoxAssumption DEF RunsAgain, BoxInv, NotedOK
  <2> QED BY <2>1 DEF RunsAgain, BoxInv, NotedOK
<1>3. PublishedOK'
  <2>1. serves' \in Sites /\ seen' \in [host : Sites, generation : 0 .. MaxPinned]
    BY DEF RunsAgain, BoxInv, PublishedOK, Sites, MaxPinned
  <2> QED BY <2>1 DEF RunsAgain, BoxInv, PublishedOK
<1>4. SeenInv' /\ VersionInv'
  BY DEF RunsAgain, SeenInv, VersionInv
<1> QED BY <1>1, <1>2, <1>3, <1>4 DEF BoxInv

\* Every step of the provision keeps it.
LEMMA BoxStep == BoxInv /\ [BoxNext]_boxVars => BoxInv'
<1> SUFFICES ASSUME BoxInv, [BoxNext]_boxVars PROVE BoxInv'
  OBVIOUS
<1>1. CASE UNCHANGED boxVars
  BY <1>1
  DEF boxVars, BoxInv, ChosenOK, NotedOK, PublishedOK, SeenInv, VersionInv, Address,
      LatestFallback
<1>2. CASE Command
  BY <1>2, EarlyKeeps, PreparesKeeps, BaselineKeeps, SeesKeeps, FailuresKeep, ChecksKeeps,
     CutsKeeps
  DEF Command
<1> QED BY <1>1, <1>2, FailuresKeep, RunsAgainKeeps, OthersKeep DEF BoxNext

-----------------------------------------------------------------------------
(* Telemetry.                                                               *)

\* An envelope accepted is in the ring, in the batch, or in a count; and only a
\* goroutine that posts holds a batch.
Accounted(em) ==
  /\ em \in Emitter
  /\ em.owed < CountCap => em.owed = em.ring + em.batch + em.dropped + em.told
  /\ em.at # "posts" => em.batch = 0 /\ em.told = 0

\* The emitters, and what is beside them.
EmittersOK == emitter \in [Emitters -> Emitter] /\ \A e \in Emitters : Accounted(emitter[e])

CyclesOK ==
  /\ member \in 0 .. MaxEmitters /\ ticket \in 0 .. MaxTickets
  /\ cycle \in [Cycle -> {"runs", "built", "closes", "stopped"}]
  /\ mine \in [Cycle -> 0 .. MaxEmitters]
  /\ ownLines \in 0 .. MaxLines /\ refusals \in 0 .. MaxRefusals

TelInv == EmittersOK /\ CyclesOK

\* The parts make the type invariant of the telemetry.
LEMMA TelInvTypes == TelInv => TelTypeOK
BY DEF TelInv, TelTypeOK, EmittersOK, CyclesOK

\* What the invariant is for: a gap is told.
LEMMA TelTold == TelInv => GapIsTold
BY DEF TelInv, GapIsTold, EmittersOK, Accounted

\* An emitter that was not built has nothing to account for.
LEMMA UnbuiltAccounted ==
  /\ Accounted(Unbuilt)
  /\ \A t \in 0 .. MaxTickets : Accounted([Unbuilt EXCEPT !.at = "takes", !.ticket = t])
<1>1. /\ 0 \in 0 .. QueueDepth /\ 0 \in 0 .. CountCap /\ 0 \in 0 .. BatchSize
      /\ 0 \in 0 .. MaxTickets /\ 0 = 0 + 0 + 0 + 0
  BY TelemetryAssumption
<1>2. Accounted(Unbuilt)
  <2>1. Unbuilt \in Emitter
    BY ONLY <1>1, SMTT(30) DEF Unbuilt, Emitter
  <2>2. /\ Unbuilt.owed = 0 /\ Unbuilt.ring = 0 /\ Unbuilt.batch = 0
        /\ Unbuilt.dropped = 0 /\ Unbuilt.told = 0 /\ Unbuilt.at = "off"
    BY DEF Unbuilt
  <2> QED BY <1>1, <2>1, <2>2 DEF Accounted
<1>3. ASSUME NEW t \in 0 .. MaxTickets
      PROVE  Accounted([Unbuilt EXCEPT !.at = "takes", !.ticket = t])
  <2> DEFINE new == [Unbuilt EXCEPT !.at = "takes", !.ticket = t]
  <2>1. Unbuilt \in Emitter
    BY <1>2 DEF Accounted
  <2>2. new \in Emitter
    BY ONLY <2>1, t \in 0 .. MaxTickets, Zenon DEF Emitter
  <2>3. /\ new.owed = 0 /\ new.ring = 0 /\ new.batch = 0
        /\ new.dropped = 0 /\ new.told = 0 /\ new.at = "takes"
    BY DEF Unbuilt
  <2> HIDE DEF new
  <2>4. Accounted(new)
    BY <1>1, <2>2, <2>3 DEF Accounted
  <2> QED BY <2>4 DEF new
<1> QED BY <1>2, <1>3

\* Emit keeps an emitter's account: the envelope is in the ring, or it takes the
\* place of one that is counted.
LEMMA EmitAccounted == ASSUME NEW em, Accounted(em) PROVE Accounted(Emit(em))
<1> USE TelemetryAssumption
<1>0. em \in Emitter
  BY DEF Accounted
<1>1. CASE em.closed
  BY <1>1 DEF Emit
<1>2. CASE ~em.closed /\ em.ring = QueueDepth
  <2> DEFINE d == Capped(em.dropped + 1)
             o == Capped(em.owed + 1)
             new == [em EXCEPT !.dropped = d, !.wake = TRUE, !.owed = o]
  <2>1. Emit(em) = new
    BY <1>0, <1>2 DEF Emit, Emitter
  <2>2. d \in 0 .. CountCap /\ o \in 0 .. CountCap
    BY <1>0 DEF Capped, Emitter
  <2>3. new \in Emitter
    BY <1>0, <2>2 DEF Emitter
  <2>4. o < CountCap => o = em.ring + em.batch + d + em.told
    BY <1>0 DEF Capped, Emitter, Accounted
  <2>5. /\ new.owed = o /\ new.dropped = d /\ new.ring = em.ring /\ new.batch = em.batch
        /\ new.told = em.told /\ new.at = em.at
    BY <1>0 DEF Emitter
  <2> HIDE DEF d, o, new
  <2> QED BY <2>1, <2>3, <2>4, <2>5 DEF Accounted
<1>3. CASE ~em.closed /\ em.ring # QueueDepth
  <2> DEFINE o == Capped(em.owed + 1)
             new == [em EXCEPT !.ring = @ + 1, !.wake = TRUE, !.owed = o]
  <2>1. Emit(em) = new
    BY <1>0, <1>3 DEF Emit, Emitter
  <2>2. em.ring + 1 \in 0 .. QueueDepth /\ o \in 0 .. CountCap
    BY <1>0, <1>3 DEF Capped, Emitter
  <2>3. new \in Emitter
    BY <1>0, <2>2 DEF Emitter
  <2>4. o < CountCap => o = em.ring + 1 + em.batch + em.dropped + em.told
    BY <1>0 DEF Capped, Emitter, Accounted
  <2>5. /\ new.owed = o /\ new.dropped = em.dropped /\ new.ring = em.ring + 1
        /\ new.batch = em.batch /\ new.told = em.told /\ new.at = em.at
    BY <1>0 DEF Emitter
  <2> HIDE DEF o, new
  <2> QED BY <2>1, <2>3, <2>4, <2>5 DEF Accounted
<1> QED BY <1>1, <1>2, <1>3

\* A line of the log goes to one emitter at most.
LEMMA LogsAccounted ==
  ASSUME NEW es \in [Emitters -> Emitter], \A e \in Emitters : Accounted(es[e])
  PROVE  Logs(es) \in [Emitters -> Emitter] /\ \A e \in Emitters : Accounted(Logs(es)[e])
<1>1. CASE member \in Emitters
  <2> DEFINE new == Emit(es[member])
  <2>1. Accounted(new)
    BY <1>1, EmitAccounted
  <2>2. new \in Emitter
    BY <2>1 DEF Accounted
  <2> HIDE DEF new
  <2>3. Logs(es) = es \/ Logs(es) = [es EXCEPT ![member] = new]
    BY DEF Logs, new
  <2> QED BY <2>1, <2>2, <2>3
<1>2. CASE member \notin Emitters
  <2> DEFINE new == Emit(es[member])
  <2>1. Logs(es) = es \/ Logs(es) = [es EXCEPT ![member] = new]
    BY DEF Logs
  <2> HIDE DEF new
  <2>2. Logs(es) = es
    BY <1>2, <2>1
  <2> QED BY <2>2
<1> QED BY <1>1, <1>2

\* One emitter changes, and its account holds.
LEMMA OneAccounted ==
  ASSUME EmittersOK, NEW e, NEW new, Accounted(new)
  PROVE  /\ [emitter EXCEPT ![e] = new] \in [Emitters -> Emitter]
         /\ \A i \in Emitters : Accounted([emitter EXCEPT ![e] = new][i])
BY DEF EmittersOK, Accounted

\* The program logs a line.
LEMMA NarratesKeeps == TelInv /\ Narrates => TelInv'
<1> SUFFICES ASSUME TelInv, Narrates PROVE TelInv'
  OBVIOUS
<1>1. CyclesOK'
  BY TelemetryAssumption DEF TelInv, Narrates, CyclesOK
<1>2. EmittersOK'
  BY LogsAccounted DEF TelInv, Narrates, EmittersOK
<1> QED BY <1>1, <1>2 DEF TelInv

\* take moves what it takes from the ring to the batch, and the count with it.
LEMMA TakesKeeps == \A e \in Emitters : TelInv /\ Takes(e) => TelInv'
<1> SUFFICES ASSUME TelInv, NEW e \in Emitters, Takes(e) PROVE TelInv'
  OBVIOUS
<1> USE TelemetryAssumption
<1>0. emitter[e] \in Emitter /\ Accounted(emitter[e]) /\ emitter[e].at = "takes"
  BY DEF TelInv, EmittersOK, Takes, Goroutine
<1>1. CyclesOK'
  BY DEF TelInv, Takes, Goroutine, CyclesOK
<1> DEFINE em == emitter[e]
           n == IF em.ring > BatchSize THEN BatchSize ELSE em.ring
           taken == [em EXCEPT !.at = "posts", !.ring = @ - n, !.batch = n,
                               !.told = em.dropped, !.dropped = 0]
           looks == [em EXCEPT !.at = "checks"]
<1>2. \/ emitter' = [emitter EXCEPT ![e] = looks]
      \/ emitter' = [emitter EXCEPT ![e] = taken]
      \/ emitter' = Logs([emitter EXCEPT ![e] = taken])
  BY Zenon DEF Takes
<1>3. Accounted(looks)
  <2>1. looks \in Emitter /\ looks.at = "checks"
    BY <1>0 DEF Emitter
  <2>2. /\ looks.owed = em.owed /\ looks.ring = em.ring /\ looks.batch = em.batch
        /\ looks.dropped = em.dropped /\ looks.told = em.told
    BY <1>0 DEF Emitter
  <2> HIDE DEF looks
  <2> QED BY <1>0, <2>1, <2>2 DEF Accounted
<1>4. Accounted(taken)
  <2>1. n \in 0 .. BatchSize /\ em.ring - n \in 0 .. QueueDepth
    BY <1>0 DEF Emitter
  <2>6. em.dropped \in 0 .. CountCap /\ 0 \in 0 .. CountCap
    BY <1>0 DEF Emitter
  <2> HIDE DEF n
  <2>2. taken \in Emitter
    BY ONLY <1>0, <2>1, <2>6, Zenon DEF Emitter
  <2>3. /\ taken.owed = em.owed /\ taken.ring = em.ring - n /\ taken.batch = n
        /\ taken.dropped = 0 /\ taken.told = em.dropped /\ taken.at = "posts"
    BY <1>0 DEF Emitter
  <2>4. em.batch = 0 /\ em.told = 0
    BY <1>0 DEF Accounted
  <2>5. em.owed < CountCap => em.owed = (em.ring - n) + n + 0 + em.dropped
    BY <1>0, <2>1, <2>4 DEF Accounted, Emitter
  <2> HIDE DEF taken
  <2> QED BY <2>2, <2>3, <2>5 DEF Accounted
<1> HIDE DEF taken, looks
<1>5. EmittersOK
  BY DEF TelInv
<1>6. EmittersOK'
  <2> DEFINE es == [emitter EXCEPT ![e] = taken]
  <2>1. es \in [Emitters -> Emitter] /\ \A i \in Emitters : Accounted(es[i])
    BY <1>4, <1>5, OneAccounted
  <2>2. Logs(es) \in [Emitters -> Emitter] /\ \A i \in Emitters : Accounted(Logs(es)[i])
    BY <2>1, LogsAccounted
  <2>3. CASE emitter' = [emitter EXCEPT ![e] = looks]
    BY <1>3, <1>5, <2>3, OneAccounted DEF EmittersOK
  <2> QED BY <1>2, <2>1, <2>2, <2>3 DEF EmittersOK
<1> QED BY <1>1, <1>6 DEF TelInv

\* The goroutine looks whether it is done, or wakes.
LEMMA WakesKeeps == \A e \in Emitters : TelInv /\ (ChecksClosed(e) \/ WakesOn(e)) => TelInv'
<1> SUFFICES ASSUME TelInv, NEW e \in Emitters, ChecksClosed(e) \/ WakesOn(e) PROVE TelInv'
  OBVIOUS
<1>0. emitter[e] \in Emitter /\ Accounted(emitter[e]) /\ emitter[e].at # "posts" /\ EmittersOK
  BY DEF TelInv, EmittersOK, ChecksClosed, WakesOn, Goroutine
<1>1. CyclesOK'
  BY DEF TelInv, ChecksClosed, WakesOn, Goroutine, CyclesOK
<1>2. PICK new \in Emitter :
        /\ emitter' = [emitter EXCEPT ![e] = new] /\ new.at # "posts"
        /\ new.owed = emitter[e].owed /\ new.ring = emitter[e].ring
        /\ new.batch = emitter[e].batch /\ new.dropped = emitter[e].dropped
        /\ new.told = emitter[e].told
  <2>1. CASE ChecksClosed(e)
    <3> DEFINE to == IF emitter[e].at = "checks" /\ emitter[e].closed THEN "done" ELSE "waits"
               new == [emitter[e] EXCEPT !.at = to]
    <3>1. emitter' = [emitter EXCEPT ![e] = new]
      BY <2>1, <1>0 DEF ChecksClosed, TelInv, EmittersOK
    <3>2. to \in {"done", "waits"}
      OBVIOUS
    <3> HIDE DEF to
    <3>3. /\ new \in Emitter /\ new.at # "posts"
          /\ new.owed = emitter[e].owed /\ new.ring = emitter[e].ring
          /\ new.batch = emitter[e].batch /\ new.dropped = emitter[e].dropped
          /\ new.told = emitter[e].told
      BY <1>0, <3>2 DEF Emitter
    <3> HIDE DEF new
    <3> QED BY <3>1, <3>3
  <2>2. CASE WakesOn(e)
    <3> DEFINE new == [emitter[e] EXCEPT !.at = "takes", !.wake = FALSE]
    <3>1. emitter' = [emitter EXCEPT ![e] = new]
      BY <2>2, <1>0 DEF WakesOn, TelInv, EmittersOK
    <3>3. /\ new \in Emitter /\ new.at # "posts"
          /\ new.owed = emitter[e].owed /\ new.ring = emitter[e].ring
          /\ new.batch = emitter[e].batch /\ new.dropped = emitter[e].dropped
          /\ new.told = emitter[e].told
      BY <1>0 DEF Emitter
    <3> HIDE DEF new
    <3> QED BY <3>1, <3>3
  <2> QED BY <2>1, <2>2
<1>3. Accounted(new)
  BY <1>0, <1>2 DEF Accounted
<1>4. EmittersOK'
  BY <1>0, <1>2, <1>3, OneAccounted DEF EmittersOK
<1> QED BY <1>1, <1>4 DEF TelInv

\* A batch that lands, and the count it carried, are owed no longer.
LEMMA LandsKeeps == \A e \in Emitters : TelInv /\ Lands(e) => TelInv'
<1> SUFFICES ASSUME TelInv, NEW e \in Emitters, Lands(e) PROVE TelInv'
  OBVIOUS
<1> USE TelemetryAssumption
<1>0. emitter[e] \in Emitter /\ Accounted(emitter[e]) /\ EmittersOK
  BY DEF TelInv, EmittersOK
<1>1. CyclesOK'
  BY DEF TelInv, Lands, Goroutine, CyclesOK
<1> DEFINE em == emitter[e]
           o == Less(em.owed, em.batch + em.told)
           new == [em EXCEPT !.at = "takes", !.batch = 0, !.told = 0, !.owed = o]
<1>2. emitter' = [emitter EXCEPT ![e] = new]
  BY <1>0 DEF Lands, TelInv, EmittersOK, Emitter
<1>3. o \in 0 .. CountCap /\ (o < CountCap => o = em.ring + em.dropped)
  BY <1>0 DEF Less, Accounted, Emitter
<1> HIDE DEF o
<1>9. 0 \in 0 .. BatchSize /\ 0 \in 0 .. CountCap
  OBVIOUS
<1>4. new \in Emitter
  BY ONLY <1>0, <1>3, <1>9, Zenon DEF Emitter
<1>5. /\ new.owed = o /\ new.ring = em.ring /\ new.batch = 0 /\ new.dropped = em.dropped
      /\ new.told = 0 /\ new.at = "takes"
  BY <1>0 DEF Emitter
<1> HIDE DEF new
<1>6. em.ring + em.dropped = em.ring + 0 + em.dropped + 0
  BY <1>0 DEF Emitter
<1>7. Accounted(new)
  BY <1>3, <1>4, <1>5, <1>6 DEF Accounted
<1>8. EmittersOK'
  BY <1>0, <1>2, <1>7, OneAccounted DEF EmittersOK
<1> QED BY <1>1, <1>8 DEF TelInv

\* A batch that is refused is counted, with the count it carried.
LEMMA IngestRefusesKeeps == \A e \in Emitters : TelInv /\ IngestRefuses(e) => TelInv'
<1> SUFFICES ASSUME TelInv, NEW e \in Emitters, IngestRefuses(e) PROVE TelInv'
  OBVIOUS
<1> USE TelemetryAssumption
<1>0. emitter[e] \in Emitter /\ Accounted(emitter[e]) /\ EmittersOK
  BY DEF TelInv, EmittersOK
<1>1. CyclesOK'
  BY DEF TelInv, IngestRefuses, Goroutine, Down, CyclesOK
<1> DEFINE em == emitter[e]
           d == Capped(Given(em))
           new == [em EXCEPT !.at = "takes", !.batch = 0, !.told = 0, !.dropped = d]
           es == [emitter EXCEPT ![e] = new]
<1>2. emitter' = Logs(es)
  BY <1>0 DEF IngestRefuses, TelInv, EmittersOK, Emitter
<1>3. d \in 0 .. CountCap /\ (em.owed < CountCap => em.owed = em.ring + d)
  BY <1>0 DEF Capped, Given, Accounted, Emitter
<1> HIDE DEF d
<1>9. 0 \in 0 .. BatchSize /\ 0 \in 0 .. CountCap
  OBVIOUS
<1>4. new \in Emitter
  BY ONLY <1>0, <1>3, <1>9, Zenon DEF Emitter
<1>5. /\ new.owed = em.owed /\ new.ring = em.ring /\ new.batch = 0 /\ new.dropped = d
      /\ new.told = 0 /\ new.at = "takes"
  BY <1>0 DEF Emitter
<1> HIDE DEF new
<1>6. em.ring + d = em.ring + 0 + d + 0
  BY <1>0, <1>3 DEF Emitter
<1>7. Accounted(new)
  BY <1>3, <1>4, <1>5, <1>6 DEF Accounted
<1>8. es \in [Emitters -> Emitter] /\ \A i \in Emitters : Accounted(es[i])
  BY <1>0, <1>7, OneAccounted
<1> HIDE DEF es
<1>10. EmittersOK'
  BY <1>2, <1>8, LogsAccounted DEF EmittersOK
<1> QED BY <1>1, <1>10 DEF TelInv

\* Close says no more than that there will be no more.
LEMMA ClosedAccounted == ASSUME NEW em, Accounted(em) PROVE Accounted(Closed(em))
<1>0. em \in Emitter
  BY DEF Accounted
<1> DEFINE new == Closed(em)
<1>1. new \in Emitter
  BY <1>0 DEF Closed, Emitter
<1>2. /\ new.owed = em.owed /\ new.ring = em.ring /\ new.batch = em.batch
      /\ new.dropped = em.dropped /\ new.told = em.told /\ new.at = em.at
  BY <1>0 DEF Closed, Emitter
<1> HIDE DEF new
<1>3. Accounted(new)
  BY <1>1, <1>2 DEF Accounted
<1> QED BY <1>3 DEF new

\* So an emitter that is closed leaves every account as it is.
LEMMA ClosedKeeps ==
  ASSUME EmittersOK, NEW e
  PROVE  /\ [emitter EXCEPT ![e] = Closed(@)] \in [Emitters -> Emitter]
         /\ \A i \in Emitters : Accounted([emitter EXCEPT ![e] = Closed(@)][i])
<1> DEFINE new == Closed(emitter[e])
           es == [emitter EXCEPT ![e] = new]
<1>1. CASE e \in Emitters
  <2>1. Accounted(new)
    BY <1>1, ClosedAccounted DEF EmittersOK
  <2> HIDE DEF new
  <2>2. es \in [Emitters -> Emitter] /\ \A i \in Emitters : Accounted(es[i])
    BY <2>1, OneAccounted
  <2> QED BY <2>2 DEF new
<1>2. CASE e \notin Emitters
  <2> HIDE DEF new
  <2>1. es = emitter
    BY <1>2 DEF EmittersOK
  <2>2. es \in [Emitters -> Emitter] /\ \A i \in Emitters : Accounted(es[i])
    BY <2>1 DEF EmittersOK
  <2> QED BY <2>2 DEF new
<1> QED BY <1>1, <1>2

\* The cycles: an emitter that is built, put in, handed back, and closed.
LEMMA CyclesKeep ==
  \A c \in Cycle :
    TelInv /\ (Builds(c) \/ Installs(c) \/ CloseReturns(c) \/ Stops(c)) => TelInv'
<1> SUFFICES ASSUME TelInv, NEW c \in Cycle,
                    Builds(c) \/ Installs(c) \/ CloseReturns(c) \/ Stops(c)
             PROVE  TelInv'
  OBVIOUS
<1> USE TelemetryAssumption
<1>0. EmittersOK /\ CyclesOK
  BY DEF TelInv
<1>2. CASE Builds(c)
  <2>1. CyclesOK'
    BY <1>0, <1>2 DEF Builds, CyclesOK, Emitters
  <2>2. EmittersOK'
    <3> DEFINE new == [Unbuilt EXCEPT !.at = "takes", !.ticket = ticket]
    <3>1. PICK e \in Emitters : emitter' = [emitter EXCEPT ![e] = new]
      BY <1>2 DEF Builds
    <3>2. Accounted(new)
      BY <1>0, UnbuiltAccounted DEF CyclesOK
    <3> HIDE DEF new
    <3> QED BY <1>0, <3>1, <3>2, OneAccounted DEF EmittersOK
  <2> QED BY <2>1, <2>2 DEF TelInv
<1>3. CASE Installs(c)
  <2>1. PICK e \in 0 .. MaxEmitters : Closes(c, e) /\ member' \in 0 .. MaxEmitters
    <3>1. mine[c] \in 0 .. MaxEmitters /\ member \in 0 .. MaxEmitters
      BY <1>0 DEF CyclesOK
    <3>2. CASE member' = member /\ Closes(c, mine[c])
      BY <3>1, <3>2
    <3>3. CASE member' = mine[c] /\ Closes(c, member)
      BY <3>1, <3>3
    <3> QED BY <1>3, <3>2, <3>3 DEF Installs
  <2>2. CyclesOK'
    BY <1>0, <1>3, <2>1 DEF Installs, Closes, CyclesOK
  <2>3. EmittersOK'
    <3>1. emitter' = emitter \/ emitter' = [emitter EXCEPT ![e] = Closed(@)]
      BY <2>1 DEF Closes
    <3>2. CASE emitter' = emitter
      BY <1>0, <3>2 DEF EmittersOK
    <3>3. CASE emitter' = [emitter EXCEPT ![e] = Closed(@)]
      <4>1. emitter' \in [Emitters -> Emitter] /\ \A i \in Emitters : Accounted(emitter'[i])
        BY <1>0, <3>3, ClosedKeeps
      <4> QED BY <4>1 DEF EmittersOK
    <3> QED BY <3>1, <3>2, <3>3
  <2> QED BY <2>2, <2>3 DEF TelInv
<1>4. CASE CloseReturns(c)
  BY <1>4 DEF CloseReturns, TelInv, EmittersOK, CyclesOK, Accounted
<1>5. CASE Stops(c)
  <2>1. CyclesOK'
    BY <1>0, <1>5 DEF Stops, CyclesOK
  <2>2. emitter' = [emitter EXCEPT ![member] = Closed(@)]
    BY <1>5 DEF Stops
  <2>3. emitter' \in [Emitters -> Emitter] /\ \A i \in Emitters : Accounted(emitter'[i])
    BY <1>0, <2>2, ClosedKeeps
  <2> QED BY <2>1, <2>3 DEF TelInv, EmittersOK
<1> QED BY <1>2, <1>3, <1>4, <1>5

\* The account of nothing.
LEMMA TelStart == TelInit => TelInv
<1> SUFFICES ASSUME TelInit PROVE TelInv
  OBVIOUS
<1>1. CyclesOK
  BY TelemetryAssumption DEF TelInit, CyclesOK
<1>2. EmittersOK
  BY UnbuiltAccounted DEF TelInit, EmittersOK, Accounted
<1> QED BY <1>1, <1>2 DEF TelInv

\* Every step of the telemetry keeps every account.
LEMMA TelStep == TelInv /\ [TelNext]_telVars => TelInv'
<1> SUFFICES ASSUME TelInv, [TelNext]_telVars PROVE TelInv'
  OBVIOUS
<1>1. CASE UNCHANGED telVars
  BY <1>1 DEF telVars, TelInv, EmittersOK, CyclesOK, Accounted
<1>2. CASE \E e \in Emitters : DeliversOn(e)
  BY <1>2, TakesKeeps, WakesKeeps, LandsKeeps, IngestRefusesKeeps DEF DeliversOn
<1>3. CASE RenewsTicket
  BY <1>3, TelemetryAssumption DEF RenewsTicket, TelInv, EmittersOK, CyclesOK, Accounted
<1>4. CASE \E c \in Cycle : Builds(c) \/ Installs(c) \/ CloseReturns(c) \/ Stops(c)
  BY <1>4, CyclesKeep
<1> QED BY <1>1, <1>2, <1>3, <1>4, NarratesKeeps DEF TelNext

-----------------------------------------------------------------------------
(* A session that connects its machines.                                    *)

\* Every component keeps its invariant, whichever of them moves.
SessionInvariant ==
  /\ part \in {"net", "admission", "box", "telemetry"}
  /\ NetInv /\ AdmInv /\ BoxInv /\ TelInv

\* The invariant of all four holds at first.
LEMMA SessionInvariantStarts == Init => SessionInvariant
BY NetStart, AdmStart, BoxStart, TelStart DEF Init, SessionInvariant

\* A component that does not move keeps its invariant.
LEMMA OthersStay ==
  /\ NetInv /\ UNCHANGED netVars => NetInv'
  /\ AdmInv /\ UNCHANGED admissionVars => AdmInv'
  /\ BoxInv /\ UNCHANGED boxVars => BoxInv'
  /\ TelInv /\ UNCHANGED telVars => TelInv'
BY NetStep, AdmStep, BoxStep, TelStep

\* Every step keeps the invariant of all, and moves the selection only where the
\* user does.
LEMMA SessionInvariantKept ==
  SessionInvariant /\ [Next]_vars =>
    SessionInvariant' /\ [Moves \/ selected = 0 \/ selected' = selected]_<<selected, roster>>
<1> SUFFICES ASSUME SessionInvariant, [Next]_vars
             PROVE  /\ SessionInvariant'
                    /\ Moves \/ selected = 0 \/ selected' = selected
  OBVIOUS
<1>1. CASE NetNext /\ UNCHANGED <<admissionVars, boxVars, telVars>> /\ UNCHANGED part
  <2>1. selected' = selected
    BY <1>1 DEF admissionVars
  <2>2. NetInv' /\ AdmInv' /\ BoxInv' /\ TelInv'
    BY <1>1, NetStep, OthersStay DEF SessionInvariant
  <2> QED BY <1>1, <2>1, <2>2 DEF SessionInvariant
<1>2. CASE AdmissionNext /\ UNCHANGED <<netVars, boxVars, telVars>> /\ UNCHANGED part
  <2>1. AdmInv' /\ (Moves \/ selected = 0 \/ selected' = selected)
    BY <1>2, AdmStep DEF SessionInvariant
  <2>2. NetInv' /\ BoxInv' /\ TelInv'
    BY <1>2, OthersStay DEF SessionInvariant
  <2> QED BY <1>2, <2>1, <2>2 DEF SessionInvariant
<1>3. CASE BoxNext /\ UNCHANGED <<netVars, admissionVars, telVars>> /\ UNCHANGED part
  <2>1. selected' = selected
    BY <1>3 DEF admissionVars
  <2>2. NetInv' /\ AdmInv' /\ BoxInv' /\ TelInv'
    BY <1>3, BoxStep, OthersStay DEF SessionInvariant
  <2> QED BY <1>3, <2>1, <2>2 DEF SessionInvariant
<1>4. CASE TelNext /\ UNCHANGED <<netVars, admissionVars, boxVars>> /\ UNCHANGED part
  <2>1. selected' = selected
    BY <1>4 DEF admissionVars
  <2>2. NetInv' /\ AdmInv' /\ BoxInv' /\ TelInv'
    BY <1>4, TelStep, OthersStay DEF SessionInvariant
  <2> QED BY <1>4, <2>1, <2>2 DEF SessionInvariant
<1>5. CASE UNCHANGED vars
  <2>1. selected' = selected
    BY <1>5 DEF vars, admissionVars
  <2>2. NetInv' /\ AdmInv' /\ BoxInv' /\ TelInv'
    BY <1>5, OthersStay DEF vars, SessionInvariant
  <2> QED BY <1>5, <2>1, <2>2 DEF vars, SessionInvariant
<1> QED BY <1>1, <1>2, <1>3, <1>4, <1>5 DEF Next

\* So it holds of every behaviour.
LEMMA SessionInvariantAlways == Spec => []SessionInvariant
<1>1. Spec => Init /\ [][Next]_vars
  BY PTL DEF Spec
<1> QED BY <1>1, SessionInvariantStarts, SessionInvariantKept, PTL

\* Every variable of a session's connections keeps its type: the relay's counter is
\* the number of those who hold a slot, and nobody has read more of a log than there
\* is.
THEOREM SessionTypes == Spec => []TypeOK
<1>1. SessionInvariant => TypeOK
  BY NetInvTypes, AdmInvTypes, BoxInvTypes, TelInvTypes DEF SessionInvariant, TypeOK
<1> QED BY <1>1, SessionInvariantAlways, PTL

\* What members are told is so, for any number of cycles, knocks and faults: an
\* envelope that is dropped is counted until a batch has said so, the feed is the
\* session's log from its first event on, and the box that a provision reports is not
\* the one that was parked there.
THEOREM WhatIsToldIsSoAlways == Spec => []WhatIsToldIsSo
<1>1. SessionInvariant => WhatIsToldIsSo
  BY TelTold, BoxReported DEF SessionInvariant, WhatIsToldIsSo, AdmInv, FeedInv
<1> QED BY <1>1, SessionInvariantAlways, PTL

\* The selection on the users tab stays on the member it was on until the user moves
\* it, whatever the session, the queue and other members do.
THEOREM SelectionStaysAlways == Spec => SelectionStays
<1>1. Spec => Init /\ [][Next]_vars
  BY PTL DEF Spec
<1>2. SessionInvariant /\ [Next]_vars =>
        [Moves \/ selected = 0 \/ selected' = selected]_<<selected, roster>>
  BY SessionInvariantKept
<1> QED BY <1>1, <1>2, SessionInvariantAlways, PTL DEF SelectionStays
=============================================================================
