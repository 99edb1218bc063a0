-------------------------- MODULE PlacementProofs --------------------------
(***************************************************************************)
(* Proofs about Placement, for any roster, any ranking and any services:    *)
(* the ranking is a strict total order, so the members that rank the same   *)
(* document agree on one best member; every variable keeps its type; and,   *)
(* while no owner stalls and nobody overrules placement, whoever serves a   *)
(* service holds its live lease, so no two members serve it, and every step *)
(* is one that LeaseContract allows.                                        *)
(***************************************************************************)
EXTENDS Placement, TLAPS

-----------------------------------------------------------------------------
(* The ranking of placement.go.                                             *)

LEMMA ProfileFacts ==
  ASSUME NEW m \in Member
  PROVE  /\ Profile[m].id \in Nat /\ Profile[m].score \in Nat
         /\ Profile[m].height \in Nat
  BY ProfileAssumption DEF ProfileType

LEMMA FreshnessIsNat ==
  ASSUME NEW m \in Member, NEW s
  PROVE  Freshness(m, s) \in Nat
  BY ProfileFacts DEF Freshness

LEMMA BoxedIsBoolean ==
  ASSUME NEW m \in Member, NEW s
  PROVE  Boxed(m, s) \in BOOLEAN
  BY DEF Boxed

\* less never puts a member before itself.
THEOREM OutranksIrreflexive ==
  ASSUME NEW m \in Member, NEW s
  PROVE  ~ Outranks(m, m, s)
  BY ProfileFacts, FreshnessIsNat DEF Outranks

\* less is transitive: the sort in Rank is well defined.
THEOREM OutranksTransitive ==
  ASSUME NEW a \in Member, NEW b \in Member, NEW c \in Member, NEW s,
         Outranks(a, b, s), Outranks(b, c, s)
  PROVE  Outranks(a, c, s)
  <1>1. /\ Profile[a].id \in Nat /\ Profile[b].id \in Nat /\ Profile[c].id \in Nat
        /\ Profile[a].score \in Nat /\ Profile[b].score \in Nat /\ Profile[c].score \in Nat
    BY ProfileFacts
  <1>2. /\ Freshness(a, s) \in Nat /\ Freshness(b, s) \in Nat /\ Freshness(c, s) \in Nat
    BY FreshnessIsNat
  <1> QED
    BY <1>1, <1>2 DEF Outranks

\* less decides between any two members: "every tie-break is total".
THEOREM OutranksTotal ==
  ASSUME NEW a \in Member, NEW b \in Member, NEW s, a # b
  PROVE  Outranks(a, b, s) \/ Outranks(b, a, s)
  <1>1. Profile[a].id # Profile[b].id
    BY ProfileAssumption
  <1>2. /\ Profile[a].id \in Nat /\ Profile[b].id \in Nat
        /\ Profile[a].score \in Nat /\ Profile[b].score \in Nat
    BY ProfileFacts
  <1>3. Freshness(a, s) \in Nat /\ Freshness(b, s) \in Nat
    BY FreshnessIsNat
  <1> QED
    BY <1>1, <1>2, <1>3 DEF Outranks

\* Two members that read the same document never both decide to claim.
THEOREM OneClaimantPerDocument ==
  ASSUME NEW doc, NEW s, NEW m \in Member, NEW n \in Member,
         ShouldClaim(doc, s, m), ShouldClaim(doc, s, n)
  PROVE  m = n
  <1>1. m \in Eligible(doc, s) /\ n \in Eligible(doc, s)
    BY DEF ShouldClaim, IsBest
  <1>2. ~ Outranks(n, m, s) /\ ~ Outranks(m, n, s)
    BY <1>1 DEF ShouldClaim, IsBest
  <1> QED
    BY <1>2, OutranksTotal

-----------------------------------------------------------------------------
(* Type correctness.                                                        *)

LEMMA ServicesFacts ==
  /\ Len(Services) \in Nat \ {0}
  /\ 1 \in 1 .. Len(Services)
  /\ \A i \in 1 .. Len(Services) : Services[i] \in Service
  BY ServicesAssumption DEF Service

LEMMA LeasesAreTyped ==
  /\ Free \in Lease
  /\ \A m \in Member : OwnedBy(m) \in Lease
  BY DEF Free, OwnedBy, Lease

LEMMA BlankIsDocument == Blank \in Document
  BY LeasesAreTyped DEF Blank, Document, Presence

LEMMA DocIsDocument ==
  ASSUME TypeOK
  PROVE  Doc \in Document
  BY DEF TypeOK, Doc, Document

LEMMA SessionIsDocument ==
  ASSUME TypeOK, NEW m \in Member
  PROVE  Session(m) \in Document
  BY DocIsDocument DEF TypeOK, Session

LEMMA FingerprintIsTyped ==
  ASSUME NEW doc \in Document
  PROVE  Fingerprint(doc) \in FingerprintType
  BY DEF Fingerprint, FingerprintType, Document, Lease

LEMMA CachedIsTyped ==
  ASSUME TypeOK, NEW m \in Member, NEW s \in Service, NEW l \in Lease
  PROVE  Cached(m, s, l) \in [Member -> Document]
  <1> DEFINE patched == [cache[m] EXCEPT !.lease[s] = l]
  <1>1. cache \in [Member -> Document]
    BY DEF TypeOK
  <1>2. /\ cache[m].lease \in [Service -> Lease]
        /\ cache[m] \in Document
    BY <1>1 DEF Document
  <1>3. [cache[m].lease EXCEPT ![s] = l] \in [Service -> Lease]
    BY <1>2
  <1>4. patched \in Document
    BY <1>2, <1>3 DEF Document
  <1>5. [cache EXCEPT ![m] = patched] \in [Member -> Document]
    BY <1>1, <1>4
  <1> QED
    BY <1>1, <1>5 DEF Cached

LEMMA AdvanceIsTyped ==
  ASSUME TypeOK, NEW m \in Member, Advance(m)
  PROVE  /\ at' \in [Member -> 1 .. Len(Services)]
         /\ phase' \in [Member -> Phase]
         /\ snap' \in [Member -> Document]
  <1>1. at' \in [Member -> 1 .. Len(Services)]
    BY ServicesFacts DEF TypeOK, Advance
  <1>2. phase' \in [Member -> Phase]
    BY DEF TypeOK, Advance, Phase
  <1>3. snap' \in [Member -> Document]
    BY BlankIsDocument DEF TypeOK, Advance
  <1> QED
    BY <1>1, <1>2, <1>3

LEMMA AtIsService ==
  ASSUME TypeOK, NEW m \in Member
  PROVE  At(m) \in Service
  BY ServicesFacts DEF TypeOK, At

USE DEF document, view, tick, loop, outbox, life

LEMMA ReportKeepsTypes ==
  ASSUME TypeOK, NEW m \in Member, NEW s \in Service, Report(m, s)
  PROVE  /\ lease' \in [Service -> Lease]
         /\ cache' \in [Member -> Document]
         /\ spent' \in Nat
  <1>1. CASE ReportArrives(m, s)
    <2>1. Free \in Lease
      BY LeasesAreTyped
    <2>2. cache' \in [Member -> Document]
      BY <1>1, <2>1, CachedIsTyped DEF ReportArrives
    <2> QED
      BY <1>1, <2>1, <2>2 DEF TypeOK, ReportArrives
  <1>2. CASE ReportRefused(m, s)
    BY <1>2 DEF TypeOK, ReportRefused
  <1>3. CASE ReportLost
    BY <1>3 DEF TypeOK, ReportLost, Fault
  <1> QED
    BY <1>1, <1>2, <1>3 DEF Report

LEMMA SyncKeepsTypes ==
  ASSUME TypeOK, NEW m \in Member, NEW lost, SyncOutcome(m, lost)
  PROVE  /\ lease' \in [Service -> Lease]
         /\ presence' \in [Member -> Presence]
  BY LeasesAreTyped DEF TypeOK, SyncOutcome, Presence

LEMMA CycleDoneKeepsTypes ==
  ASSUME TypeOK, NEW m \in Member, CycleDone(m) \/ OffCycle(m)
  PROVE  phase' \in [Member -> Phase]
  BY DEF TypeOK, CycleDone, OffCycle, Phase

LEMMA ReconcileKeepsTypes ==
  ASSUME TypeOK, NEW m \in Member, NEW s \in Service, Reconcile(m, s)
  PROVE  TypeOK'
  <1>1. CASE Renew(m, s)
    BY <1>1, AdvanceIsTyped DEF TypeOK, Renew
  <1>2. CASE Pass(m, s)
    BY <1>2, AdvanceIsTyped DEF TypeOK, Pass
  <1>3. CASE HandBack(m, s)
    BY <1>3, AdvanceIsTyped, ReportKeepsTypes DEF TypeOK, HandBack
  <1>4. CASE ClaimGranted(m, s)
    <2>1. OwnedBy(m) \in Lease
      BY LeasesAreTyped
    <2>2. cache' \in [Member -> Document]
      BY <1>4, <2>1, CachedIsTyped DEF ClaimGranted
    <2> QED
      BY <1>4, <2>1, <2>2 DEF TypeOK, ClaimGranted, Phase
  <1>5. CASE ClaimRefused(m, s)
    BY <1>5, AdvanceIsTyped DEF TypeOK, ClaimRefused
  <1>6. CASE ClaimFails(m, s)
    <2>1. lease' \in [Service -> Lease]
      BY <1>6, LeasesAreTyped DEF TypeOK, ClaimFails
    <2> QED
      BY <1>6, <2>1, AdvanceIsTyped DEF TypeOK, ClaimFails, Fault
  <1>7. CASE StartSucceeds(m, s)
    BY <1>7, AdvanceIsTyped DEF TypeOK, StartSucceeds
  <1>8. CASE StartFails(m, s)
    <2>1. Fingerprint(snap[m]) \in FingerprintType
      BY FingerprintIsTyped DEF TypeOK
    <2> QED
      BY <1>8, <2>1, AdvanceIsTyped, ReportKeepsTypes DEF TypeOK, StartFails
  <1> QED
    BY <1>1, <1>2, <1>3, <1>4, <1>5, <1>6, <1>7, <1>8 DEF Reconcile

LEMMA CycleKeepsTypes ==
  ASSUME TypeOK, NEW m \in Member,
         CycleSend(m) \/ CycleApply(m) \/ CycleFails(m) \/ FlushChange(m)
  PROVE  TypeOK'
  <1>1. CASE CycleSend(m)
    <2>1. PICK lost \in SUBSET Deposited(m) :
            /\ SyncOutcome(m, lost)
            /\ \/ answer' = [answer EXCEPT ![m] = {[lost |-> lost, snapshot |-> {}]}]
               \/ answer' = [answer EXCEPT ![m] = {[lost |-> lost, snapshot |-> {Doc'}]}]
      BY <1>1 DEF CycleSend
    <2>2. lost \in SUBSET Service
      BY <2>1 DEF TypeOK, Deposited
    <2>3. lease' \in [Service -> Lease] /\ presence' \in [Member -> Presence]
      BY <2>1, SyncKeepsTypes
    <2>4. world' \in Nat
      BY <1>1 DEF TypeOK, CycleSend
    <2>5. Doc' \in Document
      BY <2>3, <2>4 DEF Doc, Document
    <2>6. answer' \in [Member -> SUBSET [lost : SUBSET Service, snapshot : SUBSET Document]]
      <3> DEFINE Reply == [lost : SUBSET Service, snapshot : SUBSET Document]
      <3>1. [lost |-> lost, snapshot |-> {}] \in Reply
        BY <2>2
      <3>2. [lost |-> lost, snapshot |-> {Doc'}] \in Reply
        BY <2>2, <2>5
      <3>3. answer \in [Member -> SUBSET Reply]
        BY DEF TypeOK
      <3> HIDE DEF Reply
      <3>4. answer' \in [Member -> SUBSET Reply]
        BY <2>1, <3>1, <3>2, <3>3
      <3> QED
        BY <3>4 DEF Reply
    <2> QED
      BY <1>1, <2>3, <2>4, <2>6 DEF TypeOK, CycleSend
  <1>2. CASE CycleApply(m)
    <2>1. PICK a \in answer[m] :
            /\ serving' = [serving EXCEPT ![m] = @ \ (a.lost \cap held[m])]
            /\ held' = [held EXCEPT ![m] = @ \ a.lost]
            /\ cache' = [cache EXCEPT ![m] =
                 IF a.snapshot = {} THEN @ ELSE CHOOSE d \in a.snapshot : TRUE]
      BY <1>2 DEF CycleApply
    <2>2. a \in [lost : SUBSET Service, snapshot : SUBSET Document]
      BY <2>1 DEF TypeOK
    <2>3. a.snapshot # {} => (CHOOSE d \in a.snapshot : TRUE) \in Document
      BY <2>2
    <2>4. cache' \in [Member -> Document]
      BY <2>1, <2>3 DEF TypeOK
    <2>5. phase' \in [Member -> Phase]
      BY <1>2, CycleDoneKeepsTypes DEF CycleApply
    <2> QED
      BY <1>2, <2>1, <2>4, <2>5 DEF TypeOK, CycleApply
  <1>3. CASE CycleFails(m)
    <2>1. lease' \in [Service -> Lease] /\ presence' \in [Member -> Presence]
      BY <1>3, SyncKeepsTypes DEF TypeOK, CycleFails
    <2>2. phase' \in [Member -> Phase]
      BY <1>3, CycleDoneKeepsTypes DEF CycleFails
    <2>3. spent' \in Nat
      BY <1>3 DEF TypeOK, CycleFails, Fault
    <2>4. hold' \in [Member -> SUBSET Service]
      BY <1>3 DEF TypeOK, CycleFails
    <2>5. UNCHANGED <<world, view, at, snap, loop, answer, life>>
      BY <1>3 DEF CycleFails
    <2> QED
      BY <2>1, <2>2, <2>3, <2>4, <2>5 DEF TypeOK
  <1>4. CASE FlushChange(m)
    BY <1>4, LeasesAreTyped DEF TypeOK, FlushChange, Presence
  <1> QED
    BY <1>1, <1>2, <1>3, <1>4

LEMMA EnvironmentKeepsTypes ==
  ASSUME TypeOK, NEW m \in Member,
         \/ Push(m) \/ Deliver(m) \/ PresenceLapses(m) \/ PresenceStalls(m)
         \/ \E s \in Service : CacheExpires(m, s)
  PROVE  TypeOK'
  <1>1. CASE Push(m)
    BY <1>1, DocIsDocument DEF TypeOK, Push
  <1>2. CASE Deliver(m)
    BY <1>2 DEF TypeOK, Deliver
  <1>3. CASE PresenceLapses(m)
    BY <1>3 DEF TypeOK, PresenceLapses, Presence
  <1>4. CASE PresenceStalls(m)
    BY <1>4 DEF TypeOK, PresenceStalls, Presence, Fault
  <1>5. CASE \E s \in Service : CacheExpires(m, s)
    <2>1. PICK s \in Service : CacheExpires(m, s)
      BY <1>5
    <2> DEFINE expired == [cache[m].lease[s] EXCEPT !.live = FALSE]
    <2>2. cache \in [Member -> Document] /\ cache[m].lease[s] \in Lease
      BY DEF TypeOK, Document
    <2>3. expired \in Lease
      BY <2>2 DEF Lease
    <2>4. [cache EXCEPT ![m].lease[s] = expired] \in [Member -> Document]
      <3>1. [cache[m].lease EXCEPT ![s] = expired] \in [Service -> Lease]
        BY <2>2, <2>3 DEF Document
      <3>2. [cache[m] EXCEPT !.lease[s] = expired] \in Document
        BY <2>2, <3>1 DEF Document
      <3> QED
        BY <2>2, <3>2
    <2>5. cache' = [cache EXCEPT ![m].lease[s] = expired]
      BY <2>1, <2>2 DEF CacheExpires
    <2> QED
      BY <2>1, <2>4, <2>5 DEF TypeOK, CacheExpires
  <1> QED
    BY <1>1, <1>2, <1>3, <1>4, <1>5

LEMMA ProcessKeepsTypes ==
  ASSUME TypeOK, NEW m \in Member,
         \/ TickBegin(m) \/ Crash(m) \/ Restart(m) \/ CloseBegin(m)
         \/ Close(m) \/ LoopExits(m)
  PROVE  TypeOK'
  <1>1. CASE TickBegin(m)
    BY <1>1, SessionIsDocument DEF TypeOK, TickBegin, Phase
  <1>2. CASE Crash(m)
    BY <1>2, BlankIsDocument, ServicesFacts
    DEF TypeOK, Crash, Forget, Fault, Phase, Closing
  <1>3. CASE Restart(m)
    <2>1. presence' \in [Member -> Presence]
      BY <1>3 DEF TypeOK, Restart, Presence
    <2>2. Doc' \in Document
      BY <1>3, <2>1 DEF TypeOK, Restart, Doc, Document
    <2> QED
      BY <1>3, <2>1, <2>2 DEF TypeOK, Restart, Phase
  <1>4. CASE CloseBegin(m)
    BY <1>4 DEF TypeOK, CloseBegin, Fault, Closing
  <1>5. CASE CloseRelease(m)
    BY <1>5, LeasesAreTyped DEF TypeOK, CloseRelease, Closing
  <1>6. CASE CloseLeave(m)
    BY <1>6 DEF TypeOK, CloseLeave, Closing, Presence
  <1>7. CASE CloseStop(m)
    BY <1>7 DEF TypeOK, CloseStop, Closing
  <1>8. CASE LoopExits(m)
    BY <1>8 DEF TypeOK, LoopExits, Phase
  <1> QED
    BY <1>1, <1>2, <1>3, <1>4, <1>5, <1>6, <1>7, <1>8 DEF Close

LEMMA DocumentMovesKeepTypes ==
  ASSUME TypeOK,
         \/ \E s \in Service : Expire(s) \/ Stall(s) \/ Operator(s)
         \/ Takeover \/ WorldMoves
  PROVE  TypeOK'
  <1>0. ASSUME NEW s \in Service, lease' = [lease EXCEPT ![s].live = FALSE]
        PROVE  lease' \in [Service -> Lease]
    <2>1. lease \in [Service -> Lease] /\ lease[s] \in Lease
      BY DEF TypeOK
    <2>2. [lease[s] EXCEPT !.live = FALSE] \in Lease
      BY <2>1 DEF Lease
    <2>3. lease' = [lease EXCEPT ![s] = [lease[s] EXCEPT !.live = FALSE]]
      BY <1>0, <2>1
    <2> QED
      BY <2>1, <2>2, <2>3
  <1>1. CASE \E s \in Service : Expire(s)
    <2>1. lease' \in [Service -> Lease]
      BY <1>0, <1>1 DEF Expire
    <2> QED
      BY <1>1, <2>1 DEF TypeOK, Expire
  <1>2. CASE \E s \in Service : Stall(s)
    <2>1. lease' \in [Service -> Lease]
      BY <1>0, <1>2 DEF Stall
    <2> QED
      BY <1>2, <2>1 DEF TypeOK, Stall, Fault
  <1>3. CASE \E s \in Service : Operator(s)
    BY <1>3, LeasesAreTyped DEF TypeOK, Operator, Fault
  <1>4. CASE Takeover
    BY <1>4, LeasesAreTyped DEF TypeOK, Takeover, Fault
  <1>5. CASE WorldMoves
    BY <1>5 DEF TypeOK, WorldMoves
  <1> QED
    BY <1>1, <1>2, <1>3, <1>4, <1>5

LEMMA InitIsTyped == Init => TypeOK
  <1> SUFFICES ASSUME Init PROVE TypeOK
    OBVIOUS
  <1>1. PICK founders \in {{}} \cup {{h} : h \in Concurrent} :
          /\ serving = [m \in Member |->
               {s \in Service : m \in founders /\ <<m, s>> \in Serves \cap Able}]
          /\ lease = [s \in Service |->
               IF \E h \in founders :
                    s \in {r \in Service : h \in founders /\ <<h, r>> \in Serves \cap Able}
               THEN OwnedBy(CHOOSE h \in founders : TRUE) ELSE Free]
    BY DEF Init
  <1>2. founders # {} => (CHOOSE h \in founders : TRUE) \in Member
    BY PlacementAssumption
  <1>3. lease \in [Service -> Lease]
    BY <1>1, <1>2, LeasesAreTyped
  <1>4. serving \in [Member -> SUBSET Service]
    BY <1>1
  <1>5. presence \in [Member -> Presence] /\ world \in Nat
    BY DEF Init, Presence
  <1>6. Doc \in Document
    BY <1>3, <1>5 DEF Doc, Document
  <1>7. cache \in [Member -> Document] /\ snap \in [Member -> Document]
    BY <1>6, BlankIsDocument DEF Init
  <1>8. /\ wire \in [Member -> SUBSET Document]
        /\ hold \in [Member -> SUBSET Service]
        /\ answer \in [Member -> SUBSET [lost : SUBSET Service, snapshot : SUBSET Document]]
        /\ failed \in [Member -> [Service -> SUBSET FingerprintType]]
    BY DEF Init
  <1>9. /\ held \in [Member -> SUBSET Service]
        /\ phase \in [Member -> Phase]
        /\ at \in [Member -> 1 .. Len(Services)]
        /\ up \in [Member -> BOOLEAN]
        /\ closing \in [Member -> Closing]
        /\ spent \in Nat
    BY <1>4, ServicesFacts DEF Init, Phase, Closing
  <1> QED
    BY <1>3, <1>4, <1>5, <1>7, <1>8, <1>9 DEF TypeOK

LEMMA TypeStep == TypeOK /\ [Next]_vars => TypeOK'
  <1> SUFFICES ASSUME TypeOK, [Next]_vars PROVE TypeOK'
    OBVIOUS
  <1>1. ASSUME NEW m \in Member, MemberStep(m) PROVE TypeOK'
    BY <1>1, ReconcileKeepsTypes, CycleKeepsTypes, EnvironmentKeepsTypes, ProcessKeepsTypes
    DEF MemberStep, Cycle
  <1>2. CASE UNCHANGED vars
    BY <1>2 DEF vars, TypeOK
  <1> QED
    BY <1>1, <1>2, DocumentMovesKeepTypes DEF Next

\* Every variable of placement keeps its type, whatever fails.
THEOREM TypeCorrect == Spec => []TypeOK
  BY InitIsTyped, TypeStep, PTL DEF Spec


USE DEF document, view, tick, loop, outbox, life

-----------------------------------------------------------------------------
(* The inductive invariant.                                                 *)

\* Without "close" no member leaves, so only a crash ends its loop.
NobodyCloses == \A m \in Member : closing[m] = "open"

\* A process that is gone serves nothing.
GoneServesNothing ==
  \A m \in Member : ~ up[m] \/ phase[m] = "exited" => serving[m] = {}

\* A start is under way only for a service that is not running yet.
StartsAreFresh ==
  \A m \in Member : phase[m] = "starting" => At(m) \notin held[m]

LeaseInv ==
  /\ TypeOK
  /\ NobodyCloses
  /\ GoneServesNothing
  /\ ServingIsHeld
  /\ StartsAreFresh
  /\ LeasedWhileEngaged

LEMMA InitLeased == Init => LeaseInv
  <1> SUFFICES ASSUME Init PROVE LeaseInv
    OBVIOUS
  <1>1. TypeOK
    BY InitIsTyped
  <1>2. PICK founders \in {{}} \cup {{h} : h \in Concurrent} :
          /\ serving = [m \in Member |->
               {s \in Service : m \in founders /\ <<m, s>> \in Serves \cap Able}]
          /\ lease = [s \in Service |->
               IF \E h \in founders :
                    s \in {r \in Service : h \in founders /\ <<h, r>> \in Serves \cap Able}
               THEN OwnedBy(CHOOSE h \in founders : TRUE) ELSE Free]
    BY DEF Init
  <1>3. \A m \in Member : phase[m] = "idle" /\ up[m] /\ closing[m] = "open"
    BY DEF Init
  <1>4. held = serving
    BY DEF Init
  <1>5. ASSUME NEW m \in Member, NEW s \in Service, s \in serving[m]
        PROVE  Holds(Doc, s, m)
    <2>1. m \in founders /\ <<m, s>> \in Serves \cap Able
      BY <1>2, <1>5
    <2>2. founders = {m}
      BY <2>1
    <2>3. (CHOOSE h \in founders : TRUE) = m
      BY <2>2
    <2>4. lease[s] = OwnedBy(m)
      BY <1>2, <2>1, <2>3
    <2> QED
      BY <2>4 DEF Holds, Doc, OwnedBy
  <1> QED
    BY <1>1, <1>3, <1>4, <1>5
    DEF LeaseInv, NobodyCloses, GoneServesNothing, ServingIsHeld, StartsAreFresh,
        LeasedWhileEngaged, Engaged, Starting

LEMMA AdvanceEndsStart ==
  ASSUME TypeOK, NEW m \in Member, Advance(m)
  PROVE  /\ phase'[m] \in {"idle", "ticking"}
         /\ \A n \in Member \ {m} : phase'[n] = phase[n] /\ at'[n] = at[n]
  BY DEF TypeOK, Advance

\* The loop of m moves on without starting anything; leases may change, but
\* not one that somebody is engaged under.
LEMMA QuietAdvance ==
  ASSUME LeaseInv, NEW m \in Member, Advance(m), TypeOK',
         phase[m] \in {"ticking", "starting"},
         UNCHANGED <<held, serving, outbox, life>>,
         \A n \in Member, s \in Service :
           s \in serving[n] \/ (n # m /\ Starting(n, s)) =>
             (Holds(Doc, s, n) => Holds(Doc', s, n))
  PROVE  LeaseInv'
  <1>1. NobodyCloses'
    BY DEF LeaseInv, NobodyCloses
  <1>2. GoneServesNothing' /\ ServingIsHeld' /\ StartsAreFresh'
    BY AdvanceEndsStart
    DEF LeaseInv, GoneServesNothing, ServingIsHeld, StartsAreFresh, At
  <1>3. ASSUME NEW n \in Member, NEW s \in Service, Engaged(n, s)'
        PROVE  Holds(Doc, s, n)'
    <2>1. s \in serving[n] \/ (n # m /\ Starting(n, s))
      BY <1>3, AdvanceEndsStart DEF LeaseInv, Engaged, Starting, At
    <2>2. Engaged(n, s)
      BY <1>3, <2>1, AdvanceEndsStart DEF LeaseInv, Engaged, Starting, At
    <2> QED
      BY <2>1, <2>2 DEF LeaseInv, LeasedWhileEngaged, Holds, Doc
  <1> QED
    BY <1>1, <1>2, <1>3 DEF LeaseInv, LeasedWhileEngaged

\* A refused or arrived report frees only a lease of a service that its member
\* neither runs nor goes on starting.
LEMMA ReportSparesTheEngaged ==
  ASSUME LeaseInv, NEW m \in Member, NEW s \in Service, s \notin held[m], Report(m, s)
  PROVE  \A n \in Member, r \in Service :
           r \in serving[n] \/ (n # m /\ Starting(n, r)) =>
             (Holds(Doc, r, n) => Holds(Doc', r, n))
  <1>1. CASE ReportArrives(m, s)
    BY <1>1 DEF LeaseInv, TypeOK, ServingIsHeld, ReportArrives, Holds, Doc
  <1>2. CASE ReportRefused(m, s) \/ ReportLost
    BY <1>2 DEF ReportRefused, ReportLost, Holds, Doc
  <1> QED
    BY <1>1, <1>2 DEF Report

LEMMA ReconcileKeepsLeases ==
  ASSUME LeaseInv, TypeOK', NEW m \in Member, NEW s \in Service, Reconcile(m, s)
  PROVE  LeaseInv'
  <1>1. CASE Renew(m, s)
    <2>1. /\ NobodyCloses' /\ GoneServesNothing' /\ ServingIsHeld' /\ StartsAreFresh'
      BY <1>1, AdvanceEndsStart
      DEF Renew, Ticking, LeaseInv, NobodyCloses, GoneServesNothing, ServingIsHeld,
          StartsAreFresh, At
    <2>2. LeasedWhileEngaged'
      BY <1>1, AdvanceEndsStart
      DEF Renew, Ticking, LeaseInv, LeasedWhileEngaged, Engaged, Starting, At, Holds, Doc
    <2> QED
      BY <2>1, <2>2 DEF LeaseInv
  <1>2. CASE Pass(m, s)
    BY <1>2, QuietAdvance DEF Pass, Ticking, Holds, Doc
  <1>3. CASE HandBack(m, s)
    BY <1>3, QuietAdvance, ReportSparesTheEngaged DEF HandBack, Ticking, Wants
  <1>4. CASE ClaimGranted(m, s)
    <2>1. /\ NobodyCloses' /\ GoneServesNothing' /\ ServingIsHeld' /\ StartsAreFresh'
      BY <1>4
      DEF ClaimGranted, Takes, Ticking, Wants, LeaseInv, TypeOK, NobodyCloses,
          GoneServesNothing, ServingIsHeld, StartsAreFresh, At
    <2>2. LeasedWhileEngaged'
      BY <1>4
      DEF ClaimGranted, Grantable, Takes, Ticking, LeaseInv, TypeOK,
          LeasedWhileEngaged, Engaged, Starting, At, Holds, Doc, OwnedBy
    <2> QED
      BY <2>1, <2>2 DEF LeaseInv
  <1>5. CASE ClaimRefused(m, s)
    BY <1>5, QuietAdvance DEF ClaimRefused, Takes, Ticking, Holds, Doc
  <1>6. CASE ClaimFails(m, s)
    <2>1. ASSUME NEW n \in Member, NEW r \in Service, Engaged(n, r)
          PROVE  Holds(Doc', r, n)
      <3>1. lease[r].owner = n /\ lease[r].live
        BY <2>1 DEF LeaseInv, LeasedWhileEngaged, Holds, Doc
      <3>2. CASE UNCHANGED lease
        BY <3>1, <3>2 DEF Holds, Doc
      <3>3. CASE Grantable(m, s) /\ lease' = [lease EXCEPT ![s] = OwnedBy(m)]
        BY <3>1, <3>3 DEF Grantable, LeaseInv, TypeOK, Holds, Doc, OwnedBy
      <3> QED
        BY <1>6, <3>2, <3>3 DEF ClaimFails
    <2>2. \A n \in Member, r \in Service :
            r \in serving[n] \/ (n # m /\ Starting(n, r)) =>
              (Holds(Doc, r, n) => Holds(Doc', r, n))
      BY <2>1 DEF LeaseInv, GoneServesNothing, Engaged, Starting
    <2> QED
      BY <1>6, <2>2, QuietAdvance DEF ClaimFails, Takes, Ticking
  <1>7. CASE StartSucceeds(m, s)
    <2>1. /\ phase'[m] \in {"idle", "ticking"}
          /\ \A n \in Member \ {m} : phase'[n] = phase[n] /\ at'[n] = at[n]
      BY <1>7, AdvanceEndsStart DEF StartSucceeds, LeaseInv
    <2>2. NobodyCloses' /\ GoneServesNothing'
      BY <1>7, <2>1
      DEF StartSucceeds, Starting, LeaseInv, TypeOK, NobodyCloses, GoneServesNothing
    <2>3. ServingIsHeld'
      BY <1>7 DEF StartSucceeds, LeaseInv, TypeOK, ServingIsHeld
    <2>4. StartsAreFresh'
      BY <1>7, <2>1 DEF StartSucceeds, LeaseInv, TypeOK, StartsAreFresh, At
    <2>5. /\ NobodyCloses' /\ GoneServesNothing' /\ ServingIsHeld' /\ StartsAreFresh'
      BY <2>2, <2>3, <2>4
    <2>6. LeasedWhileEngaged'
      BY <1>7, AdvanceEndsStart
      DEF StartSucceeds, LeaseInv, TypeOK, LeasedWhileEngaged, GoneServesNothing,
          Engaged, Starting, At, Holds, Doc
    <2> QED
      BY <2>5, <2>6 DEF LeaseInv
  <1>8. CASE StartFails(m, s)
    <2>1. s \notin held[m]
      BY <1>8 DEF StartFails, Starting, LeaseInv, StartsAreFresh
    <2> QED
      BY <1>8, <2>1, QuietAdvance, ReportSparesTheEngaged DEF StartFails, Starting
  <1> QED
    BY <1>1, <1>2, <1>3, <1>4, <1>5, <1>6, <1>7, <1>8 DEF Reconcile

\* The control plane's half of a member cycle writes only leases that the
\* member owns, and writes them live.
LEMMA SyncSparesTheEngaged ==
  ASSUME TypeOK, NEW m \in Member, NEW lost \in SUBSET Deposited(m), SyncOutcome(m, lost)
  PROVE  \A n \in Member, r \in Service : Holds(Doc, r, n) => Holds(Doc', r, n)
  BY DEF TypeOK, SyncOutcome, Renewable, Holds, Doc, OwnedBy

\* A step that starts nothing, may stop something and spares every engaged
\* member's lease.
LEMMA CalmStep ==
  ASSUME LeaseInv, TypeOK', UNCHANGED <<at, life>>,
         \A n \in Member :
           /\ phase'[n] = phase[n] \/ phase'[n] \in {"cycled", "ticking"}
           /\ \/ serving'[n] = serving[n] /\ held'[n] = held[n]
              \/ \E gone \in SUBSET Service :
                   /\ serving'[n] = serving[n] \ (gone \cap held[n])
                   /\ held'[n] = held[n] \ gone,
         \A n \in Member, r \in Service :
           Engaged(n, r) => Holds(Doc', r, n)
  PROVE  LeaseInv'
  <1>1. NobodyCloses' /\ GoneServesNothing' /\ ServingIsHeld' /\ StartsAreFresh'
    BY DEF LeaseInv, NobodyCloses, GoneServesNothing, ServingIsHeld, StartsAreFresh, At
  <1>2. ASSUME NEW n \in Member, NEW s \in Service, Engaged(n, s)'
        PROVE  Engaged(n, s)
    BY <1>2 DEF LeaseInv, GoneServesNothing, Engaged, Starting, At
  <1> QED
    BY <1>1, <1>2 DEF LeaseInv, LeasedWhileEngaged, Holds, Doc

LEMMA CycleKeepsLeases ==
  ASSUME LeaseInv, TypeOK', NEW m \in Member,
         CycleSend(m) \/ CycleApply(m) \/ CycleFails(m) \/ FlushChange(m)
  PROVE  LeaseInv'
  <1>1. CASE CycleSend(m)
    <2>1. PICK lost \in SUBSET Deposited(m) : SyncOutcome(m, lost)
      BY <1>1 DEF CycleSend
    <2>2. \A n \in Member, r \in Service : Engaged(n, r) => Holds(Doc', r, n)
      BY <2>1, SyncSparesTheEngaged DEF LeaseInv, LeasedWhileEngaged
    <2> QED
      BY <1>1, <2>2, CalmStep DEF CycleSend
  <1>2. CASE CycleApply(m)
    <2>1. PICK a \in answer[m] :
            /\ serving' = [serving EXCEPT ![m] = @ \ (a.lost \cap held[m])]
            /\ held' = [held EXCEPT ![m] = @ \ a.lost]
      BY <1>2 DEF CycleApply
    <2>2. a.lost \in SUBSET Service
      BY <2>1 DEF LeaseInv, TypeOK
    <2>3. \A n \in Member :
            \/ serving'[n] = serving[n] /\ held'[n] = held[n]
            \/ \E gone \in SUBSET Service :
                 /\ serving'[n] = serving[n] \ (gone \cap held[n])
                 /\ held'[n] = held[n] \ gone
      <3>1. serving \in [Member -> SUBSET Service] /\ held \in [Member -> SUBSET Service]
        BY DEF LeaseInv, TypeOK
      <3>2. \A n \in Member \ {m} : serving'[n] = serving[n] /\ held'[n] = held[n]
        BY <2>1, <3>1
      <3>3. /\ serving'[m] = serving[m] \ (a.lost \cap held[m])
            /\ held'[m] = held[m] \ a.lost
        BY <2>1, <3>1
      <3> QED
        BY <2>2, <3>2, <3>3
    <2>4. \A n \in Member : phase'[n] = phase[n] \/ phase'[n] \in {"cycled", "ticking"}
      BY <1>2 DEF CycleApply, CycleDone, OffCycle, LeaseInv, TypeOK
    <2>5. \A n \in Member, r \in Service : Engaged(n, r) => Holds(Doc', r, n)
      BY <1>2 DEF CycleApply, LeaseInv, LeasedWhileEngaged, Holds, Doc
    <2> QED
      BY <1>2, <2>3, <2>4, <2>5, CalmStep DEF CycleApply
  <1>3. CASE CycleFails(m)
    <2>1. \A n \in Member, r \in Service : Engaged(n, r) => Holds(Doc', r, n)
      <3>1. CASE \E lost \in SUBSET Deposited(m) : SyncOutcome(m, lost)
        BY <3>1, SyncSparesTheEngaged DEF LeaseInv, LeasedWhileEngaged
      <3>2. CASE UNCHANGED <<lease, presence>>
        BY <3>2 DEF LeaseInv, LeasedWhileEngaged, Holds, Doc
      <3> QED
        BY <1>3, <3>1, <3>2 DEF CycleFails
    <2>2. \A n \in Member : phase'[n] = phase[n] \/ phase'[n] \in {"cycled", "ticking"}
      BY <1>3 DEF CycleFails, CycleDone, OffCycle, LeaseInv, TypeOK
    <2> QED
      BY <1>3, <2>1, <2>2, CalmStep DEF CycleFails
  <1>4. CASE FlushChange(m)
    <2>1. \A n \in Member, r \in Service : Engaged(n, r) => Holds(Doc', r, n)
      BY <1>4
      DEF FlushChange, LeaseInv, LeasedWhileEngaged, TypeOK, Holds, Doc, OwnedBy
    <2> QED
      BY <1>4, <2>1, CalmStep DEF FlushChange
  <1> QED
    BY <1>1, <1>2, <1>3, <1>4

\* The stream, the readers' clocks and the rest of the document touch neither a
\* lease nor a loop.
LEMMA BystandersKeepLeases ==
  ASSUME LeaseInv, TypeOK',
         UNCHANGED <<lease, phase, at, held, serving, life>>
  PROVE  LeaseInv'
  BY DEF LeaseInv, NobodyCloses, GoneServesNothing, ServingIsHeld, StartsAreFresh,
         LeasedWhileEngaged, Engaged, Starting, At, Holds, Doc

LEMMA EnvironmentKeepsLeases ==
  ASSUME LeaseInv, TypeOK', NEW m \in Member,
         \/ Push(m) \/ Deliver(m) \/ PresenceLapses(m) \/ PresenceStalls(m)
         \/ \E s \in Service : CacheExpires(m, s)
  PROVE  LeaseInv'
  <1>1. UNCHANGED <<lease, phase, at, held, serving, life>>
    BY DEF Push, Deliver, PresenceLapses, PresenceStalls, CacheExpires
  <1> QED
    BY <1>1, BystandersKeepLeases

LEMMA ProcessKeepsLeases ==
  ASSUME LeaseInv, TypeOK', "close" \notin Faults, NEW m \in Member,
         \/ TickBegin(m) \/ Crash(m) \/ Restart(m) \/ CloseBegin(m)
         \/ Close(m) \/ LoopExits(m)
  PROVE  LeaseInv'
  <1>1. CASE TickBegin(m)
    <2>1. \A n \in Member : phase'[n] = phase[n] \/ phase'[n] = "ticking"
      BY <1>1 DEF TickBegin, LeaseInv, TypeOK
    <2>2. \A n \in Member, r \in Service : Engaged(n, r) => Holds(Doc', r, n)
      BY <1>1 DEF TickBegin, LeaseInv, LeasedWhileEngaged, Holds, Doc
    <2> QED
      BY <1>1, <2>1, <2>2, CalmStep DEF TickBegin
  <1>2. CASE Crash(m)
    <2>1. NobodyCloses' /\ GoneServesNothing' /\ ServingIsHeld'
      BY <1>2
      DEF Crash, Forget, LeaseInv, TypeOK, NobodyCloses, GoneServesNothing, ServingIsHeld
    <2>2. StartsAreFresh'
      BY <1>2 DEF Crash, Forget, LeaseInv, TypeOK, StartsAreFresh, At
    <2>3. LeasedWhileEngaged'
      BY <1>2
      DEF Crash, Forget, LeaseInv, TypeOK, LeasedWhileEngaged, Engaged, Starting, At,
          Holds, Doc
    <2> QED
      BY <2>1, <2>2, <2>3 DEF LeaseInv
  <1>3. CASE Restart(m)
    <2>1. NobodyCloses' /\ GoneServesNothing' /\ ServingIsHeld' /\ StartsAreFresh'
      BY <1>3
      DEF Restart, LeaseInv, TypeOK, NobodyCloses, GoneServesNothing, ServingIsHeld,
          StartsAreFresh, At
    <2>2. LeasedWhileEngaged'
      BY <1>3
      DEF Restart, LeaseInv, TypeOK, GoneServesNothing, LeasedWhileEngaged, Engaged,
          Starting, At, Holds, Doc
    <2> QED
      BY <2>1, <2>2 DEF LeaseInv
  <1>4. ~ CloseBegin(m)
    BY DEF CloseBegin, Fault
  <1>5. ~ Close(m) /\ ~ LoopExits(m)
    BY DEF Close, CloseRelease, CloseLeave, CloseStop, LoopExits, LeaseInv, NobodyCloses
  <1> QED
    BY <1>1, <1>2, <1>3, <1>4, <1>5

LEMMA DocumentMovesKeepLeases ==
  ASSUME LeaseInv, TypeOK', Punctual,
         \/ \E s \in Service : Expire(s) \/ Stall(s) \/ Operator(s)
         \/ Takeover \/ WorldMoves
  PROVE  LeaseInv'
  <1>1. CASE \E s \in Service : Expire(s)
    <2>1. PICK s \in Service : Expire(s)
      BY <1>1
    <2>2. \A n \in Member, r \in Service : Engaged(n, r) => Holds(Doc', r, n)
      BY <2>1 DEF Expire, LeaseInv, TypeOK, LeasedWhileEngaged, Holds, Doc
    <2> QED
      BY <2>1, <2>2, CalmStep DEF Expire
  <1>2. ~ Takeover /\ \A s \in Service : ~ Stall(s) /\ ~ Operator(s)
    BY DEF Punctual, Takeover, Stall, Operator, Fault
  <1>3. CASE WorldMoves
    BY <1>3, BystandersKeepLeases DEF WorldMoves
  <1> QED
    BY <1>1, <1>2, <1>3

LEMMA LeaseStep == Punctual /\ LeaseInv /\ [Next]_vars => LeaseInv'
  <1> SUFFICES ASSUME Punctual, LeaseInv, [Next]_vars PROVE LeaseInv'
    OBVIOUS
  <1>1. TypeOK'
    BY TypeStep DEF LeaseInv
  <1>2. ASSUME NEW m \in Member, MemberStep(m) PROVE LeaseInv'
    BY <1>1, <1>2, ReconcileKeepsLeases, CycleKeepsLeases, EnvironmentKeepsLeases,
       ProcessKeepsLeases
    DEF MemberStep, Cycle, Punctual
  <1>3. CASE UNCHANGED vars
    BY <1>1, <1>3, BystandersKeepLeases DEF vars
  <1> QED
    BY <1>1, <1>2, <1>3, DocumentMovesKeepLeases DEF Next

LEMMA LeaseInvariant ==
  ASSUME Punctual
  PROVE  Spec => []LeaseInv
  BY InitLeased, LeaseStep, PTL DEF Spec

-----------------------------------------------------------------------------
(* The theorems.                                                            *)

\* While owners renew in time and nobody overrules placement, whoever serves or
\* starts a service holds its live lease: Tick claims before Loop.Start and
\* hands back only what it does not run.
THEOREM ServedUnderLease ==
  ASSUME Punctual
  PROVE  Spec => []LeasedWhileEngaged
  <1>1. LeaseInv => LeasedWhileEngaged
    BY DEF LeaseInv
  <1> QED
    BY <1>1, LeaseInvariant, PTL

\* Under the same conditions no two members serve the same service.
THEOREM ServedOnce ==
  ASSUME Punctual
  PROVE  Spec => []ExclusiveService
  <1>1. LeaseInv => ExclusiveService
    BY DEF LeaseInv, GoneServesNothing, LeasedWhileEngaged, Engaged, ExclusiveService,
           Holds, Doc
  <1> QED
    BY <1>1, LeaseInvariant, PTL

-----------------------------------------------------------------------------
(* Whatever is served is in Loop.held, as long as nobody closes.            *)

HeldInv == TypeOK /\ NobodyCloses /\ ServingIsHeld

LEMMA HeldStep ==
  ASSUME "close" \notin Faults, HeldInv, [Next]_vars
  PROVE  HeldInv'
  <1>1. TypeOK'
    BY TypeStep DEF HeldInv
  <1>2. ASSUME UNCHANGED <<held, serving, closing>>
        PROVE  HeldInv'
    BY <1>1, <1>2 DEF HeldInv, NobodyCloses, ServingIsHeld
  <1>3. ASSUME NEW m \in Member, NEW s \in Service, Reconcile(m, s)
        PROVE  HeldInv'
    <2>1. CASE StartSucceeds(m, s)
      BY <1>1, <2>1 DEF StartSucceeds, HeldInv, TypeOK, NobodyCloses, ServingIsHeld
    <2>2. CASE ~ StartSucceeds(m, s)
      BY <1>2, <1>3, <2>2
      DEF Reconcile, Renew, Pass, HandBack, ClaimGranted, ClaimRefused, ClaimFails, StartFails
    <2> QED
      BY <2>1, <2>2
  <1>4. ASSUME NEW m \in Member, CycleApply(m)
        PROVE  HeldInv'
    <2>1. PICK a \in answer[m] :
            /\ serving' = [serving EXCEPT ![m] = @ \ (a.lost \cap held[m])]
            /\ held' = [held EXCEPT ![m] = @ \ a.lost]
      BY <1>4 DEF CycleApply
    <2>2. ServingIsHeld'
      BY <2>1 DEF HeldInv, TypeOK, ServingIsHeld
    <2> QED
      BY <1>1, <1>4, <2>2 DEF CycleApply, HeldInv, NobodyCloses
  <1>5. ASSUME NEW m \in Member, Crash(m)
        PROVE  HeldInv'
    BY <1>1, <1>5 DEF Crash, Forget, HeldInv, TypeOK, NobodyCloses, ServingIsHeld
  <1>6. ASSUME NEW m \in Member, MemberStep(m)
        PROVE  HeldInv'
    <2>1. ~ CloseBegin(m) /\ ~ Close(m) /\ ~ LoopExits(m)
      BY DEF CloseBegin, Fault, Close, CloseRelease, CloseLeave, CloseStop, LoopExits,
             HeldInv, NobodyCloses
    <2>2. CASE \/ TickBegin(m) \/ CycleSend(m) \/ CycleFails(m) \/ FlushChange(m)
               \/ Push(m) \/ Deliver(m) \/ PresenceLapses(m) \/ PresenceStalls(m)
               \/ Restart(m) \/ \E s \in Service : CacheExpires(m, s)
      BY <1>2, <2>2
      DEF TickBegin, CycleSend, CycleFails, FlushChange, Push, Deliver, PresenceLapses,
          PresenceStalls, Restart, CacheExpires
    <2> QED
      BY <1>3, <1>4, <1>5, <1>6, <2>1, <2>2 DEF MemberStep, Cycle
  <1>7. CASE \/ \E s \in Service : Expire(s) \/ Stall(s) \/ Operator(s)
             \/ Takeover \/ WorldMoves
    BY <1>2, <1>7 DEF Expire, Stall, Operator, Takeover, WorldMoves
  <1>8. CASE UNCHANGED vars
    BY <1>2, <1>8 DEF vars
  <1> QED
    BY <1>6, <1>7, <1>8 DEF Next

\* While nobody closes, a member's Loop.held covers everything that it serves,
\* whatever fails, so a lease reported lost always finds its service.
THEOREM HeldCoversServing ==
  ASSUME "close" \notin Faults
  PROVE  Spec => []ServingIsHeld
  <1>1. Init => HeldInv
    BY InitLeased DEF LeaseInv, HeldInv
  <1>2. HeldInv /\ [Next]_vars => HeldInv'
    BY HeldStep
  <1>3. HeldInv => ServingIsHeld
    BY DEF HeldInv
  <1> QED
    BY <1>1, <1>2, <1>3, PTL DEF Spec

-----------------------------------------------------------------------------
(* A join daemon never stops a service it still owns: between the sync and   *)
(* the reply its one goroutine claims nothing.                              *)

\* The control plane's document backs every loss that is on its way.
LossesAreReal ==
  \A m \in Member : \A a \in answer[m] : \A s \in a.lost : ~ Holds(Doc, s, m)

\* A join daemon that awaits a reply is between two ticks, with nothing
\* deposited.
AwaitsAlone ==
  \A m \in Member : answer[m] # {} => phase[m] = "idle" /\ hold[m] = {}

LossInv == TypeOK /\ NobodyCloses /\ AwaitsAlone /\ LossesAreReal

Joiners == Concurrent = {} /\ Faults \cap {"operator", "close"} = {}

\* A step after which whoever still awaits a reply awaits the same one, has not
\* moved and has been granted nothing.
LEMMA AwaitingUndisturbed ==
  ASSUME LossInv, TypeOK', NobodyCloses',
         \A n \in Member :
           answer'[n] # {} =>
             /\ answer'[n] = answer[n] /\ phase'[n] = "idle" /\ hold'[n] = {}
             /\ \A r \in Service : Holds(Doc', r, n) => Holds(Doc, r, n)
  PROVE  LossInv'
  <1>1. AwaitsAlone'
    BY DEF AwaitsAlone
  <1>2. LossesAreReal'
    <2> SUFFICES ASSUME NEW n \in Member, NEW a \in answer'[n], NEW r \in a.lost
                 PROVE  ~ Holds(Doc', r, n)
      BY DEF LossesAreReal, Holds, Doc
    <2>1. r \in Service
      BY DEF TypeOK
    <2> QED
      BY <2>1 DEF LossInv, LossesAreReal
  <1> QED
    BY <1>1, <1>2 DEF LossInv

LEMMA ReconcileKeepsLosses ==
  ASSUME Joiners, LossInv, TypeOK', NobodyCloses',
         NEW m \in Member, NEW s \in Service, Reconcile(m, s)
  PROVE  LossInv'
  <1>1. phase[m] \in {"ticking", "starting"} /\ UNCHANGED answer
    BY DEF Reconcile, Renew, Pass, HandBack, ClaimGranted, ClaimRefused, ClaimFails,
           StartSucceeds, StartFails, Takes, Ticking, Starting
  <1>2. answer'[m] = {}
    BY <1>1 DEF LossInv, AwaitsAlone
  <1>3. \A n \in Member \ {m} : phase'[n] = phase[n] /\ hold'[n] = hold[n]
    BY AdvanceEndsStart
    DEF LossInv, TypeOK, Reconcile, Renew, Pass, HandBack, ClaimGranted, ClaimRefused,
        ClaimFails, StartSucceeds, StartFails
  <1>4. \A n \in Member \ {m}, r \in Service : Holds(Doc', r, n) => Holds(Doc, r, n)
    <2>1. CASE UNCHANGED lease
      BY <2>1 DEF Holds, Doc
    <2>2. CASE lease' = [lease EXCEPT ![s] = OwnedBy(m)]
      BY <2>2 DEF LossInv, TypeOK, OwnedBy, Holds, Doc
    <2>3. CASE lease' = [lease EXCEPT ![s] = Free]
      BY <2>3 DEF LossInv, TypeOK, Free, Holds, Doc
    <2> QED
      BY <2>1, <2>2, <2>3
      DEF Reconcile, Renew, Pass, HandBack, ClaimGranted, ClaimRefused, ClaimFails,
          StartSucceeds, StartFails, Report, ReportArrives, ReportRefused, ReportLost
  <1> QED
    BY <1>1, <1>2, <1>3, <1>4, AwaitingUndisturbed DEF LossInv, AwaitsAlone

\* What the control plane's half of a cycle makes a member own, it owned.
LEMMA SyncGrantsNothingNew ==
  ASSUME TypeOK, NEW m \in Member, NEW lost \in SUBSET Deposited(m), SyncOutcome(m, lost)
  PROVE  /\ \A n \in Member \ {m}, r \in Service : Holds(Doc', r, n) => Holds(Doc, r, n)
         /\ \A r \in lost : ~ Holds(Doc', r, m)
  BY DEF TypeOK, Deposited, SyncOutcome, Renewable, OwnedBy, Holds, Doc

LEMMA CycleKeepsLosses ==
  ASSUME Joiners, LossInv, TypeOK', NobodyCloses', NEW m \in Member,
         CycleSend(m) \/ CycleApply(m) \/ CycleFails(m) \/ FlushChange(m)
  PROVE  LossInv'
  <1>1. CASE CycleSend(m)
    <2>1. PICK lost \in SUBSET Deposited(m) :
            /\ SyncOutcome(m, lost)
            /\ \/ answer' = [answer EXCEPT ![m] = {[lost |-> lost, snapshot |-> {}]}]
               \/ answer' = [answer EXCEPT ![m] = {[lost |-> lost, snapshot |-> {Doc'}]}]
      BY <1>1 DEF CycleSend
    <2>2. \A a \in answer'[m] : a.lost = lost
      BY <2>1 DEF LossInv, TypeOK
    <2>3. \A n \in Member \ {m} : answer'[n] = answer[n]
      BY <2>1 DEF LossInv, TypeOK
    <2>4. AwaitsAlone'
      BY <1>1, <2>3 DEF CycleSend, CycleDue, Joiners, LossInv, AwaitsAlone, TypeOK
    <2>5. LossesAreReal'
      <3> SUFFICES ASSUME NEW n \in Member, NEW a \in answer'[n], NEW r \in a.lost
                   PROVE  ~ Holds(Doc', r, n)
        BY DEF LossesAreReal, Holds, Doc
      <3>1. CASE n = m
        BY <2>1, <2>2, <3>1, SyncGrantsNothingNew DEF LossInv
      <3>2. CASE n # m
        <4>1. r \in Service
          BY DEF TypeOK
        <4> QED
          BY <2>1, <2>3, <3>2, <4>1, SyncGrantsNothingNew DEF LossInv, LossesAreReal
      <3> QED
        BY <3>1, <3>2
    <2> QED
      BY <2>4, <2>5 DEF LossInv
  <1>2. CASE CycleApply(m)
    <2>1. answer'[m] = {} /\ \A n \in Member \ {m} : answer'[n] = answer[n]
      BY <1>2 DEF CycleApply, LossInv, TypeOK
    <2>2. \A n \in Member \ {m} : phase'[n] = phase[n] /\ hold'[n] = hold[n]
      BY <1>2 DEF CycleApply, CycleDone, OffCycle, LossInv, TypeOK
    <2> QED
      BY <1>2, <2>1, <2>2, AwaitingUndisturbed
      DEF CycleApply, LossInv, AwaitsAlone, Holds, Doc
  <1>3. CASE CycleFails(m)
    <2>1. answer'[m] = {} /\ UNCHANGED answer
      BY <1>3 DEF CycleFails, CycleDue
    <2>2. \A n \in Member \ {m} : phase'[n] = phase[n] /\ hold'[n] = hold[n]
      BY <1>3 DEF CycleFails, CycleDone, OffCycle, LossInv, TypeOK
    <2>3. \A n \in Member \ {m}, r \in Service : Holds(Doc', r, n) => Holds(Doc, r, n)
      <3>1. CASE \E lost \in SUBSET Deposited(m) : SyncOutcome(m, lost)
        BY <3>1, SyncGrantsNothingNew DEF LossInv
      <3>2. CASE UNCHANGED <<lease, presence>>
        BY <3>2 DEF Holds, Doc
      <3> QED
        BY <1>3, <3>1, <3>2 DEF CycleFails
    <2> QED
      BY <2>1, <2>2, <2>3, AwaitingUndisturbed DEF LossInv, AwaitsAlone
  <1>4. CASE FlushChange(m)
    <2>1. UNCHANGED <<answer, phase>> /\ hold' = [hold EXCEPT ![m] = {}]
      BY <1>4 DEF FlushChange
    <2>2. \A n \in Member : answer'[n] # {} => phase'[n] = "idle" /\ hold'[n] = {}
      BY <2>1 DEF LossInv, AwaitsAlone, TypeOK
    <2>3. \A n \in Member, r \in Service :
            answer'[n] # {} => (Holds(Doc', r, n) => Holds(Doc, r, n))
      BY <1>4, <2>1
      DEF FlushChange, LossInv, AwaitsAlone, TypeOK, OwnedBy, Holds, Doc
    <2> QED
      BY <2>1, <2>2, <2>3, AwaitingUndisturbed
  <1> QED
    BY <1>1, <1>2, <1>3, <1>4

LEMMA LossStep ==
  ASSUME Joiners, LossInv, [Next]_vars
  PROVE  LossInv'
  <1>1. TypeOK'
    BY TypeStep DEF LossInv
  <1>2. ASSUME NEW m \in Member
        PROVE  ~ CloseBegin(m) /\ ~ Close(m) /\ ~ LoopExits(m)
    BY DEF Joiners, CloseBegin, Fault, Close, CloseRelease, CloseLeave, CloseStop,
           LoopExits, LossInv, NobodyCloses
  <1>3. ASSUME UNCHANGED <<closing, answer, hold>>,
               \A n \in Member : answer[n] # {} => phase'[n] = "idle",
               \A n \in Member, r \in Service : Holds(Doc', r, n) => Holds(Doc, r, n)
        PROVE  LossInv'
    BY <1>1, <1>3, AwaitingUndisturbed DEF LossInv, NobodyCloses, AwaitsAlone
  <1>4. ASSUME NEW m \in Member, NEW s \in Service, Reconcile(m, s)
        PROVE  LossInv'
    <2>1. UNCHANGED closing
      BY <1>4
      DEF Reconcile, Renew, Pass, HandBack, ClaimGranted, ClaimRefused, ClaimFails,
          StartSucceeds, StartFails
    <2> QED
      BY <1>1, <1>4, <2>1, ReconcileKeepsLosses DEF LossInv, NobodyCloses
  <1>5. ASSUME NEW m \in Member,
               CycleSend(m) \/ CycleApply(m) \/ CycleFails(m) \/ FlushChange(m)
        PROVE  LossInv'
    <2>1. UNCHANGED closing
      BY <1>5 DEF CycleSend, CycleApply, CycleFails, FlushChange
    <2> QED
      BY <1>1, <1>5, <2>1, CycleKeepsLosses DEF LossInv, NobodyCloses
  <1>6. ASSUME NEW m \in Member,
               \/ Push(m) \/ Deliver(m) \/ PresenceLapses(m) \/ PresenceStalls(m)
               \/ \E s \in Service : CacheExpires(m, s)
        PROVE  LossInv'
    BY <1>3, <1>6
    DEF Push, Deliver, PresenceLapses, PresenceStalls, CacheExpires, LossInv, AwaitsAlone,
        Holds, Doc
  <1>7. ASSUME NEW m \in Member, TickBegin(m)
        PROVE  LossInv'
    <2>1. phase[m] = "cycled"
      BY <1>7 DEF TickBegin, Joiners
    <2>2. \A n \in Member : answer[n] # {} => phase'[n] = "idle"
      BY <1>7, <2>1 DEF TickBegin, LossInv, AwaitsAlone, TypeOK
    <2> QED
      BY <1>3, <1>7, <2>2 DEF TickBegin, Holds, Doc
  <1>8. ASSUME NEW m \in Member, Crash(m)
        PROVE  LossInv'
    <2>1. NobodyCloses'
      BY <1>8 DEF Crash, LossInv, NobodyCloses, TypeOK
    <2>2. answer'[m] = {}
      BY <1>8 DEF Crash, Forget, LossInv, TypeOK
    <2>3. \A n \in Member \ {m} :
            phase'[n] = phase[n] /\ hold'[n] = hold[n] /\ answer'[n] = answer[n]
      BY <1>8 DEF Crash, Forget, LossInv, TypeOK
    <2> QED
      BY <1>1, <1>8, <2>1, <2>2, <2>3, AwaitingUndisturbed
      DEF Crash, LossInv, AwaitsAlone, Holds, Doc
  <1>9. ASSUME NEW m \in Member, Restart(m)
        PROVE  LossInv'
    <2>1. \A n \in Member : answer[n] # {} => phase'[n] = "idle"
      BY <1>9 DEF Restart, LossInv, AwaitsAlone, TypeOK
    <2> QED
      BY <1>3, <1>9, <2>1 DEF Restart, Holds, Doc
  <1>10. CASE \/ \E s \in Service : Expire(s) \/ Stall(s) \/ Operator(s)
              \/ Takeover \/ WorldMoves
    <2>1. \A s \in Service : ~ Operator(s)
      BY DEF Joiners, Operator, Fault
    <2>2. \A n \in Member, r \in Service : Holds(Doc', r, n) => Holds(Doc, r, n)
      BY <1>10, <2>1
      DEF Expire, Stall, Takeover, WorldMoves, LossInv, TypeOK, Lease, Free, Holds, Doc
    <2> QED
      BY <1>3, <1>10, <2>1, <2>2
      DEF Expire, Stall, Takeover, WorldMoves, LossInv, AwaitsAlone
  <1>11. CASE UNCHANGED vars
    BY <1>3, <1>11 DEF vars, LossInv, AwaitsAlone, Holds, Doc
  <1> QED
    BY <1>2, <1>4, <1>5, <1>6, <1>7, <1>8, <1>9, <1>10, <1>11 DEF Next, MemberStep, Cycle

\* A join daemon never stops a service whose live lease is its own, whatever is
\* lost, late or dead, as long as no operator grants a lease behind its back:
\* its cycle and its tick run on one goroutine, so the losses in a reply are
\* still losses when it is applied.
THEOREM JoinersStopNothingNeedlessly ==
  ASSUME Joiners
  PROVE  Spec => NoNeedlessStandDown
  <1>1. Init => LossInv
    BY InitIsTyped DEF Init, LossInv, NobodyCloses, AwaitsAlone, LossesAreReal
  <1>2. LossInv /\ [Next]_vars => LossInv'
    BY LossStep
  <1>3. LossInv /\ LossInv' /\ [Next]_vars =>
          [\A m \in Member, s \in Service :
             (s \in serving[m] /\ s \notin serving'[m] /\ up'[m]) => ~ Holds(Doc, s, m)]_vars
    <2> SUFFICES ASSUME LossInv, Next, NEW m \in Member, NEW s \in Service,
                        s \in serving[m], s \notin serving'[m], up'[m]
                 PROVE  ~ Holds(Doc, s, m)
      BY DEF vars
    <2>1. ASSUME NEW n \in Member, NEW r \in Service
          PROVE  ~ Reconcile(n, r)
      <3>1. ~ StartSucceeds(n, r)
        <4>1. serving \in [Member -> SUBSET Service]
          BY DEF LossInv, TypeOK
        <4> QED
          BY <4>1 DEF StartSucceeds
      <3> QED
        BY <3>1
        DEF Reconcile, Renew, Pass, HandBack, ClaimGranted, ClaimRefused, ClaimFails,
            StartFails
    <2>2. ASSUME NEW n \in Member, MemberStep(n)
          PROVE  CycleApply(n) \/ Crash(n)
      <3>1. ~ Close(n)
        BY DEF Close, CloseRelease, CloseLeave, CloseStop, LossInv, NobodyCloses
      <3> QED
        BY <2>1, <2>2, <3>1
        DEF MemberStep, Cycle, TickBegin, CycleSend, CycleFails, FlushChange, Push,
            Deliver, PresenceLapses, PresenceStalls, Restart, CloseBegin, LoopExits,
            CacheExpires
    <2>3. PICK n \in Member : CycleApply(n) \/ Crash(n)
      BY <2>2 DEF Next, Expire, Stall, Operator, Takeover, WorldMoves
    <2>4. CASE CycleApply(n)
      <3>1. PICK a \in answer[n] :
              serving' = [serving EXCEPT ![n] = @ \ (a.lost \cap held[n])]
        BY <2>4 DEF CycleApply
      <3>2. n = m /\ s \in a.lost
        BY <3>1 DEF LossInv, TypeOK
      <3> QED
        BY <3>2 DEF LossInv, LossesAreReal
    <2>5. CASE Crash(n)
      BY <2>5 DEF Crash, LossInv, TypeOK
    <2> QED
      BY <2>3, <2>4, <2>5
  <1> QED
    BY <1>1, <1>2, <1>3, PTL DEF Spec, NoNeedlessStandDown

-----------------------------------------------------------------------------
(* Placement implements LeaseContract.                                      *)

HolderOf(s) == IF lease[s].live THEN lease[s].owner ELSE NoOne
Runs(s) == \E m \in Member : s \in serving[m]

\* No step hands a live lease from one member to another.
PassesThroughFree(s) ==
  HolderOf(s)' \in {HolderOf(s), NoOne} \/ HolderOf(s) = NoOne

\* No step changes who holds a lease and what runs at once.
LeaseOrService ==
  \/ UNCHANGED lease
  \/ UNCHANGED serving /\ \A s \in Service : PassesThroughFree(s)

LEMMA MemberStepsAreSeparate ==
  ASSUME LeaseInv, "close" \notin Faults, NEW m \in Member, MemberStep(m)
  PROVE  LeaseOrService
  <1> USE DEF LeaseOrService, PassesThroughFree, HolderOf, OwnedBy, Free
  <1>0. lease \in [Service -> Lease]
    BY DEF LeaseInv, TypeOK
  <1>1. ASSUME NEW s \in Service, Reconcile(m, s)
        PROVE  LeaseOrService
    <2>1. CASE Renew(m, s) \/ Pass(m, s) \/ ClaimRefused(m, s) \/ StartSucceeds(m, s)
      BY <2>1 DEF Renew, Pass, ClaimRefused, StartSucceeds
    <2>2. CASE HandBack(m, s) \/ StartFails(m, s)
      <3>1. UNCHANGED lease \/ lease' = [lease EXCEPT ![s] = Free]
        BY <2>2 DEF HandBack, StartFails, Report, ReportArrives, ReportRefused, ReportLost
      <3>2. UNCHANGED serving
        BY <2>2 DEF HandBack, StartFails
      <3> QED
        BY <1>0, <3>1, <3>2
    <2>3. CASE ClaimGranted(m, s) \/ ClaimFails(m, s)
      <3>1. UNCHANGED lease
            \/ (lease' = [lease EXCEPT ![s] = OwnedBy(m)] /\ Grantable(m, s))
        BY <2>3 DEF ClaimGranted, ClaimFails
      <3>2. UNCHANGED serving
        BY <2>3 DEF ClaimGranted, ClaimFails
      <3> QED
        BY <1>0, <3>1, <3>2 DEF Grantable
    <2> QED
      BY <1>1, <2>1, <2>2, <2>3 DEF Reconcile
  <1>2. ASSUME NEW lost \in SUBSET Deposited(m), SyncOutcome(m, lost)
        PROVE  \A s \in Service : PassesThroughFree(s)
    BY <1>0, <1>2 DEF SyncOutcome, Renewable
  <1>3. CASE CycleSend(m) \/ CycleFails(m)
    BY <1>2, <1>3 DEF CycleSend, CycleFails
  <1>4. CASE FlushChange(m)
    BY <1>0, <1>4 DEF FlushChange
  <1>5. CASE \/ TickBegin(m) \/ CycleApply(m) \/ Push(m) \/ Deliver(m)
             \/ PresenceLapses(m) \/ PresenceStalls(m) \/ Crash(m) \/ Restart(m)
             \/ \E s \in Service : CacheExpires(m, s)
    BY <1>5
    DEF TickBegin, CycleApply, Push, Deliver, PresenceLapses, PresenceStalls, Crash,
        Restart, CacheExpires
  <1>6. ~ CloseBegin(m) /\ ~ Close(m) /\ ~ LoopExits(m)
    BY DEF CloseBegin, Fault, Close, CloseRelease, CloseLeave, CloseStop, LoopExits,
           LeaseInv, NobodyCloses
  <1> QED
    BY <1>1, <1>3, <1>4, <1>5, <1>6 DEF MemberStep, Cycle

LEMMA StepsAreSeparate ==
  ASSUME LeaseInv, Punctual, Next
  PROVE  LeaseOrService
  <1>1. CASE \E s \in Service : Expire(s)
    BY <1>1 DEF Expire, LeaseInv, TypeOK, LeaseOrService, PassesThroughFree, HolderOf
  <1>2. ~ Takeover /\ \A s \in Service : ~ Stall(s) /\ ~ Operator(s)
    BY DEF Punctual, Takeover, Stall, Operator, Fault
  <1>3. CASE WorldMoves
    BY <1>3 DEF WorldMoves, LeaseOrService
  <1> QED
    BY <1>1, <1>2, <1>3, MemberStepsAreSeparate DEF Next, Punctual

\* What runs, runs under the live lease of whoever runs it.
LEMMA RunsWhereHeld ==
  LeaseInv => \A s \in Service, m \in Member :
                s \in serving[m] => HolderOf(s) = m /\ HolderOf(s) # NoOne
  BY NoOneAssumption
  DEF LeaseInv, GoneServesNothing, LeasedWhileEngaged, Engaged, Holds, Doc, HolderOf

\* The same of the next state.
LEMMA RunsWhereHeldNext ==
  LeaseInv' => \A s \in Service, m \in Member :
                 s \in serving'[m] => HolderOf(s)' = m /\ HolderOf(s)' # NoOne
  BY NoOneAssumption
  DEF LeaseInv, GoneServesNothing, LeasedWhileEngaged, Engaged, Holds, Doc, HolderOf

\* A service changes hands only while it runs nowhere, and then through a state
\* in which nobody holds it.
LEMMA LeaseMovesAtRest ==
  ASSUME Punctual, LeaseInv, LeaseInv', Next, NEW s \in Service
  PROVE  \/ HolderOf(s)' = HolderOf(s)
         \/ /\ ~ Runs(s) /\ ~ Runs(s)'
            /\ HolderOf(s) = NoOne \/ HolderOf(s)' = NoOne
  <1>1. LeaseOrService
    BY StepsAreSeparate
  <1>2. CASE UNCHANGED lease
    BY <1>2 DEF HolderOf
  <1>3. CASE UNCHANGED serving /\ PassesThroughFree(s)
    <2>1. CASE Runs(s)
      BY <1>3, <2>1, RunsWhereHeld, RunsWhereHeldNext DEF Runs
    <2>2. CASE ~ Runs(s)
      BY <1>3, <2>2 DEF Runs, PassesThroughFree
    <2> QED
      BY <2>1, <2>2
  <1> QED
    BY <1>1, <1>2, <1>3 DEF LeaseOrService

\* While owners renew in time and nobody overrules placement, every step of
\* placement is one that LeaseContract allows for every service: a service has
\* at most one holder, runs only where it is held and changes hands only while
\* it does not run.
THEOREM PlacementKeepsTheContract ==
  ASSUME Punctual
  PROVE  Spec => ImplementsContract
  <1>1. LeaseInv => Contract!TypeOK
    BY DEF LeaseInv, TypeOK, Lease, Contract!TypeOK
  <1>2. Init => Contract!Init
    <2> SUFFICES ASSUME Init
                 PROVE  Contract!Init
      OBVIOUS
    <2>1. LeaseInv
      BY InitLeased
    <2>2. \A s \in Service : Runs(s) => HolderOf(s) # NoOne
      BY <2>1, RunsWhereHeld DEF Runs
    <2> QED
      BY <1>1, <2>1, <2>2 DEF Contract!Init, Runs, HolderOf
  <1>3. ASSUME LeaseInv, LeaseInv', [Next]_vars
        PROVE  [Contract!Next]_(Contract!contract)
    <2>1. CASE UNCHANGED vars
      BY <2>1 DEF vars, Contract!contract
    <2>2. CASE Next
      <3>1. Contract!TypeOK'
        BY <1>3 DEF LeaseInv, TypeOK, Lease, Contract!TypeOK
      <3>2. ASSUME NEW s \in Service
            PROVE  \/ Contract!Keep(s) \/ Contract!Grant(s) \/ Contract!Withdraw(s)
                   \/ Contract!Start(s) \/ Contract!Die(s)
        <4>1. /\ Runs(s) => HolderOf(s) # NoOne
              /\ Runs(s)' => HolderOf(s)' # NoOne
          BY <1>3, RunsWhereHeld, RunsWhereHeldNext DEF Runs
        <4>2. \/ HolderOf(s)' = HolderOf(s)
              \/ /\ ~ Runs(s) /\ ~ Runs(s)'
                 /\ HolderOf(s) = NoOne \/ HolderOf(s)' = NoOne
          BY <1>3, <2>2, LeaseMovesAtRest
        <4>3. HolderOf(s)' \in Member \cup {NoOne}
          BY <1>3 DEF LeaseInv, TypeOK, Lease, HolderOf
        <4>4. CASE HolderOf(s)' = HolderOf(s) /\ (Runs(s)' <=> Runs(s))
          BY <4>4 DEF Contract!Keep, HolderOf, Runs
        <4>5. CASE HolderOf(s)' = HolderOf(s) /\ Runs(s) /\ ~ Runs(s)'
          BY <4>5 DEF Contract!Die, HolderOf, Runs
        <4>6. CASE HolderOf(s)' = HolderOf(s) /\ ~ Runs(s) /\ Runs(s)'
          BY <4>1, <4>6 DEF Contract!Start, HolderOf, Runs
        <4>7. CASE ~ Runs(s) /\ ~ Runs(s)' /\ HolderOf(s)' = NoOne
          BY <4>7 DEF Contract!Withdraw, HolderOf, Runs
        <4>8. CASE ~ Runs(s) /\ ~ Runs(s)' /\ HolderOf(s) = NoOne /\ HolderOf(s)' # NoOne
          BY <4>3, <4>8 DEF Contract!Grant, HolderOf, Runs
        <4> QED
          BY <4>2, <4>4, <4>5, <4>6, <4>7, <4>8
      <3> QED
        BY <3>1, <3>2 DEF Contract!Next
    <2> QED
      BY <1>3, <2>1, <2>2
  <1> QED
    BY <1>2, <1>3, LeaseInvariant, PTL DEF Spec, ImplementsContract, Contract!Spec
=============================================================================
