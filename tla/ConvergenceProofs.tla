-------------------------- MODULE ConvergenceProofs --------------------------
(***************************************************************************)
(* What holds of Convergence for any members, conductors, bounds and        *)
(* faults: its types, that nothing pushed is undone, that no branch carries *)
(* conflict markers, and that only a stop leaves a merge behind.            *)
(***************************************************************************)
EXTENDS Convergence, TLAPS

\* A spare commit is a commit nothing refers to.
LEMMA FirstIsSpare ==
  ASSUME Spare # {}
  PROVE  First \in Commit /\ First \notin Live
BY DEF First, Spare

LEMMA SecondIsSpare ==
  ASSUME Spare \ {First} # {}
  PROVE  Second \in Commit /\ Second \notin Live /\ Second # First
BY DEF Second, Spare

LEMMA RecordType ==
  ASSUME TypeOK, NEW what \in Kind, NEW healed \in History, Record(what, healed)
  PROVE  /\ kind' \in [Commit -> Kind] /\ heals' \in [Commit -> History]
         /\ First \in Commit /\ Second \in Commit
<1>1. First \in Commit
  BY FirstIsSpare DEF Record
<1>2. Second \in Commit
  BY SecondIsSpare DEF Record
<1> QED BY <1>1, <1>2 DEF Record, TypeOK, Kind, History

LEMMA FaultType ==
  ASSUME TypeOK, NEW what, Fault(what)
  PROVE  spent' \in 0 .. MaxFaults
BY ConvergenceAssumption DEF Fault, TypeOK

\* The histories a member holds are histories, before and after commitLocal.
LEMMA CommittedType ==
  ASSUME TypeOK, NEW m \in Members, CommitLocal(m)
  PROVE  /\ kind' \in [Commit -> Kind] /\ heals' \in [Commit -> History]
         /\ Committed(m) \in History /\ Second \in Commit
<1>1. Open(Ours(m)) \in History /\ Ours(m) \in History
  BY DEF Open, Ours, TypeOK, History
<1>2. Record("work", Open(Ours(m))) /\ "work" \in Kind
  BY DEF CommitLocal, Kind
<1> QED BY <1>1, <1>2, RecordType DEF Committed, TypeOK, History

\* The steps of a member keep the types.
LEMMA WorkingType ==
  ASSUME TypeOK, NEW m \in Members, Working(m)
  PROVE  TypeOK'
<1>1. CASE Edit(m)
  BY <1>1, ConvergenceAssumption DEF Edit, TypeOK, hub, facts, fleet, side
<1>2. CASE ResolveTree(m)
  BY <1>2 DEF ResolveTree, TypeOK, hub, facts, fleet, side
<1>3. CASE Mirror(m)
  BY <1>3 DEF Mirror, TypeOK, hub, facts, fleet, side
<1>4. CASE Pull(m)
  <2>1. /\ kind' \in [Commit -> Kind] /\ heals' \in [Commit -> History]
        /\ Committed(m) \in History /\ Second \in Commit
    BY <1>4, CommittedType DEF Pull
  <2>2. Merged(Committed(m), mirror[m], Second) \in History
    BY <2>1 DEF Merged, TypeOK, History
  <2>5. \/ /\ head' = [head EXCEPT ![m] = Merged(Committed(m), mirror[m], Second)]
           /\ theirs' = [theirs EXCEPT ![m] = {}]
        \/ /\ head' = [head EXCEPT ![m] = Committed(m)]
           /\ theirs' = [theirs EXCEPT ![m] = mirror[m]]
    BY <1>4 DEF Pull
  <2>3. head' \in [Members -> History] /\ theirs' \in [Members -> History]
    <3>1. {} \in History /\ mirror[m] \in History
      BY DEF TypeOK, History
    <3> QED BY <2>1, <2>2, <2>5, <3>1 DEF TypeOK
  <2>4. tree' \in [Members -> {"clean", "dirty", "marked"}] /\ pulls' \in 0 .. MaxPulls
    BY <1>4, ConvergenceAssumption DEF Pull, TypeOK
  <2> QED BY <1>4, <2>1, <2>3, <2>4 DEF Pull, TypeOK, hub, fleet, side
<1>5. CASE Push(m)
  <2>1. /\ kind' \in [Commit -> Kind] /\ heals' \in [Commit -> History]
        /\ Committed(m) \in History
    BY <1>5, CommittedType DEF Push
  <2>2. head' \in [Members -> History] /\ theirs' \in [Members -> History]
    BY <1>5, <2>1 DEF Push, TypeOK, History
  <2>3. branch' \in [Members -> History] /\ spent' \in 0 .. MaxFaults
    BY <1>5, <2>2, FaultType DEF Push, TypeOK
  <2>4. tree' \in [Members -> {"clean", "dirty", "marked"}]
    BY <1>5 DEF Push, TypeOK
  <2> QED BY <1>5, <2>1, <2>2, <2>3, <2>4 DEF Push, TypeOK, fleet, side
<1> QED BY <1>1, <1>2, <1>3, <1>4, <1>5 DEF Working

\* The first of some branches is one of them.
LEMMA MinIsMember ==
  ASSUME NEW S \in SUBSET Members, S # {}
  PROVE  Min(S) \in S
BY ConvergenceAssumption DEF Min

\* The steps of a merger keep the types, up to the merge ...
LEMMA PreparingType ==
  ASSUME TypeOK, NEW k \in Conductors,
         BeginTick(k) \/ CannotPrepare(k) \/ MergeBranch(k)
  PROVE  TypeOK'
<1>1. CASE BeginTick(k)
  <2>1. PICK seen \in {AheadOfMain} \cup IF k \in Local THEN {} ELSE {ahead[k]} :
          /\ ahead' = [ahead EXCEPT ![k] = seen]
          /\ pick' = [pick EXCEPT ![k] = IF seen = {} THEN NoBranch ELSE Min(seen)]
          /\ at' = [at EXCEPT ![k] = IF seen = {} THEN "sweep" ELSE "prepare"]
    BY <1>1 DEF BeginTick
  <2>2. seen \in SUBSET Members
    BY <2>1 DEF AheadOfMain, TypeOK
  <2>3. CASE seen = {}
    <3>1. pick' = [pick EXCEPT ![k] = NoBranch] /\ at' = [at EXCEPT ![k] = "sweep"]
      BY <2>1, <2>3
    <3> QED BY <1>1, <2>1, <2>2, <3>1 DEF BeginTick, TypeOK, Place, hub, facts, client, side
  <2>4. CASE seen # {}
    <3>1. Min(seen) \in Members
      BY <2>2, <2>4, MinIsMember
    <3>2. pick' = [pick EXCEPT ![k] = Min(seen)] /\ at' = [at EXCEPT ![k] = "prepare"]
      BY <2>1, <2>4
    <3> QED BY <1>1, <2>1, <2>2, <3>1, <3>2 DEF BeginTick, TypeOK, Place, hub, facts, client, side
  <2> QED BY <2>3, <2>4
<1>2. CASE CannotPrepare(k)
  <2>1. spent' \in 0 .. MaxFaults
    BY <1>2, FaultType DEF CannotPrepare, TypeOK
  <2> QED BY <1>2, <2>1 DEF CannotPrepare, TypeOK, Place, hub, facts, client, side
<1>3. CASE MergeBranch(k)
  <2>1. /\ kind' \in [Commit -> Kind] /\ heals' \in [Commit -> History] /\ First \in Commit
    BY <1>3, RecordType DEF MergeBranch, Kind, History
  <2>2. branch[pick[k]] \in History
    BY <1>3 DEF MergeBranch, TypeOK
  <2>3. Merged(main, branch[pick[k]], First) \in History
    BY <2>1, <2>2 DEF Merged, TypeOK, History
  <2>4. main \in History /\ "push" \in Place /\ "resolve" \in Place
    BY DEF TypeOK, Place
  <2>5. work' \in [Conductors -> History]
    BY <1>3, <2>3, <2>4 DEF MergeBranch, TypeOK
  <2>6. incoming' \in [Conductors -> History]
    BY <1>3, <2>2 DEF MergeBranch, TypeOK
  <2>7. at' \in [Conductors -> Place]
    BY <1>3, <2>4 DEF MergeBranch, TypeOK
  <2>8. /\ unmerged' \in [Conductors -> BOOLEAN]
        /\ \A n \in Conductors : at'[n] = "prepare" => pick'[n] \in Members
    BY <1>3 DEF MergeBranch, TypeOK
  <2> QED BY <1>3, <2>1, <2>5, <2>6, <2>7, <2>8 DEF MergeBranch, TypeOK, hub, client, side
<1> QED BY <1>1, <1>2, <1>3

\* ... from the merge to the push ...
LEMMA PublishingType ==
  ASSUME TypeOK, NEW k \in Conductors,
         Resolve(k) \/ ResolveFails(k) \/ PushMain(k) \/ PushMainFails(k)
  PROVE  TypeOK'
<1> USE DEF Place
<1>1. CASE Resolve(k)
  <2>1. PICK what \in {"work", "markers"} : Record(what, {})
    BY <1>1 DEF Resolve
  <2>2. /\ kind' \in [Commit -> Kind] /\ heals' \in [Commit -> History] /\ First \in Commit
    BY <2>1, RecordType DEF Kind, History
  <2>3. spent' \in 0 .. MaxFaults
    BY <1>1, FaultType DEF Resolve, TypeOK
  <2>4. work[k] \cup incoming[k] \cup {First} \in History /\ {} \in History
    BY <2>2 DEF TypeOK, History
  <2>5. work' \in [Conductors -> History] /\ incoming' \in [Conductors -> History]
    BY <1>1, <2>4 DEF Resolve, TypeOK
  <2> QED BY <1>1, <2>2, <2>3, <2>5 DEF Resolve, TypeOK, hub, client, side
<1>2. CASE ResolveFails(k)
  <2>1. spent' \in 0 .. MaxFaults /\ {} \in History
    BY <1>2, FaultType DEF ResolveFails, History
  <2> QED BY <1>2, <2>1 DEF ResolveFails, TypeOK, hub, facts, client, side
<1>3. CASE PushMain(k)
  <2>1. main' \in History
    BY <1>3 DEF PushMain, TypeOK
  <2> QED BY <1>3, <2>1 DEF PushMain, TypeOK, facts, client, side
<1>4. CASE PushMainFails(k)
  <2>1. spent' \in 0 .. MaxFaults
    BY <1>4, FaultType DEF PushMainFails, TypeOK
  <2> QED BY <1>4, <2>1 DEF PushMainFails, TypeOK, hub, facts, client, side
<1> QED BY <1>1, <1>2, <1>3, <1>4

\* ... and in the sweep, and when it is stopped and started.
LEMMA SweepingType ==
  ASSUME TypeOK, NEW k \in Conductors,
         Sweep(k) \/ Heal(k) \/ HealFails(k) \/ Stop(k) \/ Start(k)
  PROVE  TypeOK'
<1> USE DEF Place
<1>1. CASE Sweep(k)
  BY <1>1 DEF Sweep, TypeOK, hub, facts, client, side
<1>2. CASE Heal(k)
  <2>1. Open(work[k]) \in History
    BY DEF Open, TypeOK, History
  <2>2. /\ kind' \in [Commit -> Kind] /\ heals' \in [Commit -> History] /\ First \in Commit
    BY <1>2, <2>1, RecordType DEF Heal, Kind
  <2>3. work[k] \cup {First} \in History
    BY <2>2 DEF TypeOK, History
  <2>4. work' \in [Conductors -> History]
    BY <1>2, <2>3 DEF Heal, TypeOK
  <2> QED BY <1>2, <2>2, <2>4 DEF Heal, TypeOK, hub, client, side
<1>3. CASE HealFails(k)
  <2>1. spent' \in 0 .. MaxFaults
    BY <1>3, FaultType DEF HealFails
  <2> QED BY <1>3, <2>1 DEF HealFails, TypeOK, hub, facts, client, side
<1>4. CASE Stop(k)
  <2>1. spent' \in 0 .. MaxFaults
    BY <1>4, FaultType DEF Stop
  <2> QED BY <1>4, <2>1 DEF Stop, TypeOK, hub, facts, client, side
<1>5. CASE Start(k)
  <2>1. ahead' \in [Conductors -> SUBSET Members]
    <3>1. AheadOfMain \in SUBSET Members
      BY DEF AheadOfMain
    <3> QED BY <1>5, <3>1 DEF Start, TypeOK
  <2>2. at' \in [Conductors -> Place] /\ \A n \in Conductors : at'[n] = "prepare" => at[n] = "prepare"
    BY <1>5 DEF Start, TypeOK
  <2>3. unmerged' \in [Conductors -> BOOLEAN]
    <3>1. (unmerged[k] /\ k \notin Local) \in BOOLEAN
      OBVIOUS
    <3> QED BY <1>5, <3>1 DEF Start, TypeOK
  <2> QED BY <1>5, <2>1, <2>2, <2>3 DEF Start, TypeOK, hub, facts, client, side
<1> QED BY <1>1, <1>2, <1>3, <1>4, <1>5

\* The steps of setup and the error-watcher keep the types.
LEMMA SideType ==
  ASSUME TypeOK, Clone \/ PushFix \/ FixFails
  PROVE  TypeOK'
<1>1. CASE Clone
  BY <1>1 DEF Clone, TypeOK, hub, facts, client, fleet
<1>2. CASE PushFix
  <2>0. {} \in History
    BY DEF History
  <2>1. CASE Contains(clone, main)
    <3>1. Record("work", {}) /\ main' = clone \cup {First} /\ fixes' = fixes - 1
      BY <1>2, <2>1 DEF PushFix
    <3>2. /\ kind' \in [Commit -> Kind] /\ heals' \in [Commit -> History] /\ First \in Commit
      BY <3>1, <2>0, RecordType DEF Kind
    <3>3. main' \in History
      BY <3>1, <3>2 DEF TypeOK, History
    <3>4. fixes' \in 0 .. MaxFixes
      BY <3>1, <1>2, ConvergenceAssumption DEF PushFix, TypeOK
    <3> QED BY <1>2, <2>0, <3>2, <3>3, <3>4 DEF PushFix, TypeOK, client, fleet
  <2>2. CASE ~Contains(clone, main)
    BY <1>2, <2>0, <2>2 DEF PushFix, TypeOK, facts, client, fleet
  <2> QED BY <2>1, <2>2
<1>3. CASE FixFails
  <2>1. spent' \in 0 .. MaxFaults /\ {} \in History
    BY <1>3, FaultType DEF FixFails, History
  <2> QED BY <1>3, <2>1 DEF FixFails, TypeOK, hub, facts, client, fleet
<1> QED BY <1>1, <1>2, <1>3

LEMMA StepType == TypeOK /\ [Next]_vars => TypeOK'
<1> SUFFICES ASSUME TypeOK, [Next]_vars PROVE TypeOK'
  OBVIOUS
<1>1. CASE UNCHANGED vars
  BY <1>1 DEF TypeOK, vars, hub, facts, client, fleet, side
<1>2. ASSUME NEW m \in Members, Working(m) PROVE TypeOK'
  BY <1>2, WorkingType
<1>3. ASSUME NEW k \in Conductors, Merging(k) \/ Stop(k) \/ Start(k) PROVE TypeOK'
  BY <1>3, PreparingType, PublishingType, SweepingType DEF Merging
<1>4. CASE Clone \/ PushFix \/ FixFails
  BY <1>4, SideType
<1> QED BY <1>1, <1>2, <1>3, <1>4 DEF Next

LEMMA InitType == Init => TypeOK
<1> SUFFICES ASSUME Init PROVE TypeOK
  OBVIOUS
<1>1. Seed \in Commit /\ {Seed} \in History /\ {} \in History
  BY ConvergenceAssumption DEF Seed, Commit, History
<1>2. kind \in [Commit -> Kind] /\ heals \in [Commit -> History]
  BY <1>1 DEF Init, Kind
<1>3. /\ edits \in 0 .. MaxEdits /\ pulls \in 0 .. MaxPulls
      /\ fixes \in 0 .. MaxFixes /\ spent \in 0 .. MaxFaults
  BY ConvergenceAssumption DEF Init
<1>4. /\ at \in [Conductors -> Place] /\ ahead \in [Conductors -> SUBSET Members]
      /\ pick \in [Conductors -> Members \cup {NoBranch}]
      /\ incoming \in [Conductors -> History] /\ work \in [Conductors -> History]
      /\ unmerged \in [Conductors -> BOOLEAN]
      /\ \A k \in Conductors : at[k] # "prepare"
  BY <1>1 DEF Init, Place
<1>5. /\ branch \in [Members -> History] /\ head \in [Members -> History]
      /\ theirs \in [Members -> History] /\ mirror \in [Members -> History]
      /\ tree \in [Members -> {"clean", "dirty", "marked"}]
  BY <1>1 DEF Init
<1> QED BY <1>1, <1>2, <1>3, <1>4, <1>5 DEF Init, TypeOK

\* The hub, the members' work trees, the mergers and the private clone keep
\* their types, whatever fails.
THEOREM ConvergenceTypeCorrect == Spec => []TypeOK
BY InitType, StepType, PTL DEF Spec

-----------------------------------------------------------------------------
(* Nothing is undone: every action that moves a branch or main has looked   *)
(* whether what it replaces is contained in what it puts there.             *)

LEMMA PushKeeps ==
  ASSUME TypeOK, NEW m \in Members, Push(m)
  PROVE  main' = main /\ \A n \in Members : branch[n] \subseteq branch'[n]
<1>1. main' = main
  BY DEF Push
<1>2. CASE Contains(head'[m], branch[m]) /\ branch' = [branch EXCEPT ![m] = head'[m]]
  BY <1>1, <1>2 DEF Contains, TypeOK
<1>3. CASE UNCHANGED branch
  BY <1>1, <1>3
<1> QED BY <1>2, <1>3 DEF Push

LEMMA StepKeeps ==
  TypeOK /\ [Next]_vars
    => [main \subseteq main' /\ \A m \in Members : branch[m] \subseteq branch'[m]]_vars
<1> SUFFICES ASSUME TypeOK, [Next]_vars, vars' # vars
             PROVE  main \subseteq main' /\ \A m \in Members : branch[m] \subseteq branch'[m]
  OBVIOUS
<1>1. ASSUME NEW m \in Members, Working(m)
      PROVE  main' = main /\ \A n \in Members : branch[n] \subseteq branch'[n]
  BY <1>1, PushKeeps DEF Working, Edit, ResolveTree, Mirror, Pull, hub
<1>2. ASSUME NEW k \in Conductors, PushMain(k)
      PROVE  main \subseteq main' /\ branch' = branch
  BY <1>2 DEF PushMain, Contains
<1>3. ASSUME NEW k \in Conductors, Merging(k) \/ Stop(k) \/ Start(k), ~PushMain(k)
      PROVE  main' = main /\ branch' = branch
  BY <1>3 DEF Merging, BeginTick, CannotPrepare, MergeBranch, Resolve, ResolveFails,
              PushMainFails, Sweep, Heal, HealFails, Stop, Start, hub
<1>4. CASE PushFix
  BY <1>4 DEF PushFix, Contains
<1>5. CASE Clone \/ FixFails
  BY <1>5 DEF Clone, FixFails, hub
<1> QED BY <1>1, <1>2, <1>3, <1>4, <1>5 DEF Next

\* However the pushes of mergers, members, setup and the error-watcher
\* interleave, no commit that reached main or a branch is lost from it.
THEOREM PushedWorkIsKept == Spec => NothingIsUndone
BY InitType, StepType, StepKeeps, PTL DEF Spec, NothingIsUndone

-----------------------------------------------------------------------------
(* Branches stay clean.  What makes it inductive: a tree that git calls     *)
(* clean has no markers in what its HEAD holds, so that a Push that finds   *)
(* nothing to commit pushes nothing with markers.                           *)

CleanIsClean == \A m \in Members : tree[m] = "clean" => Open(head[m]) = {}

\* What a history holds in the next state.
OpenNext(h) == {c \in h : kind'[c] = "markers" /\ \A d \in h : c \notin heals'[d]}

\* Recording a commit changes nothing of what is referred to.
LEMMA OpenIsKept ==
  ASSUME TypeOK, NEW what \in Kind, NEW healed \in History, Record(what, healed),
         NEW h \in SUBSET Live
  PROVE  OpenNext(h) = Open(h)
<1>1. Live \subseteq Commit
  BY DEF Live, TypeOK, History
<1>2. First \notin Live
  BY FirstIsSpare DEF Record
<1>3. \A c \in h : kind'[c] = kind[c] /\ heals'[c] = heals[c]
  BY <1>1, <1>2 DEF Record
<1> QED BY <1>3 DEF OpenNext, Open

\* A commit that resolves what is open in its history leaves nothing open.
LEMMA CommitCleans ==
  ASSUME TypeOK, NEW h \in SUBSET Live, Record("work", Open(h))
  PROVE  OpenNext(h \cup {First}) = {}
<1>1. Live \subseteq Commit
  BY DEF Live, TypeOK, History
<1>2. First \notin Live /\ First \in Commit
  BY FirstIsSpare DEF Record
<1>3. \A c \in h : kind'[c] = kind[c] /\ heals'[c] = heals[c]
  BY <1>1, <1>2 DEF Record
<1>4. kind'[First] = "work" /\ heals'[First] = Open(h)
  BY <1>2 DEF Record
<1>5. \A c \in h : kind'[c] = "markers" => \E d \in h \cup {First} : c \in heals'[d]
  BY <1>3, <1>4 DEF Open
<1> QED BY <1>4, <1>5 DEF OpenNext

\* What commitLocal lets through is clean.
LEMMA CommittedIsClean ==
  ASSUME TypeOK, CleanIsClean, NEW m \in Members, CommitLocal(m)
  PROVE  OpenNext(Committed(m)) = {}
<1>1. Ours(m) \in SUBSET Live /\ head[m] \in SUBSET Live
  BY DEF Ours, Live
<1>2. Record("work", Open(Ours(m))) /\ tree[m] # "marked"
  BY DEF CommitLocal
<1>3. CASE tree[m] = "dirty"
  BY <1>1, <1>2, <1>3, CommitCleans DEF Committed
<1>4. CASE tree[m] = "clean"
  <2>1. Open(Ours(m)) \in History /\ "work" \in Kind
    BY DEF Open, Ours, TypeOK, History, Kind
  <2>2. OpenNext(head[m]) = Open(head[m])
    BY <1>1, <1>2, <2>1, OpenIsKept
  <2> QED BY <1>4, <2>2 DEF Committed, CleanIsClean
<1> QED BY <1>2, <1>3, <1>4 DEF TypeOK

CleanInv == BranchesStayClean /\ CleanIsClean

\* A commit made elsewhere disturbs neither.
LEMMA ElsewhereKeepsClean ==
  ASSUME TypeOK, CleanInv, UNCHANGED <<branch, head, tree>>,
         UNCHANGED facts \/ \E what \in Kind, healed \in History : Record(what, healed)
  PROVE  CleanInv'
<1>1. CASE UNCHANGED facts
  BY <1>1 DEF CleanInv, BranchesStayClean, CleanIsClean, Open, facts
<1>2. CASE \E what \in Kind, healed \in History : Record(what, healed)
  <2>1. PICK what \in Kind, healed \in History : Record(what, healed)
    BY <1>2
  <2>2. \A m \in Members : branch[m] \in SUBSET Live /\ head[m] \in SUBSET Live
    BY DEF Live
  <2>3. \A m \in Members : OpenNext(branch[m]) = Open(branch[m]) /\ OpenNext(head[m]) = Open(head[m])
    BY <2>1, <2>2, OpenIsKept
  <2> QED BY <2>3 DEF CleanInv, BranchesStayClean, CleanIsClean, Open, OpenNext
<1> QED BY <1>1, <1>2

\* What commitLocal records leaves every other history as it was.
LEMMA CommitLocalKeeps ==
  ASSUME TypeOK, NEW m \in Members, CommitLocal(m), NEW h \in SUBSET Live
  PROVE  OpenNext(h) = Open(h)
<1>1. Open(Ours(m)) \in History /\ "work" \in Kind
  BY DEF Open, Ours, TypeOK, History, Kind
<1> QED BY <1>1, OpenIsKept DEF CommitLocal

LEMMA PullKeepsClean ==
  ASSUME TypeOK, CleanInv, NEW m \in Members, Pull(m)
  PROVE  CleanInv'
<1>1. \A n \in Members : OpenNext(branch[n]) = Open(branch[n]) /\ OpenNext(head[n]) = Open(head[n])
  BY CommitLocalKeeps DEF Pull, Live
<1>2. BranchesStayClean'
  BY <1>1 DEF Pull, CleanInv, BranchesStayClean, Open, OpenNext, hub
<1>3. ASSUME NEW n \in Members \ {m}, tree'[n] = "clean"
      PROVE  OpenNext(head'[n]) = {}
  BY <1>1, <1>3 DEF Pull, TypeOK, CleanInv, CleanIsClean
<1>4. ASSUME tree'[m] = "clean"
      PROVE  OpenNext(head'[m]) = {}
  BY <1>4 DEF Pull, TypeOK, Open, OpenNext
<1> QED BY <1>2, <1>3, <1>4 DEF CleanInv, CleanIsClean, Open, OpenNext

LEMMA PushKeepsClean ==
  ASSUME TypeOK, CleanInv, NEW m \in Members, Push(m)
  PROVE  CleanInv'
<1>1. \A n \in Members : OpenNext(branch[n]) = Open(branch[n]) /\ OpenNext(head[n]) = Open(head[n])
  BY CommitLocalKeeps DEF Push, Live
<1>2. OpenNext(Committed(m)) = {}
  BY CommittedIsClean DEF Push, CleanInv
<1>3. head' = [head EXCEPT ![m] = Committed(m)] /\ tree' = [tree EXCEPT ![m] = "clean"]
  BY DEF Push
<1>4. ASSUME NEW n \in Members
      PROVE  OpenNext(branch'[n]) = {}
  <2>1. branch' = branch \/ branch' = [branch EXCEPT ![m] = head'[m]]
    BY DEF Push
  <2>2. head'[m] = Committed(m)
    BY <1>3 DEF TypeOK
  <2> QED BY <1>1, <1>2, <2>1, <2>2 DEF TypeOK, CleanInv, BranchesStayClean
<1>5. ASSUME NEW n \in Members, tree'[n] = "clean"
      PROVE  OpenNext(head'[n]) = {}
  BY <1>1, <1>2, <1>3, <1>5 DEF TypeOK, CleanInv, CleanIsClean
<1> QED BY <1>4, <1>5 DEF CleanInv, BranchesStayClean, CleanIsClean, Open, OpenNext

LEMMA CleanStep == TypeOK /\ CleanInv /\ [Next]_vars => CleanInv'
<1> SUFFICES ASSUME TypeOK, CleanInv, [Next]_vars PROVE CleanInv'
  OBVIOUS
<1> USE DEF hub, facts, client, fleet, side
<1>1. CASE UNCHANGED vars
  BY <1>1, ElsewhereKeepsClean DEF vars
<1>2. ASSUME NEW m \in Members, Edit(m) \/ ResolveTree(m) \/ Mirror(m) PROVE CleanInv'
  <2>1. UNCHANGED <<branch, head, facts>> /\ \A n \in Members : tree'[n] = "clean" => tree[n] = "clean"
    BY <1>2 DEF Edit, ResolveTree, Mirror, TypeOK
  <2> QED BY <2>1 DEF CleanInv, BranchesStayClean, CleanIsClean, Open
<1>3. ASSUME NEW m \in Members, Pull(m) \/ Push(m) PROVE CleanInv'
  BY <1>3, PullKeepsClean, PushKeepsClean
<1>4. ASSUME NEW k \in Conductors, Merging(k) \/ Stop(k) \/ Start(k) PROVE CleanInv'
  <2>1. UNCHANGED <<branch, head, tree>>
    BY <1>4 DEF Merging, BeginTick, CannotPrepare, MergeBranch, Resolve, ResolveFails, PushMain,
                PushMainFails, Sweep, Heal, HealFails, Stop, Start
  <2>2. {} \in History /\ Open(work[k]) \in History /\ {"work", "markers", "merge"} \subseteq Kind
    BY DEF Open, TypeOK, History, Kind
  <2>3. UNCHANGED facts \/ \E what \in Kind, healed \in History : Record(what, healed)
    BY <1>4, <2>2 DEF Merging, BeginTick, CannotPrepare, MergeBranch, Resolve, ResolveFails, PushMain,
                PushMainFails, Sweep, Heal, HealFails, Stop, Start
  <2> QED BY <2>1, <2>3, ElsewhereKeepsClean
<1>5. CASE Clone \/ PushFix \/ FixFails
  <2>1. UNCHANGED <<branch, head, tree>>
    BY <1>5 DEF Clone, PushFix, FixFails
  <2>2. {} \in History /\ "work" \in Kind
    BY DEF History, Kind
  <2>3. UNCHANGED facts \/ \E what \in Kind, healed \in History : Record(what, healed)
    BY <1>5, <2>2 DEF Clone, PushFix, FixFails
  <2> QED BY <2>1, <2>3, ElsewhereKeepsClean
<1> QED BY <1>1, <1>2, <1>3, <1>4, <1>5 DEF Next, Working

LEMMA CleanInit == Init => CleanInv
<1> SUFFICES ASSUME Init PROVE CleanInv
  OBVIOUS
<1>1. Seed \in Commit
  BY ConvergenceAssumption DEF Seed, Commit
<1>2. kind[Seed] = "work"
  BY <1>1 DEF Init
<1>3. Open({Seed}) = {}
  BY <1>2 DEF Open
<1> QED BY <1>3 DEF Init, CleanInv, BranchesStayClean, CleanIsClean

\* No member ever pushes conflict markers, not even those that reached it with
\* a clean merge of main.
THEOREM BranchesAreClean == Spec => []BranchesStayClean
<1>1. CleanInv => BranchesStayClean
  BY DEF CleanInv
<1> QED BY <1>1, InitType, StepType, CleanInit, CleanStep, PTL DEF Spec

-----------------------------------------------------------------------------
(* Only a stop leaves a merge behind.                                       *)

\* What a step of one conductor leaves unmerged.
LEMMA IndexStep ==
  ASSUME TypeOK, [Next]_vars, NEW k \in Conductors
  PROVE  unmerged'[k] /\ at'[k] # "resolve"
           => unmerged[k] /\ (at[k] # "resolve" \/ (at'[k] = "down" /\ "stop" \in Faults))
<1> USE DEF hub, facts, client, fleet, side
<1>1. CASE UNCHANGED <<at, unmerged>>
  BY <1>1
<1>2. ASSUME NEW n \in Conductors, Merging(n) \/ Start(n)
      PROVE  unmerged'[k] /\ at'[k] # "resolve" => unmerged[k] /\ at[k] # "resolve"
  <2>1. CASE n # k
    BY <1>2, <2>1 DEF Merging, BeginTick, CannotPrepare, MergeBranch, Resolve, ResolveFails, PushMain,
                      PushMainFails, Sweep, Heal, HealFails, Start, TypeOK
  <2>2. CASE n = k /\ (Resolve(n) \/ ResolveFails(n) \/ MergeBranch(n))
    BY <2>2 DEF Resolve, ResolveFails, MergeBranch, TypeOK
  <2>3. CASE n = k /\ ~(Resolve(n) \/ ResolveFails(n) \/ MergeBranch(n))
    <3>1. at[k] # "resolve"
      BY <1>2, <2>3 DEF Merging, BeginTick, CannotPrepare, PushMain, PushMainFails, Sweep, Heal,
                        HealFails, Start
    <3>2. unmerged'[k] => unmerged[k]
      BY <1>2, <2>3 DEF Merging, BeginTick, CannotPrepare, PushMain, PushMainFails, Sweep, Heal,
                        HealFails, Start, TypeOK
    <3> QED BY <3>1, <3>2
  <2> QED BY <2>1, <2>2, <2>3
<1>3. ASSUME NEW n \in Conductors, Stop(n)
      PROVE  unmerged' = unmerged /\ (at'[k] = at[k] \/ at'[k] = "down") /\ "stop" \in Faults
  BY <1>3 DEF Stop, Fault, TypeOK
<1>4. ASSUME ~\E n \in Conductors : Merging(n) \/ Stop(n) \/ Start(n)
      PROVE  UNCHANGED <<at, unmerged>>
  BY <1>4 DEF vars, Next, Working, Edit, ResolveTree, Mirror, Pull, Push, Clone, PushFix, FixFails
<1> QED BY <1>1, <1>2, <1>3, <1>4

\* A tick that ends other than by a stop, however it ends, has left no
\* unfinished merge, so the next one can check main out.
THEOREM OnlyStopsLeaveMerges == Spec => IndexIsClean
<1>1. TypeOK /\ [Next]_vars
        => [\A k \in Conductors :
              unmerged'[k] /\ at'[k] # "resolve"
                => unmerged[k] /\ (at'[k] = "down" \/ at[k] # "resolve")]_vars
  BY IndexStep
<1> QED BY <1>1, InitType, StepType, PTL DEF Spec, IndexIsClean

\* As long as no conductor is stopped nothing is ever left behind: the exception
\* of ReachesMainUnlessLeftBehind needs a stop.
NoMergeLeft == \A k \in Conductors : unmerged[k] => at[k] = "resolve"

THEOREM NoMergeIsLeft ==
  ASSUME "stop" \notin Faults
  PROVE  Spec => []NoMergeLeft
<1>1. Init => NoMergeLeft
  BY DEF Init, NoMergeLeft
<1>2. TypeOK /\ NoMergeLeft /\ [Next]_vars => NoMergeLeft'
  BY IndexStep DEF NoMergeLeft
<1> QED BY <1>1, <1>2, InitType, StepType, PTL DEF Spec
=============================================================================
