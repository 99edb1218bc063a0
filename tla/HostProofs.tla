----------------------------- MODULE HostProofs -----------------------------
(***************************************************************************)
(* That a session goes on as one, for any boxes, members, kinds of errors,  *)
(* bounds and faults: every variable of MCHost keeps its type, what is      *)
(* published carries the session's history on, who writes as the host is    *)
(* the one the session names, and a scaffold keeps the protocol.            *)
(***************************************************************************)
EXTENDS MCHost, SequenceTheorems, TLAPS

-----------------------------------------------------------------------------
(* Hosting.                                                                 *)

USE DEF record, evidence, lines, process

\* Every line there is was begun without evidence of another; a process that is
\* about to serve, or serves, has one, and a member that runs has mirrored one.
LineInv ==
  /\ blind = 1 .. made
  /\ \A x \in Machine : canon[x] <= made
  /\ \A j \in Joiner : mirror[j] <= made
  /\ reg # Nowhere => canon[reg] # 0
  /\ \A h \in Box :
       at[h] \in {"serve", "announce", "adopt", "up", "retake"} => canon[h] # 0
  /\ \A j \in Joiner : /\ at[j] # "off" => mirror[j] # 0
                       /\ at[j] = "serve" => canon[j] # 0

\* Nobody writes at a generation that has not come, and a host that writes at the
\* session's, wherever it is, is the one it names.
NamedInv ==
  /\ gen > 0
  /\ \A x \in Machine : known[x] <= gen
  /\ \A h \in Box : known[h] = gen => hostMachine = h

\* The type invariant in parts, each about what a step usually changes together.
Places == {"off", "look", "wait", "claim", "serve", "announce", "adopt", "up", "retake",
           "rebuild", "flip"}

RecordOK ==
  /\ gen \in Nat /\ hostMachine \in Machine \cup {Nowhere}
  /\ source \in {"none", "host", "cutover"} /\ lease \in Machine \cup {Nowhere}

EvidenceOK == reported \subseteq Joiner /\ converged \in BOOLEAN

LinesOK ==
  /\ made \in Lines /\ canon \in [Machine -> Lines] /\ mirror \in [Joiner -> Lines]
  /\ blind \subseteq Lines

PlaceOK ==
  /\ at \in [Machine -> Places]
  /\ \A j \in Joiner : at[j] \in {"off", "up", "rebuild", "serve", "flip"}

GrantsOK ==
  /\ reg \in Machine \cup {Nowhere} /\ known \in [Machine -> Nat]
  /\ held \subseteq Machine /\ claimed \subseteq Box /\ promoted \subseteq Joiner
  /\ orphan \subseteq Joiner /\ retaken \subseteq Joiner
  /\ hostSpent \in 0 .. MaxHostFaults

HostInv ==
  /\ RecordOK /\ EvidenceOK /\ LinesOK /\ PlaceOK /\ GrantsOK
  /\ LineInv /\ NamedInv

\* The parts make the type invariant of Hosting.
LEMMA HostInvTypes == HostInv => HostTypeOK
BY DEF HostInv, HostTypeOK, RecordOK, EvidenceOK, LinesOK, PlaceOK, GrantsOK, Places

\* What every proof below knows of a machine.
LEMMA MachineFacts ==
  /\ Box \subseteq Machine /\ Joiner \subseteq Machine /\ Nowhere \notin Machine
  /\ \A h \in Box : h \notin Joiner
  /\ MaxMade \in Nat /\ MaxHostFaults \in Nat
BY HostAssumption DEF Machine

\* A session that has only been minted has the invariant.
LEMMA HostStart == HostInit => HostInv
<1> SUFFICES ASSUME HostInit PROVE HostInv
  OBVIOUS
<1>1. RecordOK /\ EvidenceOK
  BY DEF HostInit, RecordOK, EvidenceOK
<1>2. LinesOK
  BY MachineFacts DEF HostInit, LinesOK, Lines
<1>3. PlaceOK
  BY MachineFacts DEF HostInit, PlaceOK, Places
<1>4. GrantsOK
  BY MachineFacts DEF HostInit, GrantsOK
<1>5. LineInv
  BY MachineFacts DEF HostInit, LineInv
<1>6. NamedInv
  BY MachineFacts DEF HostInit, NamedInv
<1> QED BY <1>1, <1>2, <1>3, <1>4, <1>5, <1>6 DEF HostInv

\* A process that ends keeps the invariant, whatever becomes of its lease and of
\* the budget of faults.
LEMMA EndsKeeps ==
  ASSUME HostInv, NEW x \in Machine, Ends(x),
         lease' \in Machine \cup {Nowhere}, hostSpent' \in 0 .. MaxHostFaults,
         UNCHANGED <<gen, hostMachine, evidence, made, mirror, blind, known>>,
         source' \in {"none", "host", "cutover"}
  PROVE  HostInv'
<1>1. RecordOK' /\ EvidenceOK'
  BY DEF HostInv, RecordOK, EvidenceOK
<1>2. LinesOK'
  BY MachineFacts DEF HostInv, LinesOK, Lines, Ends
<1>3. PlaceOK'
  BY MachineFacts DEF HostInv, PlaceOK, Places, Ends, Goes
<1>4. GrantsOK'
  BY MachineFacts DEF HostInv, GrantsOK, Ends, LetsGo
<1>5. LineInv'
  BY MachineFacts DEF HostInv, LineInv, LinesOK, PlaceOK, GrantsOK, Ends, Goes, LetsGo, Lines
<1>6. NamedInv'
  BY DEF HostInv, NamedInv
<1> QED BY <1>1, <1>2, <1>3, <1>4, <1>5, <1>6 DEF HostInv

\* A host that starts.
LEMMA BootKeeps ==
  ASSUME HostInv, NEW h \in Box, Boot(h)
  PROVE  HostInv'
<1>1. RecordOK' /\ EvidenceOK'
  BY MachineFacts DEF HostInv, RecordOK, EvidenceOK, Boot, Goes
<1>2. LinesOK'
  BY MachineFacts DEF HostInv, LinesOK, GrantsOK, Lines, Boot, Goes
<1>3. PlaceOK'
  BY MachineFacts DEF HostInv, PlaceOK, Places, Boot, Goes
<1>4. GrantsOK'
  BY MachineFacts DEF HostInv, GrantsOK, RecordOK, Boot, Goes
<1>5. LineInv'
  BY MachineFacts DEF HostInv, LineInv, LinesOK, PlaceOK, GrantsOK, Lines, Boot, Goes
<1>6. NamedInv'
  BY MachineFacts DEF HostInv, NamedInv, RecordOK, GrantsOK, Boot, Goes
<1> QED BY <1>1, <1>2, <1>3, <1>4, <1>5, <1>6 DEF HostInv

\* A takeover: the generation moves on to the host that claims.
LEMMA ClaimKeeps ==
  ASSUME HostInv, NEW h \in Box, Claim(h)
  PROVE  HostInv'
<1>1. RecordOK' /\ EvidenceOK'
  BY MachineFacts DEF HostInv, RecordOK, EvidenceOK, Claim, Goes
<1>2. LinesOK'
  BY MachineFacts DEF HostInv, LinesOK, GrantsOK, Lines, Claim, Goes
<1>3. PlaceOK'
  BY MachineFacts DEF HostInv, PlaceOK, Places, Claim, Goes
<1>4. GrantsOK'
  BY MachineFacts DEF HostInv, GrantsOK, RecordOK, Claim, Goes
<1>5. LineInv'
  BY MachineFacts DEF HostInv, LineInv, LinesOK, PlaceOK, GrantsOK, Lines, Claim, Goes
<1>6. NamedInv'
  BY MachineFacts DEF HostInv, NamedInv, RecordOK, GrantsOK, Claim, Goes
<1> QED BY <1>1, <1>2, <1>3, <1>4, <1>5, <1>6 DEF HostInv

\* Up, with the lease or without.
LEMMA AdoptLeaseKeeps ==
  ASSUME HostInv, NEW h \in Box, AdoptLease(h)
  PROVE  HostInv'
<1>1. RecordOK' /\ EvidenceOK'
  BY MachineFacts DEF HostInv, RecordOK, EvidenceOK, AdoptLease, Goes
<1>2. LinesOK'
  BY MachineFacts DEF HostInv, LinesOK, GrantsOK, Lines, AdoptLease, Goes
<1>3. PlaceOK'
  BY MachineFacts DEF HostInv, PlaceOK, Places, AdoptLease, Goes
<1>4. GrantsOK'
  BY MachineFacts DEF HostInv, GrantsOK, RecordOK, AdoptLease, Goes
<1>5. LineInv'
  BY MachineFacts DEF HostInv, LineInv, LinesOK, PlaceOK, GrantsOK, Lines, AdoptLease, Goes
<1>6. NamedInv'
  BY MachineFacts DEF HostInv, NamedInv, RecordOK, GrantsOK, AdoptLease, Goes
<1> QED BY <1>1, <1>2, <1>3, <1>4, <1>5, <1>6 DEF HostInv

\* A lost lease takes the registration with it.
LEMMA StandDownKeeps ==
  ASSUME HostInv, NEW x \in Machine, StandDown(x)
  PROVE  HostInv'
<1>1. RecordOK' /\ EvidenceOK'
  BY MachineFacts DEF HostInv, RecordOK, EvidenceOK, StandDown, LetsGo
<1>2. LinesOK'
  BY MachineFacts DEF HostInv, LinesOK, GrantsOK, Lines, StandDown, LetsGo
<1>3. PlaceOK'
  BY MachineFacts DEF HostInv, PlaceOK, Places, StandDown, LetsGo
<1>4. GrantsOK'
  BY MachineFacts DEF HostInv, GrantsOK, RecordOK, StandDown, LetsGo
<1>5. LineInv'
  BY MachineFacts DEF HostInv, LineInv, LinesOK, PlaceOK, GrantsOK, Lines, StandDown, LetsGo
<1>6. NamedInv'
  BY MachineFacts DEF HostInv, NamedInv, RecordOK, GrantsOK, StandDown, LetsGo
<1> QED BY <1>1, <1>2, <1>3, <1>4, <1>5, <1>6 DEF HostInv

\* A host takes the lease.
LEMMA RetakeKeeps ==
  ASSUME HostInv, NEW h \in Box, Retake(h)
  PROVE  HostInv'
<1>1. RecordOK' /\ EvidenceOK'
  BY MachineFacts DEF HostInv, RecordOK, EvidenceOK, Retake, Goes
<1>2. LinesOK'
  BY MachineFacts DEF HostInv, LinesOK, GrantsOK, Lines, Retake, Goes
<1>3. PlaceOK'
  BY MachineFacts DEF HostInv, PlaceOK, Places, Retake, Goes
<1>4. GrantsOK'
  BY MachineFacts DEF HostInv, GrantsOK, RecordOK, Retake, Goes
<1>5. LineInv'
  BY MachineFacts DEF HostInv, LineInv, LinesOK, PlaceOK, GrantsOK, Lines, Retake, Goes
<1>6. NamedInv'
  BY MachineFacts DEF HostInv, NamedInv, RecordOK, GrantsOK, Retake, Goes
<1> QED BY <1>1, <1>2, <1>3, <1>4, <1>5, <1>6 DEF HostInv

\* A host publishes what it serves, or gives the lease back.
LEMMA RepublishKeeps ==
  ASSUME HostInv, NEW h \in Box, Republish(h)
  PROVE  HostInv'
<1>1. RecordOK' /\ EvidenceOK'
  BY MachineFacts DEF HostInv, RecordOK, EvidenceOK, Republish, Goes, Publishes, HostFault,
     NothingSpent, Releases
<1>2. LinesOK'
  BY MachineFacts DEF HostInv, LinesOK, GrantsOK, Lines, Republish, Goes, Publishes,
     HostFault, NothingSpent, Releases
<1>3. PlaceOK'
  BY MachineFacts DEF HostInv, PlaceOK, Places, Republish, Goes, Publishes, HostFault,
     NothingSpent, Releases
<1>4. GrantsOK'
  BY MachineFacts DEF HostInv, GrantsOK, RecordOK, Republish, Goes, Publishes, HostFault,
     NothingSpent, Releases
<1>5. LineInv'
  BY MachineFacts DEF HostInv, LineInv, LinesOK, PlaceOK, GrantsOK, Lines, Republish, Goes,
     Publishes, HostFault, NothingSpent, Releases
<1>6. NamedInv'
  BY MachineFacts DEF HostInv, NamedInv, RecordOK, GrantsOK, Republish, Goes, Publishes,
     HostFault, NothingSpent, Releases
<1> QED BY <1>1, <1>2, <1>3, <1>4, <1>5, <1>6 DEF HostInv

\* The session is pointed at the box that it names.
LEMMA OperatorFlipsKeeps ==
  ASSUME HostInv, NEW h \in Box, OperatorFlips(h)
  PROVE  HostInv'
<1>1. RecordOK' /\ EvidenceOK'
  BY MachineFacts DEF HostInv, RecordOK, EvidenceOK, OperatorFlips
<1>2. LinesOK'
  BY MachineFacts DEF HostInv, LinesOK, GrantsOK, Lines, OperatorFlips
<1>3. PlaceOK'
  BY MachineFacts DEF HostInv, PlaceOK, Places, OperatorFlips
<1>4. GrantsOK'
  BY MachineFacts DEF HostInv, GrantsOK, RecordOK, OperatorFlips
<1>5. LineInv'
  BY MachineFacts DEF HostInv, LineInv, LinesOK, PlaceOK, GrantsOK, Lines, OperatorFlips
<1>6. NamedInv'
  BY MachineFacts DEF HostInv, NamedInv, RecordOK, GrantsOK, OperatorFlips
<1> QED BY <1>1, <1>2, <1>3, <1>4, <1>5, <1>6 DEF HostInv

\* A member joins, with what is published or what it has.
LEMMA JoinsKeeps ==
  ASSUME HostInv, NEW j \in Joiner, Joins(j)
  PROVE  HostInv'
<1>1. RecordOK' /\ EvidenceOK'
  BY MachineFacts DEF HostInv, RecordOK, EvidenceOK, Joins, Goes
<1>2. LinesOK'
  BY MachineFacts DEF HostInv, LinesOK, GrantsOK, Lines, Joins, Goes
<1>3. PlaceOK'
  BY MachineFacts DEF HostInv, PlaceOK, Places, Joins, Goes
<1>4. GrantsOK'
  BY MachineFacts DEF HostInv, GrantsOK, RecordOK, Joins, Goes
<1>5. LineInv'
  BY MachineFacts DEF HostInv, LineInv, LinesOK, PlaceOK, GrantsOK, Lines, Joins, Goes
<1>6. NamedInv'
  BY MachineFacts DEF HostInv, NamedInv, RecordOK, GrantsOK, Joins, Goes
<1> QED BY <1>1, <1>2, <1>3, <1>4, <1>5, <1>6 DEF HostInv

\* A member fetches what is published.
LEMMA FetchesKeeps ==
  ASSUME HostInv, NEW j \in Joiner, Fetches(j)
  PROVE  HostInv'
<1>1. RecordOK' /\ EvidenceOK'
  BY MachineFacts DEF HostInv, RecordOK, EvidenceOK, Fetches
<1>2. LinesOK'
  BY MachineFacts DEF HostInv, LinesOK, GrantsOK, Lines, Fetches
<1>3. PlaceOK'
  BY MachineFacts DEF HostInv, PlaceOK, Places, Fetches
<1>4. GrantsOK'
  BY MachineFacts DEF HostInv, GrantsOK, RecordOK, Fetches
<1>5. LineInv'
  BY MachineFacts DEF HostInv, LineInv, LinesOK, PlaceOK, GrantsOK, Lines, Fetches
<1>6. NamedInv'
  BY MachineFacts DEF HostInv, NamedInv, RecordOK, GrantsOK, Fetches
<1> QED BY <1>1, <1>2, <1>3, <1>4, <1>5, <1>6 DEF HostInv

\* A member reports its mirror.
LEMMA ReportsKeeps ==
  ASSUME HostInv, NEW j \in Joiner, Reports(j)
  PROVE  HostInv'
<1>1. RecordOK' /\ EvidenceOK'
  BY MachineFacts DEF HostInv, RecordOK, EvidenceOK, Reports
<1>2. LinesOK'
  BY MachineFacts DEF HostInv, LinesOK, GrantsOK, Lines, Reports
<1>3. PlaceOK'
  BY MachineFacts DEF HostInv, PlaceOK, Places, Reports
<1>4. GrantsOK'
  BY MachineFacts DEF HostInv, GrantsOK, RecordOK, Reports
<1>5. LineInv'
  BY MachineFacts DEF HostInv, LineInv, LinesOK, PlaceOK, GrantsOK, Lines, Reports
<1>6. NamedInv'
  BY MachineFacts DEF HostInv, NamedInv, RecordOK, GrantsOK, Reports
<1> QED BY <1>1, <1>2, <1>3, <1>4, <1>5, <1>6 DEF HostInv

\* Main is published.
LEMMA ConvergesKeeps ==
  ASSUME HostInv, Converges
  PROVE  HostInv'
<1>1. RecordOK' /\ EvidenceOK'
  BY MachineFacts DEF HostInv, RecordOK, EvidenceOK, Converges
<1>2. LinesOK'
  BY MachineFacts DEF HostInv, LinesOK, GrantsOK, Lines, Converges
<1>3. PlaceOK'
  BY MachineFacts DEF HostInv, PlaceOK, Places, Converges
<1>4. GrantsOK'
  BY MachineFacts DEF HostInv, GrantsOK, RecordOK, Converges
<1>5. LineInv'
  BY MachineFacts DEF HostInv, LineInv, LinesOK, PlaceOK, GrantsOK, Lines, Converges
<1>6. NamedInv'
  BY MachineFacts DEF HostInv, NamedInv, RecordOK, GrantsOK, Converges
<1> QED BY <1>1, <1>2, <1>3, <1>4, <1>5, <1>6 DEF HostInv

\* A member takes the lease.
LEMMA TakesGitKeeps ==
  ASSUME HostInv, NEW j \in Joiner, TakesGit(j)
  PROVE  HostInv'
<1>1. RecordOK' /\ EvidenceOK'
  BY MachineFacts DEF HostInv, RecordOK, EvidenceOK, TakesGit, Goes, MayTake, HostFault,
     NothingSpent
<1>2. LinesOK'
  BY MachineFacts DEF HostInv, LinesOK, GrantsOK, Lines, TakesGit, Goes, MayTake, HostFault,
     NothingSpent
<1>3. PlaceOK'
  BY MachineFacts DEF HostInv, PlaceOK, Places, TakesGit, Goes, MayTake, HostFault,
     NothingSpent
<1>4. GrantsOK'
  BY MachineFacts DEF HostInv, GrantsOK, RecordOK, TakesGit, Goes, MayTake, HostFault,
     NothingSpent
<1>5. LineInv'
  BY MachineFacts DEF HostInv, LineInv, LinesOK, PlaceOK, GrantsOK, Lines, TakesGit, Goes,
     MayTake, HostFault, NothingSpent
<1>6. NamedInv'
  BY MachineFacts DEF HostInv, NamedInv, RecordOK, GrantsOK, TakesGit, Goes, MayTake,
     HostFault, NothingSpent
<1> QED BY <1>1, <1>2, <1>3, <1>4, <1>5, <1>6 DEF HostInv

\* A member makes its mirror its canonical.
LEMMA RebuildsKeeps ==
  ASSUME HostInv, NEW j \in Joiner, Rebuilds(j)
  PROVE  HostInv'
<1>1. RecordOK' /\ EvidenceOK'
  BY MachineFacts DEF HostInv, RecordOK, EvidenceOK, Rebuilds, Goes
<1>2. LinesOK'
  BY MachineFacts DEF HostInv, LinesOK, GrantsOK, Lines, Rebuilds, Goes
<1>3. PlaceOK'
  BY MachineFacts DEF HostInv, PlaceOK, Places, Rebuilds, Goes
<1>4. GrantsOK'
  BY MachineFacts DEF HostInv, GrantsOK, RecordOK, Rebuilds, Goes
<1>5. LineInv'
  BY MachineFacts DEF HostInv, LineInv, LinesOK, PlaceOK, GrantsOK, Lines, Rebuilds, Goes
<1>6. NamedInv'
  BY MachineFacts DEF HostInv, NamedInv, RecordOK, GrantsOK, Rebuilds, Goes
<1> QED BY <1>1, <1>2, <1>3, <1>4, <1>5, <1>6 DEF HostInv

\* A member registers what it has rebuilt.
LEMMA ServesKeeps ==
  ASSUME HostInv, NEW j \in Joiner, Serves(j)
  PROVE  HostInv'
<1>1. RecordOK' /\ EvidenceOK'
  BY MachineFacts DEF HostInv, RecordOK, EvidenceOK, Serves, Goes, HostFault, NothingSpent,
     Releases
<1>2. LinesOK'
  BY MachineFacts DEF HostInv, LinesOK, GrantsOK, Lines, Serves, Goes, HostFault,
     NothingSpent, Releases
<1>3. PlaceOK'
  BY MachineFacts DEF HostInv, PlaceOK, Places, Serves, Goes, HostFault, NothingSpent,
     Releases
<1>4. GrantsOK'
  BY MachineFacts DEF HostInv, GrantsOK, RecordOK, NamedInv, Serves, Goes, HostFault,
     NothingSpent, Releases
<1>5. LineInv'
  BY MachineFacts DEF HostInv, LineInv, LinesOK, PlaceOK, GrantsOK, Lines, Serves, Goes,
     HostFault, NothingSpent, Releases
<1>6. NamedInv'
  BY MachineFacts DEF HostInv, NamedInv, RecordOK, GrantsOK, Serves, Goes, HostFault,
     NothingSpent, Releases
<1> QED BY <1>1, <1>2, <1>3, <1>4, <1>5, <1>6 DEF HostInv

\* A member points the session at itself, or fails to.
LEMMA FlipsKeeps ==
  ASSUME HostInv, NEW j \in Joiner, Flips(j)
  PROVE  HostInv'
<1>1. RecordOK' /\ EvidenceOK'
  BY MachineFacts DEF HostInv, RecordOK, EvidenceOK, Flips, Goes, HostFault, NothingSpent,
     Releases, CutOver
<1>2. LinesOK'
  BY MachineFacts DEF HostInv, LinesOK, GrantsOK, Lines, Flips, Goes, HostFault, NothingSpent,
     Releases, CutOver
<1>3. PlaceOK'
  BY MachineFacts DEF HostInv, PlaceOK, Places, Flips, Goes, HostFault, NothingSpent,
     Releases, CutOver
<1>4. GrantsOK'
  BY MachineFacts DEF HostInv, GrantsOK, RecordOK, Flips, Goes, HostFault, NothingSpent,
     Releases, CutOver
<1>5. LineInv'
  BY MachineFacts DEF HostInv, LineInv, LinesOK, PlaceOK, GrantsOK, Lines, Flips, Goes,
     HostFault, NothingSpent, Releases, CutOver
<1>6. NamedInv'
  BY MachineFacts DEF HostInv, NamedInv, RecordOK, GrantsOK, Flips, Goes, HostFault,
     NothingSpent, Releases, CutOver
<1> QED BY <1>1, <1>2, <1>3, <1>4, <1>5, <1>6 DEF HostInv

\* A lease lapses.
LEMMA LapsesKeeps ==
  ASSUME HostInv, Lapses
  PROVE  HostInv'
<1>1. RecordOK' /\ EvidenceOK'
  BY MachineFacts DEF HostInv, RecordOK, EvidenceOK, Lapses, HostFault, NothingSpent
<1>2. LinesOK'
  BY MachineFacts DEF HostInv, LinesOK, GrantsOK, Lines, Lapses, HostFault, NothingSpent
<1>3. PlaceOK'
  BY MachineFacts DEF HostInv, PlaceOK, Places, Lapses, HostFault, NothingSpent
<1>4. GrantsOK'
  BY MachineFacts DEF HostInv, GrantsOK, RecordOK, Lapses, HostFault, NothingSpent
<1>5. LineInv'
  BY MachineFacts DEF HostInv, LineInv, LinesOK, PlaceOK, GrantsOK, Lines, Lapses, HostFault,
     NothingSpent
<1>6. NamedInv'
  BY MachineFacts DEF HostInv, NamedInv, RecordOK, GrantsOK, Lapses, HostFault, NothingSpent
<1> QED BY <1>1, <1>2, <1>3, <1>4, <1>5, <1>6 DEF HostInv

\* What the host copies from the role's address carries history.
LEMMA SeedsKeeps ==
  ASSUME HostInv, NEW h \in Box, Seeds(h), reg # Nowhere,
         UNCHANGED <<record, evidence, made, mirror, blind, reg, held, claimed, promoted,
                     orphan, retaken, known, hostSpent>>
  PROVE  HostInv'
<1>1. RecordOK' /\ EvidenceOK'
  BY MachineFacts DEF HostInv, RecordOK, EvidenceOK, Seeds, AfterSeed, Goes
<1>2. LinesOK'
  BY MachineFacts DEF HostInv, LinesOK, GrantsOK, Lines, Seeds, AfterSeed, Goes
<1>3. PlaceOK'
  BY MachineFacts DEF HostInv, PlaceOK, Places, Seeds, AfterSeed, Goes
<1>4. GrantsOK'
  BY MachineFacts DEF HostInv, GrantsOK, RecordOK, Seeds, AfterSeed, Goes
<1>5. LineInv'
  BY MachineFacts DEF HostInv, LineInv, LinesOK, PlaceOK, GrantsOK, Lines, Seeds, AfterSeed,
     Goes
<1>6. NamedInv'
  BY MachineFacts DEF HostInv, NamedInv, RecordOK, GrantsOK, Seeds, AfterSeed, Goes
<1> QED BY <1>1, <1>2, <1>3, <1>4, <1>5, <1>6 DEF HostInv

\* A look for what to serve: a line is begun only where nothing tells of another.
LEMMA LookKeeps ==
  ASSUME HostInv, NEW h \in Box, Look(h)
  PROVE  HostInv'
<1>1. CASE ~HadHistory /\ h \notin claimed /\ Goes(h, "claim")
           /\ UNCHANGED <<lines, reg, held, claimed, promoted, orphan, retaken>>
  <2>1. RecordOK' /\ EvidenceOK'
    BY <1>1, MachineFacts DEF HostInv, RecordOK, EvidenceOK, Look, Goes
  <2>2. LinesOK'
    BY <1>1, MachineFacts DEF HostInv, LinesOK, GrantsOK, Lines, Look, Goes
  <2>3. PlaceOK'
    BY <1>1, MachineFacts DEF HostInv, PlaceOK, Places, Look, Goes
  <2>4. GrantsOK'
    BY <1>1, MachineFacts DEF HostInv, GrantsOK, RecordOK, Look, Goes
  <2>5. LineInv'
    BY <1>1, MachineFacts DEF HostInv, LineInv, LinesOK, PlaceOK, GrantsOK, Lines, Look, Goes
  <2>6. NamedInv'
    BY <1>1, MachineFacts DEF HostInv, NamedInv, RecordOK, GrantsOK, Look, Goes
  <2> QED BY <2>1, <2>2, <2>3, <2>4, <2>5, <2>6 DEF HostInv
<1>2. CASE /\ ~HadHistory /\ h \in claimed /\ made < MaxMade
           /\ made' = made + 1 /\ canon' = [canon EXCEPT ![h] = made + 1]
           /\ blind' = (IF converged \/ reported # {} THEN blind ELSE blind \cup {made + 1})
           /\ Goes(h, "serve")
           /\ UNCHANGED <<mirror, reg, held, claimed, promoted, orphan, retaken>>
  <2>1. RecordOK' /\ EvidenceOK'
    BY <1>2, MachineFacts DEF HostInv, RecordOK, EvidenceOK, Look, Goes, HadHistory, Reporters
  <2>2. LinesOK'
    BY <1>2, MachineFacts DEF HostInv, LinesOK, GrantsOK, Lines, Look, Goes, HadHistory,
       Reporters
  <2>3. PlaceOK'
    BY <1>2, MachineFacts DEF HostInv, PlaceOK, Places, Look, Goes, HadHistory, Reporters
  <2>4. GrantsOK'
    BY <1>2, MachineFacts DEF HostInv, GrantsOK, RecordOK, Look, Goes, HadHistory, Reporters
  <2>5. LineInv'
    BY <1>2, MachineFacts DEF HostInv, LineInv, LinesOK, PlaceOK, GrantsOK, Lines, Look, Goes,
       HadHistory, Reporters
  <2>6. NamedInv'
    BY <1>2, MachineFacts DEF HostInv, NamedInv, RecordOK, GrantsOK, Look, Goes, HadHistory,
       Reporters
  <2> QED BY <2>1, <2>2, <2>3, <2>4, <2>5, <2>6 DEF HostInv
<1>3. CASE Ends(h) /\ UNCHANGED <<made, mirror, blind>>
  <2>1. /\ lease' \in Machine \cup {Nowhere} /\ hostSpent' \in 0 .. MaxHostFaults
        /\ source' \in {"none", "host", "cutover"}
    BY DEF Look, HostInv, RecordOK, GrantsOK
  <2> QED BY <1>3, <2>1, MachineFacts, EndsKeeps DEF Look
<1>4. CASE Seeds(h) /\ reg # Nowhere
           /\ UNCHANGED <<made, mirror, blind, reg, held, claimed, promoted, orphan, retaken>>
  BY <1>4, SeedsKeeps DEF Look
<1>5. CASE Goes(h, "wait") /\ UNCHANGED <<canon, made, mirror, blind, reg, held, claimed,
                                          promoted, orphan, retaken>>
  <2>1. RecordOK' /\ EvidenceOK'
    BY <1>5, MachineFacts DEF HostInv, RecordOK, EvidenceOK, Look, Goes
  <2>2. LinesOK'
    BY <1>5, MachineFacts DEF HostInv, LinesOK, GrantsOK, Lines, Look, Goes
  <2>3. PlaceOK'
    BY <1>5, MachineFacts DEF HostInv, PlaceOK, Places, Look, Goes
  <2>4. GrantsOK'
    BY <1>5, MachineFacts DEF HostInv, GrantsOK, RecordOK, Look, Goes
  <2>5. LineInv'
    BY <1>5, MachineFacts DEF HostInv, LineInv, LinesOK, PlaceOK, GrantsOK, Lines, Look, Goes
  <2>6. NamedInv'
    BY <1>5, MachineFacts DEF HostInv, NamedInv, RecordOK, GrantsOK, Look, Goes
  <2> QED BY <2>1, <2>2, <2>3, <2>4, <2>5, <2>6 DEF HostInv
<1> QED BY <1>1, <1>2, <1>3, <1>4, <1>5 DEF Look

\* A host that waits for somebody to serve seeds from it, or gives up.
LEMMA WaitKeeps ==
  ASSUME HostInv, NEW h \in Box, Wait(h)
  PROVE  HostInv'
<1>1. CASE Seeds(h) /\ reg # Nowhere
           /\ UNCHANGED <<reg, held, claimed, promoted, orphan, retaken>>
  BY <1>1, SeedsKeeps DEF Wait
<1>2. CASE Ends(h)
  <2>1. /\ lease' \in Machine \cup {Nowhere} /\ hostSpent' \in 0 .. MaxHostFaults
        /\ source' \in {"none", "host", "cutover"}
    BY DEF Wait, HostInv, RecordOK, GrantsOK
  <2> QED BY <1>2, <2>1, MachineFacts, EndsKeeps DEF Wait
<1> QED BY <1>1, <1>2 DEF Wait

\* A host registers what it has, or ends.
LEMMA ServeKeeps ==
  ASSUME HostInv, NEW h \in Box, Serve(h)
  PROVE  HostInv'
<1>1. CASE reg = Nowhere /\ reg' = h /\ Goes(h, "announce") /\ NothingSpent
           /\ UNCHANGED <<canon, held, claimed, promoted, orphan, retaken>>
  <2>1. RecordOK' /\ EvidenceOK'
    BY <1>1, MachineFacts DEF HostInv, RecordOK, EvidenceOK, Serve, Goes, NothingSpent
  <2>2. LinesOK'
    BY <1>1, MachineFacts DEF HostInv, LinesOK, GrantsOK, Lines, Serve, Goes, NothingSpent
  <2>3. PlaceOK'
    BY <1>1, MachineFacts DEF HostInv, PlaceOK, Places, Serve, Goes, NothingSpent
  <2>4. GrantsOK'
    BY <1>1, MachineFacts DEF HostInv, GrantsOK, RecordOK, Serve, Goes, NothingSpent
  <2>5. LineInv'
    BY <1>1, MachineFacts DEF HostInv, LineInv, LinesOK, PlaceOK, GrantsOK, Lines, Serve,
       Goes, NothingSpent
  <2>6. NamedInv'
    BY <1>1, MachineFacts DEF HostInv, NamedInv, RecordOK, GrantsOK, Serve, Goes, NothingSpent
  <2> QED BY <2>1, <2>2, <2>3, <2>4, <2>5, <2>6 DEF HostInv
<1>2. CASE Ends(h) /\ (NothingSpent \/ HostFault("net"))
  <2>1. /\ lease' \in Machine \cup {Nowhere} /\ hostSpent' \in 0 .. MaxHostFaults
        /\ source' \in {"none", "host", "cutover"}
    BY <1>2, MachineFacts DEF Serve, HostInv, RecordOK, GrantsOK, NothingSpent, HostFault
  <2> QED BY <1>2, <2>1, MachineFacts, EndsKeeps DEF Serve
<1> QED BY <1>1, <1>2 DEF Serve

\* A host announces itself, unless the session has moved.
LEMMA AnnounceKeeps ==
  ASSUME HostInv, NEW h \in Box, Announce(h)
  PROVE  HostInv'
<1>1. CASE known[h] < gen
  <2>1. /\ lease' \in Machine \cup {Nowhere} /\ hostSpent' \in 0 .. MaxHostFaults
        /\ source' \in {"none", "host", "cutover"}
    BY <1>1 DEF Announce, HostInv, RecordOK, GrantsOK
  <2> QED BY <1>1, <2>1, MachineFacts, EndsKeeps DEF Announce
<1>2. CASE ~(known[h] < gen)
  <2>1. RecordOK' /\ EvidenceOK'
    BY <1>2, MachineFacts DEF HostInv, RecordOK, EvidenceOK, Announce, Goes
  <2>2. LinesOK'
    BY <1>2, MachineFacts DEF HostInv, LinesOK, GrantsOK, Lines, Announce, Goes
  <2>3. PlaceOK'
    BY <1>2, MachineFacts DEF HostInv, PlaceOK, Places, Announce, Goes
  <2>4. GrantsOK'
    BY <1>2, MachineFacts DEF HostInv, GrantsOK, RecordOK, Announce, Goes
  <2>5. LineInv'
    BY <1>2, MachineFacts DEF HostInv, LineInv, LinesOK, PlaceOK, GrantsOK, Lines, Announce,
       Goes
  <2>6. NamedInv'
    BY <1>2, MachineFacts DEF HostInv, NamedInv, RecordOK, GrantsOK, Announce, Goes
  <2> QED BY <2>1, <2>2, <2>3, <2>4, <2>5, <2>6 DEF HostInv
<1> QED BY <1>1, <1>2

\* A host that is refused ends, or finds itself the host of a later generation.
LEMMA RefusedKeeps ==
  ASSUME HostInv, NEW h \in Box, Refused(h)
  PROVE  HostInv'
<1>1. CASE /\ OntoSelf(h) /\ known' = [known EXCEPT ![h] = gen] /\ NothingSpent
           /\ UNCHANGED <<lease, reg, canon, at, held, claimed, promoted, orphan, retaken>>
  <2>1. RecordOK' /\ EvidenceOK'
    BY <1>1, MachineFacts DEF HostInv, RecordOK, EvidenceOK, Refused, OntoSelf, NothingSpent
  <2>2. LinesOK'
    BY <1>1, MachineFacts DEF HostInv, LinesOK, GrantsOK, Lines, Refused, OntoSelf,
       NothingSpent
  <2>3. PlaceOK'
    BY <1>1, MachineFacts DEF HostInv, PlaceOK, Places, Refused, OntoSelf, NothingSpent
  <2>4. GrantsOK'
    BY <1>1, MachineFacts DEF HostInv, GrantsOK, RecordOK, Refused, OntoSelf, NothingSpent
  <2>5. LineInv'
    BY <1>1, MachineFacts DEF HostInv, LineInv, LinesOK, PlaceOK, GrantsOK, Lines, Refused,
       OntoSelf, NothingSpent
  <2>6. NamedInv'
    BY <1>1, MachineFacts DEF HostInv, NamedInv, RecordOK, GrantsOK, Refused, OntoSelf,
       NothingSpent
  <2> QED BY <2>1, <2>2, <2>3, <2>4, <2>5, <2>6 DEF HostInv
<1>2. CASE /\ IF OntoSelf(h) THEN HostFault("lag") ELSE NothingSpent
           /\ Ends(h) /\ (IF h \in held THEN Releases(h) ELSE UNCHANGED lease)
           /\ UNCHANGED known
  <2>1. /\ lease' \in Machine \cup {Nowhere} /\ hostSpent' \in 0 .. MaxHostFaults
        /\ source' \in {"none", "host", "cutover"}
    BY <1>2, MachineFacts
    DEF Refused, HostInv, RecordOK, GrantsOK, NothingSpent, HostFault, Releases
  <2> QED BY <1>2, <2>1, MachineFacts, EndsKeeps DEF Refused
<1> QED BY <1>1, <1>2 DEF Refused

\* A process dies.
LEMMA DiesKeeps ==
  ASSUME HostInv, NEW x \in Machine, Dies(x)
  PROVE  HostInv'
<1>1. /\ lease' \in Machine \cup {Nowhere} /\ hostSpent' \in 0 .. MaxHostFaults
      /\ source' \in {"none", "host", "cutover"}
  BY MachineFacts DEF Dies, HostInv, RecordOK, GrantsOK, HostFault
<1> QED BY <1>1, EndsKeeps DEF Dies

\* Every step of hosting keeps the invariant.
LEMMA HostStep == HostInv /\ [HostNext]_hostVars => HostInv'
<1> SUFFICES ASSUME HostInv, [HostNext]_hostVars PROVE HostInv'
  OBVIOUS
<1>1. ASSUME NEW h \in Box, Boot(h) \/ StandsUp(h) \/ Hosts(h) \/ OperatorFlips(h)
      PROVE  HostInv'
  BY <1>1, MachineFacts, BootKeeps, LookKeeps, WaitKeeps, ClaimKeeps, ServeKeeps,
     AnnounceKeeps,
     AdoptLeaseKeeps, RefusedKeeps, StandDownKeeps, RetakeKeeps, RepublishKeeps,
     OperatorFlipsKeeps
  DEF StandsUp, Hosts
<1>2. ASSUME NEW j \in Joiner, Joins(j) \/ Fetches(j) \/ Reports(j) \/ Promotes(j)
      PROVE  HostInv'
  BY <1>2, MachineFacts, JoinsKeeps, FetchesKeeps, ReportsKeeps, StandDownKeeps,
     TakesGitKeeps,
     RebuildsKeeps, ServesKeeps, FlipsKeeps
  DEF Promotes
<1>3. CASE UNCHANGED hostVars
  BY <1>3 DEF hostVars, HostInv, RecordOK, EvidenceOK, LinesOK, PlaceOK, GrantsOK, LineInv,
     NamedInv
<1> QED BY <1>1, <1>2, <1>3, ConvergesKeeps, LapsesKeeps, DiesKeeps DEF HostNext

\* Where the two properties of hosting come from.
LEMMA HostPromises == HostInv => OneHistory /\ OneHost
BY MachineFacts
DEF HostInv, OneHistory, OneHost, LineInv, LinesOK, GrantsOK, NamedInv, Lines

-----------------------------------------------------------------------------
(* The conductor's fleet.                                                   *)

USE DEF mains, others, ticker, setup, watch

\* main, as the members see it, and what the others push.
MainOK ==
  /\ scene \in {"scaffold", "errors"} /\ hub \in Main /\ replica \in Main
  /\ afar \in BOOLEAN /\ ahead \in BOOLEAN /\ pushes \in 0 .. MaxAhead
  /\ scaffolds \in 0 .. 2 /\ fleetSpent \in 0 .. MaxFleetFaults

\* A fleet ticks while its roles run, and the harness of the error-watcher works for
\* one that has not returned.
TickOK ==
  /\ conducts \in {0} \cup Fleets /\ built \in 0 .. MaxFleets
  /\ ticking \in {0} \cup Fleets /\ roles \subseteq {"merger", "error-watcher"}
  /\ due \in BOOLEAN
  /\ roles # {} => ticking # 0
  /\ fixing # "none" => "error-watcher" \in roles

\* The slot of a fleet is taken exactly while its setup is somewhere, and what it is
\* about to push of a scaffold is whole.
SetupOK ==
  /\ slot \in [Fleets -> BOOLEAN] /\ job \in [Fleets -> Job]
  /\ \A f \in Fleets : slot[f] = (job[f].at # "none")
  /\ \A f \in Fleets : job[f].at = "push" /\ job[f].mode = "scaffold" => job[f].whole

\* What the watcher has seen of stderr, and has still to act on.
StderrOK ==
  /\ logs \in Seq(Kind) /\ Len(logs) <= MaxLogged /\ seen \in 0 .. MaxLogged
  /\ pending \in Seq(Kind)
  /\ fixing = "logs" => pending # <<>>
  /\ fixing \in {"none", "logs", "health"}
  /\ fixed \subseteq Kind /\ tried \subseteq Kind /\ shadowed \subseteq Kind

\* The rest of the watcher.
HealthOK ==
  /\ endpoints \in BOOLEAN /\ watcher \in {0} \cup Fleets
  /\ watches \in [Fleets -> SUBSET {"logs", "health"}]
  /\ ripe \in BOOLEAN /\ cooling \in BOOLEAN
  /\ unhealthy \in 0 .. HealthStreak /\ healthFixed \in BOOLEAN
  /\ movedFix \in BOOLEAN /\ ailing \in BOOLEAN

FleetInv ==
  /\ MainOK /\ TickOK /\ SetupOK /\ StderrOK /\ HealthOK
  /\ ScaffoldKeepsProtocol

\* The parts make the type invariant of Fleet.
LEMMA FleetInvTypes == FleetInv => FleetTypeOK
<1> SUFFICES ASSUME FleetInv PROVE FleetTypeOK
  OBVIOUS
<1> QED BY Zenon DEF FleetInv, FleetTypeOK, MainOK, TickOK, SetupOK, StderrOK, HealthOK

\* What every proof below knows of the bounds.
LEMMA FleetBounds ==
  /\ HealthStreak \in Nat \ {0} /\ MaxFleets \in Nat /\ MaxLogged \in Nat
  /\ MaxAhead \in Nat /\ MaxFleetFaults \in Nat
BY FleetAssumption

\* A setup that does not run is typed too.
LEMMA NoJobIsJob == NoJob \in Job
BY DEF NoJob, Job

\* A member that has not been elected yet has the invariant.
LEMMA FleetStart == FleetInit => FleetInv
<1> SUFFICES ASSUME FleetInit PROVE FleetInv
  OBVIOUS
<1>1. MainOK
  <2>1. hub \in Main
    BY DEF FleetInit, Main
  <2>2. pushes \in 0 .. MaxAhead /\ fleetSpent \in 0 .. MaxFleetFaults
    BY FleetBounds DEF FleetInit
  <2>3. scene \in {"scaffold", "errors"} /\ scaffolds \in 0 .. 2
    BY DEF FleetInit
  <2>4. afar \in BOOLEAN /\ ahead \in BOOLEAN /\ replica = hub
    BY Zenon DEF FleetInit
  <2> QED BY <2>1, <2>2, <2>3, <2>4, Zenon DEF MainOK
<1>2. TickOK
  BY FleetBounds DEF FleetInit, TickOK
<1>3. SetupOK
  <2>1. slot \in [Fleets -> BOOLEAN] /\ job \in [Fleets -> Job]
    BY NoJobIsJob DEF FleetInit
  <2>2. \A f \in Fleets : slot[f] = FALSE /\ job[f].at = "none"
    BY DEF FleetInit, NoJob
  <2> QED BY <2>1, <2>2, Zenon DEF SetupOK
<1>4. StderrOK
  BY FleetBounds DEF FleetInit, StderrOK
<1>5. HealthOK
  <2>1. unhealthy \in 0 .. HealthStreak /\ watcher \in {0} \cup Fleets
    BY FleetBounds DEF FleetInit
  <2>2. watches \in [Fleets -> SUBSET {"logs", "health"}]
    BY DEF FleetInit
  <2> QED BY <2>1, <2>2, Zenon DEF FleetInit, HealthOK
<1>6. ScaffoldKeepsProtocol
  BY DEF FleetInit, ScaffoldKeepsProtocol
<1> QED BY <1>1, <1>2, <1>3, <1>4, <1>5, <1>6 DEF FleetInv

\* Main that moves is main, and a job that is overtaken is where it was.
LEMMA OvertakenFacts ==
  ASSUME job \in [Fleets -> Job]
  PROVE  /\ Overtaken \in [Fleets -> Job]
         /\ \A f \in Fleets : /\ Overtaken[f].at = job[f].at
                              /\ Overtaken[f].mode = job[f].mode
                              /\ Overtaken[f].whole = job[f].whole
<1> SUFFICES ASSUME NEW f \in Fleets
             PROVE  LET o == [job[f] EXCEPT !.moved = @ \/ Cloned(f)]
                    IN  o \in Job /\ o.at = job[f].at /\ o.mode = job[f].mode
                        /\ o.whole = job[f].whole
  BY DEF Overtaken
<1>1. job[f] \in Job
  OBVIOUS
<1>2. (job[f].moved \/ Cloned(f)) \in BOOLEAN
  OBVIOUS
<1> QED BY <1>1, <1>2 DEF Job

\* What a move of main, and none, leaves typed.
LEMMA MainMovesFacts ==
  ASSUME FleetInv, NEW new \in Main, MainMoves(new)
  PROVE  /\ hub' = new /\ replica' \in Main /\ movedFix' \in BOOLEAN
         /\ scene' = scene /\ afar' = afar
BY DEF FleetInv, MainOK, MainMoves

\* A fault stays within the budget.
LEMMA FaultFacts ==
  ASSUME FleetInv, NEW kind, FleetFault(kind)
  PROVE  fleetSpent' \in 0 .. MaxFleetFaults
BY FleetBounds DEF FleetInv, MainOK, FleetFault

\* Another member pushes.
LEMMA PushKeeps ==
  ASSUME FleetInv, Push
  PROVE  FleetInv'
<1>1. MainOK'
  BY FleetBounds DEF FleetInv, MainOK, Push
<1>2. TickOK'
  BY FleetBounds DEF FleetInv, TickOK, Push
<1>3. SetupOK'
  BY FleetBounds DEF FleetInv, SetupOK, Push
<1>4. StderrOK'
  BY FleetBounds DEF FleetInv, StderrOK, Push
<1>5. HealthOK'
  BY FleetBounds DEF FleetInv, HealthOK, Push
<1>6. ScaffoldKeepsProtocol'
  BY FleetBounds DEF FleetInv, ScaffoldKeepsProtocol, Push
<1> QED BY <1>1, <1>2, <1>3, <1>4, <1>5, <1>6 DEF FleetInv

\* A line on stderr.
LEMMA LogKeeps ==
  ASSUME FleetInv, NEW k \in Kind, Log(k)
  PROVE  FleetInv'
<1>1. MainOK'
  BY FleetBounds DEF FleetInv, MainOK, Log
<1>2. TickOK'
  BY FleetBounds DEF FleetInv, TickOK, Log
<1>3. SetupOK'
  BY FleetBounds DEF FleetInv, SetupOK, Log
<1>4. StderrOK'
  BY FleetBounds DEF FleetInv, StderrOK, Log
<1>5. HealthOK'
  BY FleetBounds DEF FleetInv, HealthOK, Log
<1>6. ScaffoldKeepsProtocol'
  BY FleetBounds DEF FleetInv, ScaffoldKeepsProtocol, Log
<1> QED BY <1>1, <1>2, <1>3, <1>4, <1>5, <1>6 DEF FleetInv

\* dev is published.
LEMMA PublishEndpointsKeeps ==
  ASSUME FleetInv, PublishEndpoints
  PROVE  FleetInv'
<1>1. MainOK'
  BY FleetBounds DEF FleetInv, MainOK, PublishEndpoints
<1>2. TickOK'
  BY FleetBounds DEF FleetInv, TickOK, PublishEndpoints
<1>3. SetupOK'
  BY FleetBounds DEF FleetInv, SetupOK, PublishEndpoints
<1>4. StderrOK'
  BY FleetBounds DEF FleetInv, StderrOK, PublishEndpoints
<1>5. HealthOK'
  BY FleetBounds DEF FleetInv, HealthOK, PublishEndpoints
<1>6. ScaffoldKeepsProtocol'
  BY FleetBounds DEF FleetInv, ScaffoldKeepsProtocol, PublishEndpoints
<1> QED BY <1>1, <1>2, <1>3, <1>4, <1>5, <1>6 DEF FleetInv

\* The dev server stops answering, or answers again.
LEMMA AilKeeps ==
  ASSUME FleetInv, Ail \/ Recover
  PROVE  FleetInv'
<1>1. MainOK'
  BY FleetBounds DEF FleetInv, MainOK, Ail, Recover, FleetFault
<1>2. TickOK'
  BY FleetBounds DEF FleetInv, TickOK, Ail, Recover, FleetFault
<1>3. SetupOK'
  BY FleetBounds DEF FleetInv, SetupOK, Ail, Recover, FleetFault
<1>4. StderrOK'
  BY FleetBounds DEF FleetInv, StderrOK, Ail, Recover, FleetFault
<1>5. HealthOK'
  BY FleetBounds DEF FleetInv, HealthOK, Ail, Recover, FleetFault
<1>6. ScaffoldKeepsProtocol'
  BY FleetBounds DEF FleetInv, ScaffoldKeepsProtocol, Ail, Recover, FleetFault
<1> QED BY <1>1, <1>2, <1>3, <1>4, <1>5, <1>6 DEF FleetInv

\* A member that is elected builds a fleet.
LEMMA ElectKeeps ==
  ASSUME FleetInv, Elect
  PROVE  FleetInv'
<1>1. MainOK'
  BY FleetBounds DEF FleetInv, MainOK, Elect, Fleets, Watchable
<1>2. TickOK'
  BY FleetBounds DEF FleetInv, TickOK, Elect, Fleets, Watchable
<1>3. SetupOK'
  BY FleetBounds DEF FleetInv, SetupOK, Elect, Fleets, Watchable
<1>4. StderrOK'
  BY FleetBounds DEF FleetInv, StderrOK, Elect, Fleets, Watchable
<1>5. HealthOK'
  BY FleetBounds DEF FleetInv, HealthOK, Elect, Fleets, Watchable
<1>6. ScaffoldKeepsProtocol'
  BY FleetBounds DEF FleetInv, ScaffoldKeepsProtocol, Elect, Fleets, Watchable
<1> QED BY <1>1, <1>2, <1>3, <1>4, <1>5, <1>6 DEF FleetInv

\* The lease goes, or the floor passes.
LEMMA LetGoKeeps ==
  ASSUME FleetInv, LetGoOfTheFleet \/ FloorPasses
  PROVE  FleetInv'
<1>1. MainOK'
  BY FleetBounds DEF FleetInv, MainOK, LetGoOfTheFleet, FloorPasses
<1>2. TickOK'
  BY FleetBounds DEF FleetInv, TickOK, LetGoOfTheFleet, FloorPasses
<1>3. SetupOK'
  BY FleetBounds DEF FleetInv, SetupOK, LetGoOfTheFleet, FloorPasses
<1>4. StderrOK'
  BY FleetBounds DEF FleetInv, StderrOK, LetGoOfTheFleet, FloorPasses
<1>5. HealthOK'
  BY FleetBounds DEF FleetInv, HealthOK, LetGoOfTheFleet, FloorPasses
<1>6. ScaffoldKeepsProtocol'
  BY FleetBounds DEF FleetInv, ScaffoldKeepsProtocol, LetGoOfTheFleet, FloorPasses
<1> QED BY <1>1, <1>2, <1>3, <1>4, <1>5, <1>6 DEF FleetInv

\* A tick ends when its roles have returned.
LEMMA EndTickKeeps ==
  ASSUME FleetInv, EndTick
  PROVE  FleetInv'
<1>1. MainOK'
  BY FleetBounds DEF FleetInv, MainOK, EndTick, Waits
<1>2. TickOK'
  BY FleetBounds DEF FleetInv, TickOK, EndTick, Waits
<1>3. SetupOK'
  BY FleetBounds DEF FleetInv, SetupOK, EndTick, Waits
<1>4. StderrOK'
  BY FleetBounds DEF FleetInv, StderrOK, EndTick, Waits
<1>5. HealthOK'
  BY FleetBounds DEF FleetInv, HealthOK, EndTick, Waits
<1>6. ScaffoldKeepsProtocol'
  BY FleetBounds DEF FleetInv, ScaffoldKeepsProtocol, EndTick, Waits
<1> QED BY <1>1, <1>2, <1>3, <1>4, <1>5, <1>6 DEF FleetInv

\* A burst settles, or the cooldown is over.
LEMMA RipenKeeps ==
  ASSUME FleetInv, Ripen \/ CoolOff
  PROVE  FleetInv'
<1>1. MainOK'
  BY FleetBounds DEF FleetInv, MainOK, Ripen, CoolOff
<1>2. TickOK'
  BY FleetBounds DEF FleetInv, TickOK, Ripen, CoolOff
<1>3. SetupOK'
  BY FleetBounds DEF FleetInv, SetupOK, Ripen, CoolOff
<1>4. StderrOK'
  BY FleetBounds DEF FleetInv, StderrOK, Ripen, CoolOff
<1>5. HealthOK'
  BY FleetBounds DEF FleetInv, HealthOK, Ripen, CoolOff
<1>6. ScaffoldKeepsProtocol'
  BY FleetBounds DEF FleetInv, ScaffoldKeepsProtocol, Ripen, CoolOff
<1> QED BY <1>1, <1>2, <1>3, <1>4, <1>5, <1>6 DEF FleetInv

\* A setup that returns gives its slot back.
LEMMA SetupReturnsFacts ==
  ASSUME FleetInv, NEW f \in Fleets, NEW landed, SetupReturns(f, landed)
  PROVE  SetupOK'
<1>1. slot' = [slot EXCEPT ![f] = FALSE] /\ job' = [job EXCEPT ![f] = NoJob]
  BY DEF SetupReturns, Released
<1>2. slot' \in [Fleets -> BOOLEAN] /\ job' \in [Fleets -> Job]
  BY <1>1, NoJobIsJob DEF FleetInv, SetupOK
<1>3. ASSUME NEW g \in Fleets
      PROVE  /\ slot'[g] = (job'[g].at # "none")
             /\ job'[g].at = "push" /\ job'[g].mode = "scaffold" => job'[g].whole
  <2>1. CASE g = f
    <3>1. slot'[g] = FALSE /\ job'[g].at = "none"
      BY <1>1, <2>1 DEF FleetInv, SetupOK, NoJob
    <3> QED BY <3>1
  <2>2. CASE g # f
    <3>1. slot'[g] = slot[g] /\ job'[g] = job[g]
      BY <1>1, <2>2 DEF FleetInv, SetupOK
    <3> QED BY <3>1 DEF FleetInv, SetupOK
  <2> QED BY <2>1, <2>2
<1> QED BY <1>2, <1>3 DEF SetupOK

\* A setup that goes on keeps its slot, and pushes as a scaffold only what is whole.
LEMMA SetupIsFacts ==
  ASSUME FleetInv, NEW f \in Fleets, NEW to \in {"agent", "merge", "push"},
         NEW kept \in BOOLEAN, job[f].at # "none", SetupIs(f, to, kept),
         to = "push" /\ job[f].mode = "scaffold" => kept
  PROVE  SetupOK'
<1>1. slot' = slot /\ job' = [job EXCEPT ![f] = [[@ EXCEPT !.at = to] EXCEPT !.whole = kept]]
  BY DEF SetupIs, FleetInv, SetupOK
<1>2. job[f] \in Job
  BY DEF FleetInv, SetupOK
<1>3. /\ job'[f] \in Job /\ job'[f].at = to /\ job'[f].whole = kept
      /\ job'[f].mode = job[f].mode
  BY <1>1, <1>2 DEF FleetInv, SetupOK, Job
<1>4. \A g \in Fleets : g # f => job'[g] = job[g]
  BY <1>1 DEF FleetInv, SetupOK
<1>5. job' \in [Fleets -> Job]
  BY <1>1, <1>3, <1>4 DEF FleetInv, SetupOK
<1>6. ASSUME NEW g \in Fleets
      PROVE  /\ slot'[g] = (job'[g].at # "none")
             /\ job'[g].at = "push" /\ job'[g].mode = "scaffold" => job'[g].whole
  <2>1. CASE g = f
    <3>1. slot[f] = TRUE
      BY DEF FleetInv, SetupOK
    <3>2. job'[f].at # "none"
      BY <1>3
    <3> QED BY <1>1, <1>3, <2>1, <3>1, <3>2
  <2>2. CASE g # f
    BY <1>1, <1>4, <2>2 DEF FleetInv, SetupOK
  <2> QED BY <2>1, <2>2
<1> QED BY <1>1, <1>5, <1>6 DEF FleetInv, SetupOK

\* Jobs that are overtaken are where they were.
LEMMA OvertakenKeeps ==
  ASSUME FleetInv, job' = Overtaken, slot' = slot
  PROVE  SetupOK'
BY OvertakenFacts DEF FleetInv, SetupOK

\* The hand-over pushes what is whole and nothing else.
LEMMA HandsOverFacts ==
  ASSUME FleetInv, NEW f \in Fleets, NEW kept \in BOOLEAN, job[f].at # "none",
         HandsOver(f, kept)
  PROVE  SetupOK'
BY SetupReturnsFacts, SetupIsFacts DEF HandsOver, Verified

\* A step of a setup that only changes what it works in and the budget of faults.
LEMMA SetupAloneKeeps ==
  ASSUME FleetInv, SetupOK', fleetSpent' \in 0 .. MaxFleetFaults,
         UNCHANGED <<mains, others, ticker, scaffolds, watch>>
  PROVE  FleetInv'
<1>1. MainOK'
  BY DEF FleetInv, MainOK
<1>2. TickOK' /\ StderrOK' /\ HealthOK' /\ ScaffoldKeepsProtocol'
  BY DEF FleetInv, TickOK, StderrOK, HealthOK, ScaffoldKeepsProtocol
<1> QED BY <1>1, <1>2 DEF FleetInv

\* A setup clones the hub, or cannot.
LEMMA SetupClonesKeeps ==
  ASSUME FleetInv, NEW f \in Fleets, SetupClones(f)
  PROVE  FleetInv'
<1>1. hub.protocol \in BOOLEAN /\ job[f].at # "none"
  BY DEF FleetInv, MainOK, Main, SetupClones
<1>2. SetupOK'
  <2>1. CASE SetupIs(f, "agent", hub.protocol)
    BY <1>1, <2>1, SetupIsFacts
  <2>2. CASE SetupReturns(f, FALSE)
    BY <2>2, SetupReturnsFacts
  <2> QED BY <2>1, <2>2 DEF SetupClones
<1>3. fleetSpent' \in 0 .. MaxFleetFaults
  BY FaultFacts DEF SetupClones, FleetInv, MainOK
<1> QED BY <1>2, <1>3, SetupAloneKeeps DEF SetupClones

\* A turn of the agent ends.
LEMMA AgentTurnKeeps ==
  ASSUME FleetInv, NEW f \in Fleets, AgentTurn(f)
  PROVE  FleetInv'
<1>1. job[f].whole \in BOOLEAN /\ job[f].at # "none"
  BY DEF FleetInv, SetupOK, Job, AgentTurn
<1>2. SetupOK'
  <2>1. CASE SetupReturns(f, FALSE)
    BY <2>1, SetupReturnsFacts
  <2>2. CASE job[f].mode = "adapt"
             /\ (SetupIs(f, "push", job[f].whole) \/ SetupIs(f, "push", FALSE))
    BY <1>1, <2>2, SetupIsFacts
  <2>3. CASE SetupIs(f, "merge", job[f].whole)
    BY <1>1, <2>3, SetupIsFacts
  <2>4. CASE HandsOver(f, job[f].whole)
    BY <1>1, <2>4, HandsOverFacts
  <2> QED BY <2>1, <2>2, <2>3, <2>4 DEF AgentTurn
<1>3. fleetSpent' \in 0 .. MaxFleetFaults
  BY FaultFacts DEF AgentTurn, FleetInv, MainOK
<1> QED BY <1>2, <1>3, SetupAloneKeeps DEF AgentTurn

\* The second turn of a scaffold ends.
LEMMA MergeTurnKeeps ==
  ASSUME FleetInv, NEW f \in Fleets, MergeTurn(f)
  PROVE  FleetInv'
<1>1. job[f].whole \in BOOLEAN /\ job[f].at # "none"
  BY DEF FleetInv, SetupOK, Job, MergeTurn
<1>2. SetupOK'
  BY <1>1, SetupReturnsFacts, HandsOverFacts DEF MergeTurn
<1>3. fleetSpent' \in 0 .. MaxFleetFaults
  BY FaultFacts DEF MergeTurn, FleetInv, MainOK
<1> QED BY <1>2, <1>3, SetupAloneKeeps DEF MergeTurn

\* A scaffold is committed as it was handed over, or main has moved.
LEMMA SetupPushesKeeps ==
  ASSUME FleetInv, NEW f \in Fleets, SetupPushes(f)
  PROVE  FleetInv'
<1> DEFINE landed == [hub EXCEPT !.project = TRUE, !.marker = job[f].mode,
                                 !.protocol = job[f].whole]
<1>1. CASE /\ MainMoves(landed)
           /\ job' = [Overtaken EXCEPT ![f] = NoJob] /\ slot' = Released(f, TRUE)
           /\ scaffolds' = Min({scaffolds + 1, 2}) /\ UNCHANGED fleetSpent
  <2>1. landed \in Main /\ landed.marker = job[f].mode /\ landed.protocol = job[f].whole
    <3>1. job[f].mode \in {"scaffold", "adapt"} /\ job[f].whole \in BOOLEAN /\ hub \in Main
      BY DEF FleetInv, SetupOK, MainOK, Job
    <3> QED BY <3>1 DEF Main
  <2>2. hub' = landed /\ replica' \in Main /\ movedFix' \in BOOLEAN /\ UNCHANGED <<scene, afar>>
    BY <1>1, <2>1, MainMovesFacts
  <2>3. scaffolds' \in 0 .. 2
    <3>1. \A n \in {0, 1, 2} : Min({n + 1, 2}) \in {n + 1, 2}
      BY DEF Min
    <3>2. scaffolds \in {0, 1, 2}
      BY DEF FleetInv, MainOK
    <3>3. Min({scaffolds + 1, 2}) <= 2
      BY <3>2 DEF Min
    <3> QED BY <1>1, <3>1, <3>2, <3>3
  <2>4. MainOK'
    BY <1>1, <2>1, <2>2, <2>3 DEF SetupPushes, FleetInv, MainOK
  <2>5. SetupOK'
    <3>1. job' \in [Fleets -> Job] /\ slot' \in [Fleets -> BOOLEAN]
      BY <1>1, NoJobIsJob, OvertakenFacts DEF FleetInv, SetupOK, Released
    <3>2. job'[f] = NoJob /\ slot'[f] = FALSE
      BY <1>1, OvertakenFacts DEF FleetInv, SetupOK, Released
    <3>3. ASSUME NEW g \in Fleets, g # f
          PROVE  /\ slot'[g] = slot[g] /\ job'[g].at = job[g].at
                 /\ job'[g].mode = job[g].mode /\ job'[g].whole = job[g].whole
      BY <1>1, <3>3, OvertakenFacts DEF FleetInv, SetupOK, Released
    <3>4. NoJob.at = "none"
      BY DEF NoJob
    <3>5. ASSUME NEW g \in Fleets
          PROVE  /\ slot'[g] = (job'[g].at # "none")
                 /\ job'[g].at = "push" /\ job'[g].mode = "scaffold" => job'[g].whole
      <4>1. CASE g = f
        BY <3>2, <3>4, <4>1
      <4>2. CASE g # f
        BY <3>3, <4>2 DEF FleetInv, SetupOK
      <4> QED BY <4>1, <4>2
    <3> QED BY <3>1, <3>5 DEF SetupOK
  <2>6. TickOK' /\ StderrOK'
    BY DEF SetupPushes, FleetInv, TickOK, StderrOK
  <2>7. HealthOK'
    BY <2>2 DEF SetupPushes, FleetInv, HealthOK
  <2>8. ScaffoldKeepsProtocol'
    BY <2>1, <2>2 DEF SetupPushes, FleetInv, SetupOK, ScaffoldKeepsProtocol
  <2> QED BY <2>4, <2>5, <2>6, <2>7, <2>8 DEF FleetInv
<1>2. CASE /\ IF job[f].moved THEN UNCHANGED fleetSpent ELSE FleetFault("git")
           /\ SetupReturns(f, FALSE) /\ MainStays /\ UNCHANGED scaffolds
  <2>1. fleetSpent' \in 0 .. MaxFleetFaults
    BY <1>2, FaultFacts DEF FleetInv, MainOK
  <2> QED BY <1>2, <2>1, SetupReturnsFacts, SetupAloneKeeps DEF SetupPushes, MainStays
<1> QED BY <1>1, <1>2 DEF SetupPushes

\* The brief is written.
LEMMA WriteBriefKeeps ==
  ASSUME FleetInv, WriteBrief
  PROVE  FleetInv'
<1> DEFINE told == [hub EXCEPT !.brief = TRUE]
<1>1. told \in Main /\ told.marker = hub.marker /\ told.protocol = hub.protocol
  BY DEF FleetInv, MainOK, Main
<1>2. hub' = told /\ replica' \in Main /\ movedFix' \in BOOLEAN /\ UNCHANGED <<scene, afar>>
  BY <1>1, MainMovesFacts DEF WriteBrief
<1>3. MainOK'
  BY <1>1, <1>2 DEF WriteBrief, FleetInv, MainOK
<1>4. SetupOK'
  BY OvertakenKeeps DEF WriteBrief
<1>5. TickOK' /\ StderrOK'
  BY DEF WriteBrief, FleetInv, TickOK, StderrOK
<1>6. HealthOK'
  BY <1>2 DEF WriteBrief, FleetInv, HealthOK
<1>7. ScaffoldKeepsProtocol'
  BY <1>1, <1>2 DEF FleetInv, ScaffoldKeepsProtocol
<1> QED BY <1>3, <1>4, <1>5, <1>6, <1>7 DEF FleetInv

\* A tick begins: its roles run, and a new fleet's watcher has seen nothing.
LEMMA BeginTickKeeps ==
  ASSUME FleetInv, BeginTick
  PROVE  FleetInv'
<1>1. conducts \in Fleets /\ 0 \notin Fleets /\ roles = {} /\ fixing = "none"
  BY FleetBounds DEF BeginTick, FleetInv, TickOK, Fleets
<1>2. MainOK'
  BY DEF BeginTick, FleetInv, MainOK
<1>3. TickOK'
  <2>1. due' \in BOOLEAN
    BY DEF BeginTick, FleetInv, TickOK
  <2> QED BY <1>1, <2>1 DEF BeginTick, FleetInv, TickOK
<1>4. SetupOK'
  <2>1. CASE UNCHANGED <<slot, job>>
    BY <2>1 DEF FleetInv, SetupOK
  <2>2. CASE /\ slot' = [slot EXCEPT ![conducts] = TRUE]
             /\ job' = [job EXCEPT ![conducts] =
                         [NoJob EXCEPT !.at = "clone",
                            !.mode = IF replica'.project THEN "adapt" ELSE "scaffold"]]
    <3> DEFINE begun == [NoJob EXCEPT !.at = "clone",
                            !.mode = IF replica'.project THEN "adapt" ELSE "scaffold"]
    <3>1. begun \in Job /\ begun.at = "clone"
      BY DEF Job, NoJob
    <3> HIDE DEF begun
    <3>2. job' = [job EXCEPT ![conducts] = begun]
      BY <2>2 DEF begun
    <3>3. job' \in [Fleets -> Job] /\ slot' \in [Fleets -> BOOLEAN]
      BY <2>2, <3>1, <3>2 DEF FleetInv, SetupOK
    <3>4. job'[conducts] = begun /\ slot'[conducts] = TRUE
      BY <1>1, <2>2, <3>2 DEF FleetInv, SetupOK
    <3>5. \A g \in Fleets : g # conducts => job'[g] = job[g] /\ slot'[g] = slot[g]
      BY <2>2, <3>2 DEF FleetInv, SetupOK
    <3>6. ASSUME NEW g \in Fleets
          PROVE  /\ slot'[g] = (job'[g].at # "none")
                 /\ job'[g].at = "push" /\ job'[g].mode = "scaffold" => job'[g].whole
      <4>1. CASE g = conducts
        BY <3>1, <3>4, <4>1
      <4>2. CASE g # conducts
        BY <3>5, <4>2 DEF FleetInv, SetupOK
      <4> QED BY <4>1, <4>2
    <3> QED BY <3>3, <3>6 DEF SetupOK
  <2> QED BY <2>1, <2>2 DEF BeginTick
<1>5. StderrOK'
  <2>1. CASE UNCHANGED <<seen, pending, fixed>>
    BY <1>1, <2>1 DEF BeginTick, FleetInv, StderrOK
  <2>2. CASE seen' = 0 /\ pending' = <<>> /\ fixed' = {}
    <3>1. seen' \in 0 .. MaxLogged /\ pending' \in Seq(Kind)
      BY <2>2, FleetBounds
    <3> QED BY <1>1, <2>2, <3>1 DEF BeginTick, FleetInv, StderrOK
  <2> QED BY <2>1, <2>2 DEF BeginTick
<1>6. HealthOK'
  <2>1. CASE UNCHANGED <<watcher, ripe, cooling, unhealthy, healthFixed>>
    BY <2>1 DEF BeginTick, FleetInv, HealthOK
  <2>2. CASE /\ watcher' = conducts /\ ripe' = FALSE /\ cooling' = FALSE /\ unhealthy' = 0
             /\ healthFixed' = FALSE
    <3>1. unhealthy' \in 0 .. HealthStreak /\ watcher' \in {0} \cup Fleets
      BY <1>1, <2>2, FleetBounds
    <3> QED BY <2>2, <3>1, Zenon DEF BeginTick, FleetInv, HealthOK
  <2> QED BY <2>1, <2>2 DEF BeginTick
<1>7. ScaffoldKeepsProtocol'
  BY DEF BeginTick, FleetInv, ScaffoldKeepsProtocol
<1> QED BY <1>2, <1>3, <1>4, <1>5, <1>6, <1>7 DEF FleetInv

\* Main moves to what it was, or stays: what is on it is the same.
LEMMA SameMainFacts ==
  ASSUME FleetInv, MainMoves(hub) \/ MainStays
  PROVE  hub' = hub /\ replica' \in Main /\ movedFix' \in BOOLEAN /\ UNCHANGED <<scene, afar>>
<1>1. CASE MainMoves(hub)
  BY <1>1, MainMovesFacts DEF FleetInv, MainOK
<1>2. CASE MainStays
  BY <1>2 DEF FleetInv, MainOK, HealthOK, MainStays
<1> QED BY <1>1, <1>2

\* The merger's role returns.
LEMMA MergeKeeps ==
  ASSUME FleetInv, Merge
  PROVE  FleetInv'
<1>1. hub' = hub /\ replica' \in Main /\ movedFix' \in BOOLEAN /\ UNCHANGED <<scene, afar>>
  BY SameMainFacts DEF Merge
<1>2. fleetSpent' \in 0 .. MaxFleetFaults
  BY FaultFacts DEF Merge, FleetInv, MainOK
<1>3. ahead' \in BOOLEAN
  BY DEF Merge, FleetInv, MainOK
<1>4. MainOK'
  BY <1>1, <1>2, <1>3 DEF Merge, FleetInv, MainOK
<1>5. TickOK'
  <2>1. roles' = roles \ {"merger"} /\ UNCHANGED <<conducts, built, ticking, due, fixing>>
    BY DEF Merge
  <2> QED BY <2>1 DEF FleetInv, TickOK
<1>6. SetupOK'
  <2>1. CASE job' = Overtaken
    BY <2>1, OvertakenKeeps DEF Merge
  <2>2. CASE UNCHANGED job
    BY <2>2 DEF Merge, FleetInv, SetupOK
  <2> QED BY <2>1, <2>2 DEF Merge
<1>7. StderrOK'
  BY DEF Merge, FleetInv, StderrOK
<1>8. HealthOK'
  BY <1>1 DEF Merge, FleetInv, HealthOK
<1>9. ScaffoldKeepsProtocol'
  BY <1>1 DEF FleetInv, ScaffoldKeepsProtocol
<1> QED BY <1>4, <1>5, <1>6, <1>7, <1>8, <1>9 DEF FleetInv

\* The harness of the error-watcher is done: what it worked on is banked, or is still
\* there.
LEMMA FixKeeps ==
  ASSUME FleetInv, Fix
  PROVE  FleetInv'
<1>1. hub' = hub /\ replica' \in Main /\ movedFix' \in BOOLEAN /\ UNCHANGED <<scene, afar>>
  BY SameMainFacts DEF Fix
<1>2. fleetSpent' \in 0 .. MaxFleetFaults
  BY FaultFacts DEF Fix, FleetInv, MainOK
<1>3. MainOK'
  BY <1>1, <1>2 DEF Fix, FleetInv, MainOK
<1>4. TickOK'
  <2>1. /\ roles' = roles \ {"error-watcher"} /\ fixing' = "none"
        /\ UNCHANGED <<conducts, built, ticking, due>>
    BY DEF Fix, WatcherReturns
  <2> QED BY <2>1 DEF FleetInv, TickOK
<1>5. SetupOK'
  <2>1. CASE job' = Overtaken
    BY <2>1, OvertakenKeeps DEF Fix
  <2>2. CASE UNCHANGED job
    BY <2>2 DEF Fix, FleetInv, SetupOK
  <2> QED BY <2>1, <2>2 DEF Fix
<1>6. pending' \in Seq(Kind) /\ fixed' \subseteq Kind
  <2>1. CASE Bank
    <3>1. CASE fixing = "health"
      BY <2>1, <3>1 DEF Bank, FleetInv, StderrOK
    <3>2. CASE fixing # "health"
      <4>1. pending # <<>> /\ pending \in Seq(Kind)
        BY <3>2 DEF Fix, FleetInv, StderrOK
      <4>2. Head(pending) \in Kind
        BY <4>1, HeadTailProperties
      <4> QED BY <2>1, <3>2, <4>2 DEF Bank, FleetInv, StderrOK
    <3> QED BY <3>1, <3>2
  <2>2. CASE UNCHANGED <<pending, fixed>>
    BY <2>2 DEF FleetInv, StderrOK
  <2> QED BY <2>1, <2>2 DEF Fix
<1>7. StderrOK'
  BY <1>6 DEF Fix, FleetInv, StderrOK
<1>8. HealthOK'
  <2>1. CASE Bank
    <3>1. cooling' = TRUE /\ ripe' = FALSE /\ healthFixed' \in BOOLEAN
          /\ unhealthy' \in 0 .. HealthStreak
      <4>1. CASE fixing = "health"
        BY <2>1, <4>1, FleetBounds DEF Bank
      <4>2. CASE fixing # "health"
        BY <2>1, <4>2 DEF Bank, FleetInv, HealthOK
      <4> QED BY <4>1, <4>2, <2>1 DEF Bank
    <3> QED BY <1>1, <3>1, Zenon DEF Fix, FleetInv, HealthOK
  <2>2. CASE UNCHANGED <<ripe, cooling, unhealthy, healthFixed>>
    BY <1>1, <2>2 DEF Fix, FleetInv, HealthOK
  <2> QED BY <2>1, <2>2 DEF Fix
<1>9. ScaffoldKeepsProtocol'
  BY <1>1 DEF FleetInv, ScaffoldKeepsProtocol
<1> QED BY <1>3, <1>4, <1>5, <1>7, <1>8, <1>9 DEF FleetInv

\* What is due is the settled burst, the outage, or nothing.
LEMMA TriggerFacts ==
  ASSUME NEW burst, NEW settled \in BOOLEAN, NEW failures, NEW answered
  PROVE  /\ Trigger(burst, settled, failures, answered) \in {"none", "logs", "health"}
         /\ Trigger(burst, settled, failures, answered) = "logs" => burst # <<>>
BY DEF Trigger

\* The lines of a burst are of the kinds there are.
LEMMA KindsOfBurst ==
  ASSUME NEW burst \in Seq(Kind)
  PROVE  \A y \in Range(burst) : y \in Kind
<1>1. burst \in [1 .. Len(burst) -> Kind] /\ DOMAIN burst = 1 .. Len(burst)
  BY LenProperties
<1> QED BY <1>1 DEF Range

\* A watcher's tick up to its harness: what is read of stderr is in the burst, which
\* the harness gets, which is dropped, or which is kept for a later tick.
LEMMA WatchKeeps ==
  ASSUME FleetInv, Watch
  PROVE  FleetInv'
<1> DEFINE new == SubSeq(logs, seen + 1, Len(logs))
           burst == pending \o new
           failing == ailing /\ "health" \in watches[ticking]
           failures == IF failing THEN Min({unhealthy + 1, HealthStreak}) ELSE 0
           by(settled) == Trigger(burst, settled, failures, ~healthFixed')
<1>1. burst \in Seq(Kind)
  <2>1. logs \in Seq(Kind) /\ Len(logs) \in Nat /\ seen \in Nat /\ pending \in Seq(Kind)
    BY FleetBounds DEF FleetInv, StderrOK
  <2>2. \A i \in seen + 1 .. Len(logs) : logs[i] \in Kind
    BY <2>1
  <2>3. new \in Seq(Kind)
    BY <2>1, <2>2, SubSeqProperties
  <2> QED BY <2>1, <2>3, ConcatProperties
<1>2. failures \in 0 .. HealthStreak
  <2>1. unhealthy \in Nat /\ unhealthy <= HealthStreak /\ HealthStreak \in Nat \ {0}
    BY FleetBounds DEF FleetInv, HealthOK
  <2>2. Min({unhealthy + 1, HealthStreak}) \in 0 .. HealthStreak
    <3>1. \E x \in {unhealthy + 1, HealthStreak} :
            \A y \in {unhealthy + 1, HealthStreak} : x <= y
      BY <2>1
    <3>2. /\ Min({unhealthy + 1, HealthStreak}) \in {unhealthy + 1, HealthStreak}
          /\ Min({unhealthy + 1, HealthStreak}) <= HealthStreak
      BY <3>1 DEF Min
    <3> QED BY <2>1, <3>2
  <2> QED BY <2>1, <2>2
<1>3. Len(logs) \in 0 .. MaxLogged
  BY FleetBounds DEF FleetInv, StderrOK
<1>4. PICK settled \in Ripe(new) :
        IF by(settled) = "none" \/ cooling
        THEN /\ pending' = (IF by(settled) = "none" THEN burst ELSE Held(burst))
             /\ ripe' = (settled /\ pending' # <<>>)
             /\ WatcherReturns
             /\ UNCHANGED <<fixing, movedFix, tried, shadowed, fleetSpent>>
        ELSE IF by(settled) = "logs" /\ Head(burst) \in fixed
        THEN /\ pending' = <<>> /\ ripe' = FALSE /\ WatcherReturns
             /\ shadowed' = shadowed \cup (Range(burst) \ fixed)
             /\ UNCHANGED <<fixing, movedFix, tried, fleetSpent>>
        ELSE /\ pending' = burst /\ ripe' = settled
             /\ \/ /\ fixing' = by(settled) /\ movedFix' = FALSE
                   /\ tried' = IF by(settled) = "logs" THEN tried \cup {Head(burst)} ELSE tried
                   /\ shadowed' = shadowed \cup (Range(burst) \ tried')
                   /\ UNCHANGED <<roles, fleetSpent>>
                \/ /\ WatcherReturns /\ FleetFault("git")
                   /\ UNCHANGED <<fixing, movedFix, tried, shadowed>>
  BY Zenon DEF Watch
<1>5. settled \in BOOLEAN
  BY DEF Ripe, FleetInv, HealthOK
<1>6. /\ by(settled) \in {"none", "logs", "health"}
      /\ by(settled) = "logs" => burst # <<>> /\ Head(burst) \in Kind
  <2>1. /\ by(settled) \in {"none", "logs", "health"}
        /\ by(settled) = "logs" => burst # <<>>
    BY <1>5, TriggerFacts, Zenon
  <2>2. burst # <<>> => Head(burst) \in Kind
    BY <1>1, HeadTailProperties
  <2> QED BY <2>1, <2>2
<1>7. Range(burst) \subseteq Kind
  BY <1>1, KindsOfBurst, Zenon
<1>8. fixing = "none" /\ "error-watcher" \in roles /\ ticking \in Fleets
  BY DEF Watch, FleetInv, TickOK
<1>9. /\ seen' = Len(logs) /\ unhealthy' = failures
      /\ healthFixed' = (healthFixed /\ failing)
      /\ UNCHANGED <<mains, others, conducts, built, ticking, due, setup, watches, watcher,
                     cooling, fixed>>
  BY Zenon DEF Watch
<1> DEFINE b == by(settled)
           r == Range(burst)
<1> HIDE DEF burst, failures, b, failing, r
<1>10. CASE b = "none" \/ cooling
  <2>1. /\ pending' = burst /\ ripe' = (settled /\ pending' # <<>>) /\ WatcherReturns
        /\ UNCHANGED <<fixing, movedFix, tried, shadowed, fleetSpent>>
    BY <1>4, <1>10 DEF b, Held
  <2>2. MainOK' /\ SetupOK' /\ ScaffoldKeepsProtocol'
    BY <1>9, <2>1 DEF FleetInv, MainOK, SetupOK, ScaffoldKeepsProtocol
  <2>3. TickOK'
    BY <1>8, <1>9, <2>1 DEF FleetInv, TickOK, WatcherReturns
  <2>4. StderrOK'
    BY <1>1, <1>3, <1>8, <1>9, <2>1 DEF FleetInv, StderrOK
  <2>5. HealthOK'
    <3>1. ripe' \in BOOLEAN /\ healthFixed' \in BOOLEAN /\ unhealthy' \in 0 .. HealthStreak
      BY <1>2, <1>9, <2>1
    <3> QED BY <1>9, <2>1, <3>1, Zenon DEF FleetInv, HealthOK
  <2> QED BY <2>2, <2>3, <2>4, <2>5 DEF FleetInv
<1>11. CASE ~(b = "none" \/ cooling) /\ b = "logs" /\ Head(burst) \in fixed
  <2>1. /\ pending' = <<>> /\ ripe' = FALSE /\ WatcherReturns
        /\ shadowed' = shadowed \cup (r \ fixed)
        /\ UNCHANGED <<fixing, movedFix, tried, fleetSpent>>
    BY <1>4, <1>11 DEF b, r
  <2>2. MainOK' /\ SetupOK' /\ ScaffoldKeepsProtocol'
    BY <1>9, <2>1 DEF FleetInv, MainOK, SetupOK, ScaffoldKeepsProtocol
  <2>3. TickOK'
    BY <1>8, <1>9, <2>1 DEF FleetInv, TickOK, WatcherReturns
  <2>4. StderrOK'
    <3>1. pending' \in Seq(Kind) /\ r \subseteq Kind
      BY <1>7, <2>1 DEF r
    <3> QED BY <1>3, <1>8, <1>9, <2>1, <3>1 DEF FleetInv, StderrOK
  <2>5. HealthOK'
    <3>1. ripe' \in BOOLEAN /\ healthFixed' \in BOOLEAN /\ unhealthy' \in 0 .. HealthStreak
      BY <1>2, <1>9, <2>1
    <3> QED BY <1>9, <2>1, <3>1, Zenon DEF FleetInv, HealthOK
  <2> QED BY <2>2, <2>3, <2>4, <2>5 DEF FleetInv
<1>12. CASE ~(b = "none" \/ cooling) /\ ~(b = "logs" /\ Head(burst) \in fixed)
  <2>1. /\ pending' = burst /\ ripe' = settled
        /\ \/ /\ fixing' = b /\ movedFix' = FALSE
              /\ tried' = IF b = "logs" THEN tried \cup {Head(burst)} ELSE tried
              /\ shadowed' = shadowed \cup (r \ tried')
              /\ UNCHANGED <<roles, fleetSpent>>
           \/ /\ WatcherReturns /\ FleetFault("git")
              /\ UNCHANGED <<fixing, movedFix, tried, shadowed>>
    BY <1>4, <1>12 DEF b, r
  <2>2. fleetSpent' \in 0 .. MaxFleetFaults
    BY <2>1, FaultFacts DEF FleetInv, MainOK
  <2>3. MainOK' /\ SetupOK' /\ ScaffoldKeepsProtocol'
    BY <1>9, <2>2 DEF FleetInv, MainOK, SetupOK, ScaffoldKeepsProtocol
  <2>4. TickOK'
    <3>1. roles' \subseteq {"merger", "error-watcher"} /\ ticking # 0
      BY <1>8, <2>1 DEF FleetInv, TickOK, WatcherReturns
    <3>2. fixing' # "none" => "error-watcher" \in roles'
      BY <1>8, <2>1
    <3> QED BY <1>9, <3>1, <3>2 DEF FleetInv, TickOK
  <2>5. StderrOK'
    <3>1. fixing' \in {"none", "logs", "health"} /\ (fixing' = "logs" => burst # <<>>)
      BY <1>6, <1>8, <2>1 DEF b
    <3>2. tried' \subseteq Kind /\ shadowed' \subseteq Kind
      BY <1>6, <1>7, <2>1 DEF FleetInv, StderrOK, b, r
    <3> QED BY <1>1, <1>3, <1>9, <2>1, <3>1, <3>2 DEF FleetInv, StderrOK
  <2>6. HealthOK'
    <3>1. /\ ripe' \in BOOLEAN /\ healthFixed' \in BOOLEAN /\ unhealthy' \in 0 .. HealthStreak
          /\ movedFix' \in BOOLEAN
      BY <1>2, <1>5, <1>9, <2>1 DEF FleetInv, HealthOK
    <3> QED BY <1>9, <3>1, Zenon DEF FleetInv, HealthOK
  <2> QED BY <2>3, <2>4, <2>5, <2>6 DEF FleetInv
<1> QED BY <1>10, <1>11, <1>12

\* Every step of the fleet keeps the invariant.
LEMMA FleetStep == FleetInv /\ [FleetNext]_fleetVars => FleetInv'
<1> SUFFICES ASSUME FleetInv, [FleetNext]_fleetVars PROVE FleetInv'
  OBVIOUS
<1>1. ASSUME NEW f \in Fleets, Setting(f) \/ AgentTurn(f) \/ MergeTurn(f)
      PROVE  FleetInv'
  BY <1>1, SetupClonesKeeps, SetupPushesKeeps, AgentTurnKeeps, MergeTurnKeeps DEF Setting
<1>2. CASE \/ WriteBrief \/ Push \/ PublishEndpoints \/ Ail \/ Recover
           \/ \E k \in Kind : Log(k)
  BY <1>2, WriteBriefKeeps, PushKeeps, PublishEndpointsKeeps, AilKeeps, LogKeeps
<1>3. CASE Elect \/ LetGoOfTheFleet \/ FloorPasses \/ BeginTick \/ EndTick \/ Merge
  BY <1>3, ElectKeeps, LetGoKeeps, BeginTickKeeps, EndTickKeeps, MergeKeeps
<1>4. CASE Ripen \/ CoolOff \/ Watch \/ Fix
  BY <1>4, RipenKeeps, WatchKeeps, FixKeeps
<1>5. CASE UNCHANGED fleetVars
  BY <1>5
  DEF fleetVars, FleetInv, MainOK, TickOK, SetupOK, StderrOK, HealthOK, ScaffoldKeepsProtocol
<1> QED BY <1>1, <1>2, <1>3, <1>4, <1>5 DEF FleetNext

-----------------------------------------------------------------------------
(* A host that goes on as one session.                                      *)

\* Both components keep their invariants, whichever of them moves.
HostInvariant == part \in {"hosting", "fleet"} /\ HostInv /\ FleetInv

\* The invariant of both components holds at first.
LEMMA HostInvariantStarts == Init => HostInvariant
BY HostStart, FleetStart DEF Init, HostInvariant

\* A component that does not move keeps its invariant.
LEMMA OtherPartStays ==
  /\ HostInv /\ UNCHANGED hostVars => HostInv'
  /\ FleetInv /\ UNCHANGED fleetVars => FleetInv'
BY HostStep, FleetStep

\* Every step keeps the invariant of both.
LEMMA HostInvariantKept == HostInvariant /\ [Next]_vars => HostInvariant'
<1> SUFFICES ASSUME HostInvariant, [Next]_vars PROVE HostInvariant'
  OBVIOUS
<1>1. CASE HostNext /\ UNCHANGED fleetVars /\ UNCHANGED part
  BY <1>1, HostStep, OtherPartStays DEF HostInvariant
<1>2. CASE FleetNext /\ UNCHANGED hostVars /\ UNCHANGED part
  BY <1>2, FleetStep, OtherPartStays DEF HostInvariant
<1>3. CASE UNCHANGED vars
  BY <1>3, OtherPartStays DEF vars, HostInvariant
<1> QED BY <1>1, <1>2, <1>3 DEF Next

\* So it holds of every behaviour.
LEMMA HostInvariantAlways == Spec => []HostInvariant
<1>1. Spec => Init /\ [][Next]_vars
  BY PTL DEF Spec
<1> QED BY <1>1, HostInvariantStarts, HostInvariantKept, PTL

\* Every variable of a host keeps its type: setup's slot is taken exactly while the
\* role runs, and the counters keep their bounds.
THEOREM HostTypes == Spec => []TypeOK
<1>1. HostInvariant => TypeOK
  BY HostInvTypes, FleetInvTypes DEF HostInvariant, TypeOK
<1> QED BY <1>1, HostInvariantAlways, PTL

\* Whatever is published carries the session's history on, who writes as the host is
\* the one the session names, and what a scaffold lands on main carries the protocol,
\* for any boxes, members, bounds and faults.
THEOREM OneSessionAlways == Spec => []OneSession
<1>1. HostInvariant => OneSession
  BY HostPromises DEF HostInvariant, OneSession, FleetInv
<1> QED BY <1>1, HostInvariantAlways, PTL
=============================================================================
