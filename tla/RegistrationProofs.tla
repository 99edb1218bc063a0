------------------------- MODULE RegistrationProofs -------------------------
(***************************************************************************)
(* What holds of Registration for any holders, services, bounds and faults. *)
(***************************************************************************)
EXTENDS Registration, TLAPS

\* Every variable of a relay and its holders keeps its type.
LEMMA InitTypeOK == Init => TypeOK
PROOF
  <1> SUFFICES ASSUME Init PROVE TypeOK
    OBVIOUS
  <1>1. (CHOOSE h \in Holder : TRUE) \in Holder
    BY RegistrationAssumption
  <1> QED
    BY <1>1, RegistrationAssumption DEF Init, TypeOK, Stage

\* A refusal and an installation, the two ways a stretch of register ends, keep
\* the types.
LEMMA RefuseTypeOK ==
  ASSUME TypeOK, NEW c \in Conn, Refuse(c), spent' \in Nat
  PROVE TypeOK'
PROOF
  BY DEF Refuse, TypeOK, Stage, relay, holder, GoOn

LEMMA InstallTypeOK ==
  ASSUME TypeOK, NEW c \in Conn, NEW o \in Conn \cup {NoConn}, Install(c, o),
         spent' \in Nat
  PROVE TypeOK'
PROOF
  <1>k. KeyAt(c) \in Key
    BY RegistrationAssumption DEF KeyAt, TypeOK
  <1>1. CASE Full(o)
    BY <1>1, RefuseTypeOK DEF Install
  <1>2. CASE ~Full(o)
    BY <1>2, <1>k DEF Install, TypeOK, Stage, wire, holder, GoOn
  <1> QED
    BY <1>1, <1>2

\* A handler's step keeps the types.
LEMMA RegisterTypeOK ==
  ASSUME TypeOK, NEW c \in Conn,
         \/ Register(c) \/ RateLimited(c) \/ ProbeTimesOut(c)
         \/ AnsweredLate(c) \/ GoesQuiet(c)
  PROVE TypeOK'
PROOF
  <1>k. KeyAt(c) \in Key
    BY RegistrationAssumption DEF KeyAt, TypeOK
  <1>s. spent \in Nat
    BY DEF TypeOK
  <1>1. CASE Lookup(c)
    BY <1>1, <1>k DEF Lookup, TypeOK, Stage, relay, wire, holder, GoOn
  <1>2. CASE NeverArrives(c)
    BY <1>2 DEF NeverArrives, TypeOK, Stage, relay, holder, GoOn
  <1>3. CASE Probe(c)
    <2>1. CASE Answers(old[c])
      BY <1>3, <1>s, <2>1, RefuseTypeOK DEF Probe
    <2>2. CASE ~Answers(old[c])
      BY <1>3, <2>2 DEF Probe, TypeOK, Stage, relay, wire, holder, GoOn
    <2> QED
      BY <2>1, <2>2
  <1>4. CASE Limit(c)
    BY <1>4 DEF Limit, TypeOK, Stage, relay, wire, holder, GoOn
  <1>5. CASE Admit(c)
    <2>1. CASE Contested(c)
      BY <1>5, <1>k, <2>1 DEF Admit, TypeOK, Stage, relay, wire, holder, GoOn
    <2>2. CASE ~Contested(c)
      <3>1. old[c] \in Conn \cup {NoConn}
        BY DEF TypeOK
      <3> QED
        BY <1>5, <1>s, <2>2, <3>1, InstallTypeOK DEF Admit
    <2> QED
      BY <2>1, <2>2
  <1>6. CASE Reprobe(c)
    <2>1. CASE Answers(cur[c])
      BY <1>6, <1>s, <2>1, RefuseTypeOK DEF Reprobe
    <2>2. CASE ~Answers(cur[c])
      BY <1>6, <2>2 DEF Reprobe, TypeOK, Stage, relay, wire, holder, GoOn
    <2> QED
      BY <2>1, <2>2
  <1>7. CASE Readmit(c)
    <2>1. table[KeyAt(c)] \in Conn \cup {NoConn}
      BY <1>k DEF TypeOK
    <2> QED
      BY <1>7, <1>s, <2>1, InstallTypeOK, RefuseTypeOK DEF Readmit
  <1>8. CASE Evict(c)
    BY <1>8 DEF Evict, TypeOK, Stage, relay, handler, wire, holder, GoOn, Fault
  <1>9. CASE ReplyOk(c)
    BY <1>9 DEF ReplyOk, TypeOK, Stage, relay, handler, wire, holder, GoOn, Fault
  <1>10. CASE ReplyFails(c)
    BY <1>10 DEF ReplyFails, TypeOK, Stage, relay, handler, wire, holder, GoOn, Fault
  <1>11. CASE Deregister(c)
    BY <1>11 DEF Deregister, TypeOK, Stage, relay, handler, wire, holder, GoOn, Fault
  <1>12. CASE Unanswered(c)
    BY <1>12 DEF Unanswered, TypeOK, Stage, relay, handler, wire, holder, GoOn, Fault
  <1>13. CASE RateLimited(c)
    <2>1. spent' \in Nat
      BY <1>13, <1>s DEF RateLimited, Fault
    <2> QED
      BY <1>13, <2>1, RefuseTypeOK DEF RateLimited
  <1>14. CASE ProbeTimesOut(c)
    BY <1>14 DEF ProbeTimesOut, TypeOK, Stage, relay, handler, wire, holder, GoOn, Fault
  <1>15. CASE AnsweredLate(c)
    BY <1>15 DEF AnsweredLate, TypeOK, Stage, relay, handler, wire, holder, GoOn, Fault
  <1>16. CASE GoesQuiet(c)
    BY <1>16 DEF GoesQuiet, TypeOK, Stage, relay, handler, wire, holder, GoOn, Fault
  <1> QED
    BY <1>1, <1>2, <1>3, <1>4, <1>5, <1>6, <1>7, <1>8, <1>9, <1>10, <1>11,
       <1>12, <1>13, <1>14, <1>15, <1>16 DEF Register

\* So does a holder's, ...
LEMMA HolderTypeOK ==
  ASSUME TypeOK, NEW h \in Holder,
         Hold(h) \/ Serve(h) \/ GivesUp(h) \/ PongLate(h) \/ Cancel(h) \/ Crash(h)
  PROVE TypeOK'
PROOF
  <1> USE DEF TypeOK, relay, handler, wire, holder, Fault
  <1>1. CASE Dial(h)
    BY <1>1 DEF Dial, Unused, GoOn, Stage
  <1>2. CASE DialCancelled(h)
    BY <1>2 DEF DialCancelled
  <1>3. CASE Registered(h)
    BY <1>3 DEF Registered
  <1>4. CASE Refused(h)
    BY <1>4 DEF Refused, TryAgain
  <1>5. CASE PumpEnds(h)
    BY <1>5 DEF PumpEnds
  <1>6. CASE NoPong(h)
    BY <1>6 DEF NoPong
  <1>7. CASE CloseCtrl(h)
    BY <1>7 DEF CloseCtrl
  <1>8. CASE Serve(h)
    BY <1>8 DEF Serve
  <1>9. CASE GivesUp(h)
    BY <1>9 DEF GivesUp, TryAgain
  <1>10. CASE PongLate(h)
    <2>1. near' \in [Conn -> BOOLEAN]
      BY <1>10 DEF PongLate
    <2>2. spent' \in Nat
      BY <1>10 DEF PongLate
    <2> QED
      BY <1>10, <2>1, <2>2 DEF PongLate
  <1>11. CASE Cancel(h)
    BY <1>11 DEF Cancel
  <1>12. CASE Crash(h)
    BY <1>12 DEF Crash
  <1> QED
    BY <1>1, <1>2, <1>3, <1>4, <1>5, <1>6, <1>7, <1>8, <1>9, <1>10, <1>11,
       <1>12 DEF Hold

\* ... and the relay's restart.
LEMMA NextTypeOK == TypeOK /\ [Next]_vars => TypeOK'
PROOF
  <1> SUFFICES ASSUME TypeOK, [Next]_vars PROVE TypeOK'
    OBVIOUS
  <1>1. CASE RelayRestarts
    BY <1>1 DEF RelayRestarts, TypeOK, Stage, holder, Fault
  <1>2. CASE UNCHANGED vars
    BY <1>2 DEF vars, relay, handler, wire, holder, TypeOK
  <1> QED
    BY <1>1, <1>2, RegisterTypeOK, HolderTypeOK DEF Next

\* Every variable of Registration keeps its type.
THEOREM RegistrationTypeCorrect == Spec => []TypeOK
PROOF
  BY InitTypeOK, NextTypeOK, PTL DEF Spec

-----------------------------------------------------------------------------
\* A displaced connection is never left held: it stays in the table from its
\* installation until the displacer is about to close it.
Installed == {"evict", "reply", "held"}
InstalledIsKnown ==
  \A c \in Conn :
    stage[c] \in Installed /\ far[c] =>
      \/ table[KeyAt(c)] = c
      \/ \E d \in Conn : stage[d] = "evict" /\ old[d] = c

OrphanInv == TypeOK /\ InstalledIsKnown

\* A refusal: nothing installed changes.
LEMMA RefuseKeepsInstalled ==
  ASSUME OrphanInv, NEW c \in Conn, Refuse(c), stage[c] # "evict"
  PROVE InstalledIsKnown'
PROOF
  <1> SUFFICES ASSUME NEW e \in Conn, (stage[e] \in Installed /\ far[e])'
               PROVE (\/ table[KeyAt(e)] = e
                      \/ \E d \in Conn : stage[d] = "evict" /\ old[d] = e)'
    BY DEF InstalledIsKnown
  <1>1. e # c /\ stage[e] \in Installed /\ far[e]
    BY DEF Refuse, GoOn, OrphanInv, TypeOK, Installed
  <1>2. CASE table[KeyAt(e)] = e
    BY <1>1, <1>2 DEF Refuse, relay, KeyAt
  <1>3. CASE \E d \in Conn : stage[d] = "evict" /\ old[d] = e
    BY <1>1, <1>3 DEF Refuse, GoOn, OrphanInv, TypeOK
  <1> QED
    BY <1>1, <1>2, <1>3 DEF OrphanInv, InstalledIsKnown

\* An installation: what it displaces is what it will close.
LEMMA InstallKeepsInstalled ==
  ASSUME OrphanInv, NEW c \in Conn, NEW o \in Conn \cup {NoConn}, Install(c, o),
         stage[c] \notin Installed, table[KeyAt(c)] \in {NoConn, o}
  PROVE InstalledIsKnown'
PROOF
  <1>k. \A e \in Conn : KeyAt(e) \in Key
    BY RegistrationAssumption DEF KeyAt, OrphanInv, TypeOK
  <1>1. CASE Full(o)
    BY <1>1, RefuseKeepsInstalled DEF Install, Installed
  <1>2. CASE ~Full(o)
    <2> SUFFICES ASSUME NEW e \in Conn, (stage[e] \in Installed /\ far[e])'
                 PROVE (\/ table[KeyAt(e)] = e
                        \/ \E d \in Conn : stage[d] = "evict" /\ old[d] = e)'
      BY DEF InstalledIsKnown
    <2>t. table' = [table EXCEPT ![KeyAt(c)] = c] /\ KeyAt(e)' = KeyAt(e)
      BY <1>2 DEF Install, wire, KeyAt
    <2>1. CASE e = c
      BY <1>k, <2>1, <2>t DEF OrphanInv, TypeOK
    <2>2. CASE e # c
      <3>1. stage[e] \in Installed /\ far[e]
        BY <1>2, <2>2 DEF Install, GoOn, wire, OrphanInv, TypeOK
      <3>2. CASE table[KeyAt(e)] = e /\ KeyAt(e) # KeyAt(c)
        BY <1>k, <2>t, <3>2 DEF OrphanInv, TypeOK
      <3>3. CASE table[KeyAt(e)] = e /\ KeyAt(e) = KeyAt(c)
        <4>1. o = e
          BY <3>3, RegistrationAssumption DEF Conn
        <4>2. stage'[c] = "evict" /\ old'[c] = e
          BY <1>2, <4>1 DEF Install, GoOn, OrphanInv, TypeOK
        <4> QED
          BY <4>2
      <3>4. CASE \E d \in Conn : stage[d] = "evict" /\ old[d] = e
        BY <1>2, <3>4 DEF Install, GoOn, OrphanInv, TypeOK, Installed
      <3> QED
        BY <3>1, <3>2, <3>3, <3>4 DEF OrphanInv, InstalledIsKnown
    <2> QED
      BY <2>1, <2>2
  <1> QED
    BY <1>1, <1>2

\* A step that leaves the table and the displacers alone and installs nothing.
LEMMA ElsewhereKeepsInstalled ==
  ASSUME OrphanInv, TypeOK',
         \A e \in Conn : (stage[e] \in Installed /\ far[e])' =>
            /\ stage[e] \in Installed /\ far[e]
            /\ by'[e] = by[e]
            /\ table[KeyAt(e)] = e => table'[KeyAt(e)] = e,
         \A e, d \in Conn : stage[d] = "evict" /\ old[d] = e =>
            ~far'[e] \/ (stage'[d] = "evict" /\ old'[d] = e)
  PROVE InstalledIsKnown'
PROOF
  BY DEF OrphanInv, InstalledIsKnown, KeyAt

\* Every step keeps what is installed known.
LEMMA OrphanStep == OrphanInv /\ [Next]_vars => OrphanInv'
PROOF
  <1> SUFFICES ASSUME OrphanInv, [Next]_vars PROVE InstalledIsKnown'
    BY NextTypeOK DEF OrphanInv
  <1>t. TypeOK /\ TypeOK'
    BY NextTypeOK DEF OrphanInv
  <1> USE DEF Installed
  <1>1. ASSUME NEW c \in Conn, Register(c) PROVE InstalledIsKnown'
    <2>k. KeyAt(c) \in Key
      BY <1>t, RegistrationAssumption DEF KeyAt, TypeOK
    <2>1. CASE Lookup(c)
      BY <1>t, <2>1, ElsewhereKeepsInstalled
         DEF Lookup, TypeOK, relay, wire, GoOn, KeyAt
    <2>2. CASE NeverArrives(c)
      BY <1>t, <2>2, ElsewhereKeepsInstalled
         DEF NeverArrives, TypeOK, relay, GoOn, KeyAt
    <2>3. CASE Probe(c)
      <3>1. CASE Answers(old[c])
        BY <2>3, <3>1, RefuseKeepsInstalled DEF Probe
      <3>2. CASE ~Answers(old[c])
        BY <1>t, <2>3, <3>2, ElsewhereKeepsInstalled
           DEF Probe, TypeOK, relay, wire, GoOn, KeyAt
      <3> QED
        BY <3>1, <3>2
    <2>4. CASE Limit(c)
      BY <1>t, <2>4, ElsewhereKeepsInstalled
         DEF Limit, TypeOK, relay, wire, GoOn, KeyAt
    <2>5. CASE Admit(c)
      <3>1. CASE Contested(c)
        BY <1>t, <2>5, <3>1, ElsewhereKeepsInstalled
           DEF Admit, TypeOK, relay, wire, GoOn, KeyAt
      <3>2. CASE ~Contested(c)
        <4>1. old[c] \in Conn \cup {NoConn}
          BY <1>t DEF TypeOK
        <4> QED
          BY <2>5, <3>2, <4>1, InstallKeepsInstalled DEF Admit, Contested
      <3> QED
        BY <3>1, <3>2
    <2>6. CASE Reprobe(c)
      <3>1. CASE Answers(cur[c])
        BY <2>6, <3>1, RefuseKeepsInstalled DEF Reprobe
      <3>2. CASE ~Answers(cur[c])
        BY <1>t, <2>6, <3>2, ElsewhereKeepsInstalled
           DEF Reprobe, TypeOK, relay, wire, GoOn, KeyAt
      <3> QED
        BY <3>1, <3>2
    <2>7. CASE Readmit(c)
      <3>1. table[KeyAt(c)] \in Conn \cup {NoConn}
        BY <1>t, <2>k DEF TypeOK
      <3>2. CASE table[KeyAt(c)] \in {NoConn, cur[c]}
        BY <2>7, <3>1, <3>2, InstallKeepsInstalled DEF Readmit
      <3>3. CASE table[KeyAt(c)] \notin {NoConn, cur[c]}
        BY <2>7, <3>3, RefuseKeepsInstalled DEF Readmit
      <3> QED
        BY <3>2, <3>3
    <2>8. CASE Evict(c)
      <3>1. /\ \A e \in Conn : far'[e] <=> far[e] /\ e # old[c]
            /\ \A d \in Conn : d # c => stage'[d] = stage[d] /\ old'[d] = old[d]
            /\ by' = by /\ table' = table
            /\ stage[c] = "evict" /\ stage'[c] = "reply"
        BY <1>t, <2>8 DEF Evict, TypeOK, GoOn
      <3> QED
        BY <1>t, <3>1, ElsewhereKeepsInstalled DEF TypeOK, KeyAt
    <2>9. CASE ReplyOk(c)
      BY <1>t, <2>9, ElsewhereKeepsInstalled
         DEF ReplyOk, TypeOK, relay, GoOn, KeyAt
    <2>10. CASE ReplyFails(c)
      BY <1>t, <2>10, ElsewhereKeepsInstalled
         DEF ReplyFails, TypeOK, relay, GoOn, KeyAt
    <2>11. CASE Deregister(c)
      <3>1. /\ \A e \in Conn : e # c => stage'[e] = stage[e] /\ far'[e] = far[e]
            /\ stage[c] = "held" /\ stage'[c] = "none"
            /\ old' = old /\ by' = by
            /\ \A k \in Key : table'[k] = IF table[k] = c THEN NoConn ELSE table[k]
        BY <1>t, <2>11 DEF Deregister, TypeOK, GoOn
      <3>2. \A e \in Conn : KeyAt(e) \in Key
        BY <1>t, RegistrationAssumption DEF KeyAt, TypeOK
      <3> QED
        BY <1>t, <3>1, <3>2, ElsewhereKeepsInstalled
    <2>12. CASE Unanswered(c)
      BY <1>t, <2>12, ElsewhereKeepsInstalled
         DEF Unanswered, TypeOK, relay, handler, KeyAt
    <2> QED
      BY <1>1, <2>1, <2>2, <2>3, <2>4, <2>5, <2>6, <2>7, <2>8, <2>9, <2>10,
         <2>11, <2>12 DEF Register
  <1>2. ASSUME NEW c \in Conn,
               RateLimited(c) \/ ProbeTimesOut(c) \/ AnsweredLate(c) \/ GoesQuiet(c)
        PROVE InstalledIsKnown'
    <2>1. CASE RateLimited(c)
      BY <2>1, RefuseKeepsInstalled DEF RateLimited
    <2>2. CASE ProbeTimesOut(c)
      BY <1>t, <2>2, ElsewhereKeepsInstalled
         DEF ProbeTimesOut, TypeOK, relay, wire, GoOn, KeyAt
    <2>3. CASE AnsweredLate(c)
      BY <1>t, <2>3, ElsewhereKeepsInstalled
         DEF AnsweredLate, TypeOK, relay, handler, KeyAt
    <2>4. CASE GoesQuiet(c)
      BY <1>t, <2>4, ElsewhereKeepsInstalled
         DEF GoesQuiet, TypeOK, relay, handler, KeyAt
    <2> QED
      BY <1>2, <2>1, <2>2, <2>3, <2>4
  <1>3. ASSUME NEW h \in Holder,
               Hold(h) \/ Serve(h) \/ GivesUp(h) \/ PongLate(h) \/ Cancel(h) \/ Crash(h)
        PROVE InstalledIsKnown'
    <2>1. CASE Dial(h)
      <3>1. PICK c \in Unused :
              /\ by' = [by EXCEPT ![c] = h]
              /\ far' = [far EXCEPT ![c] = TRUE]
              /\ stage' = [stage EXCEPT ![c] = "arriving"]
        BY <2>1 DEF Dial, GoOn
      <3>2. c \in Conn /\ stage[c] = "none"
        BY DEF Unused
      <3> QED
        BY <1>t, <2>1, <3>1, <3>2, ElsewhereKeepsInstalled
           DEF Dial, TypeOK, relay, KeyAt
    <2>2. CASE ~Dial(h)
      <3>1. UNCHANGED <<table, stage, old, by, far>>
        BY <1>3, <2>2 DEF Hold, DialCancelled, Registered, Refused, TryAgain,
           PumpEnds, NoPong, CloseCtrl, Serve, GivesUp, PongLate, Cancel, Crash,
           relay, handler, wire
      <3> QED
        BY <1>t, <3>1, ElsewhereKeepsInstalled DEF KeyAt
    <2> QED
      BY <2>1, <2>2
  <1>4. CASE RelayRestarts
    BY <1>4 DEF RelayRestarts, InstalledIsKnown
  <1>5. CASE UNCHANGED vars
    BY <1>t, <1>5, ElsewhereKeepsInstalled DEF vars, relay, handler, wire, KeyAt
  <1> QED
    BY <1>1, <1>2, <1>3, <1>4, <1>5 DEF Next

\* Whatever races, dies or goes quiet, no connection is left held open that is
\* not the registered one and that nobody is about to close.
THEOREM NoOrphanIsLeft == Spec => []NoOrphanTunnel
PROOF
  <1>1. Init => OrphanInv
    BY InitTypeOK DEF Init, OrphanInv, InstalledIsKnown, Installed
  <1>2. OrphanInv => NoOrphanTunnel
    BY DEF OrphanInv, InstalledIsKnown, Installed, NoOrphanTunnel
  <1> QED
    BY <1>1, <1>2, OrphanStep, PTL DEF Spec

-----------------------------------------------------------------------------
\* What a handler has probed and given up on does not answer, now or later: no
\* number a handler still names is dialled again.
DeadFor(c) ==
  /\ stage[c] \in {"limit", "admit"} /\ old[c] # NoConn => ~Answers(old[c])
  /\ stage[c] = "readmit" => cur[c] # NoConn /\ ~Answers(cur[c])
  /\ stage[c] = "probe" => old[c] # NoConn
  /\ stage[c] = "reprobe" => cur[c] # NoConn
ProbedDead == \A c \in Conn : DeadFor(c)

DeadInv == TypeOK /\ ProbedDead

\* A connection that some handler names stays dead once it is.
LEMMA NamedStaysDead ==
  ASSUME TypeOK, [Next]_vars, NEW c \in Conn, NEW d \in Conn,
         old[c] = d \/ cur[c] = d, ~Answers(d)
  PROVE ~Answers(d)'
PROOF
  <1> USE DEF Answers, TypeOK
  <1>1. CASE \E h \in Holder : Dial(h)
    <2>1. PICK e \in Unused :
            /\ near' = [near EXCEPT ![e] = TRUE]
            /\ far' = [far EXCEPT ![e] = TRUE]
            /\ quiet' = quiet \ {e}
      BY <1>1 DEF Dial
    <2>2. e # d
      BY DEF Unused
    <2> QED
      BY <2>1, <2>2
  <1>2. CASE ~ \E h \in Holder : Dial(h)
    <2>1. \A e \in Conn :
            (near'[e] => near[e]) /\ (far'[e] => far[e])
            /\ (e \in quiet => e \in quiet')
      <3>1. CASE \E e \in Conn : Register(e) \/ RateLimited(e)
                                 \/ ProbeTimesOut(e) \/ AnsweredLate(e) \/ GoesQuiet(e)
        BY <3>1 DEF Register, Lookup, NeverArrives, Probe, Limit, Admit, Reprobe,
           Readmit, Evict, ReplyOk, ReplyFails, Deregister, Unanswered, RateLimited,
           ProbeTimesOut, AnsweredLate, GoesQuiet, Refuse, Install, wire
      <3>2. CASE \E h \in Holder : Hold(h) \/ Serve(h) \/ GivesUp(h) \/ PongLate(h)
                                   \/ Cancel(h) \/ Crash(h)
        BY <1>2, <3>2 DEF Hold, DialCancelled, Registered, Refused, TryAgain,
           PumpEnds, NoPong, CloseCtrl, Serve, GivesUp, PongLate, Cancel, Crash, wire
      <3>3. CASE RelayRestarts
        BY <3>3 DEF RelayRestarts
      <3>4. CASE UNCHANGED vars
        BY <3>4 DEF vars, wire
      <3> QED
        BY <3>1, <3>2, <3>3, <3>4 DEF Next
    <2> QED
      BY <2>1
  <1> QED
    BY <1>1, <1>2

\* Where a handler may be after a step, and how it got there.
Deciding == {"probe", "limit", "admit", "reprobe", "readmit"}
Stays(c) == stage'[c] = stage[c] /\ old'[c] = old[c] /\ cur'[c] = cur[c]
GetsOn(c) ==
  \/ stage'[c] \notin Deciding
  \/ Stays(c)
  \/ Lookup(c) \/ (Probe(c) /\ ~Answers(old[c])) \/ Limit(c)
  \/ (Admit(c) /\ Contested(c)) \/ (Reprobe(c) /\ ~Answers(cur[c]))

LEMMA HandlersGetOn ==
  ASSUME TypeOK, [Next]_vars, "slow" \notin Faults, NEW c \in Conn
  PROVE GetsOn(c)
PROOF
  <1> USE DEF TypeOK, GoOn
  <1>1. ASSUME NEW e \in Conn, e # c,
               Register(e) \/ RateLimited(e) \/ ProbeTimesOut(e)
               \/ AnsweredLate(e) \/ GoesQuiet(e)
        PROVE Stays(c)
    <2>1. CASE Register(e)
      BY <1>1, <2>1 DEF Stays, Register, Lookup, NeverArrives, Probe, Limit, Admit,
         Reprobe, Readmit, Evict, ReplyOk, ReplyFails, Deregister, Unanswered,
         Refuse, Install, handler
    <2>2. CASE ~Register(e)
      BY <1>1, <2>2 DEF Stays, RateLimited, ProbeTimesOut, AnsweredLate, GoesQuiet,
         Refuse, handler
    <2> QED
      BY <2>1, <2>2
  <1>2. CASE Register(c)
    <2>1. CASE Lookup(c) \/ Limit(c)
      BY <2>1 DEF GetsOn
    <2>2. CASE Probe(c)
      BY <2>2 DEF GetsOn, Probe, Refuse, Deciding
    <2>3. CASE Admit(c)
      BY <2>3 DEF GetsOn, Admit, Install, Refuse, Deciding
    <2>4. CASE Reprobe(c)
      BY <2>4 DEF GetsOn, Reprobe, Refuse, Deciding
    <2>5. CASE Readmit(c)
      BY <2>5 DEF GetsOn, Readmit, Install, Refuse, Deciding
    <2>6. CASE NeverArrives(c) \/ Evict(c) \/ ReplyOk(c) \/ ReplyFails(c)
               \/ Deregister(c)
      BY <2>6 DEF GetsOn, Deciding, NeverArrives, Evict, ReplyOk, ReplyFails, Deregister
    <2>7. CASE Unanswered(c)
      BY <2>7 DEF GetsOn, Stays, Unanswered, handler
    <2> QED
      BY <1>2, <2>1, <2>2, <2>3, <2>4, <2>5, <2>6, <2>7 DEF Register
  <1>3. CASE RateLimited(c)
    BY <1>3 DEF GetsOn, RateLimited, Refuse, Deciding
  <1>4. CASE ProbeTimesOut(c) \/ AnsweredLate(c)
    BY <1>4 DEF ProbeTimesOut, AnsweredLate, Fault
  <1>5. CASE GoesQuiet(c)
    BY <1>5 DEF GetsOn, Stays, GoesQuiet, handler
  <1>6. ASSUME NEW h \in Holder,
               Hold(h) \/ Serve(h) \/ GivesUp(h) \/ PongLate(h) \/ Cancel(h) \/ Crash(h)
        PROVE GetsOn(c)
    <2>1. CASE Dial(h)
      BY <2>1 DEF GetsOn, Stays, Deciding, Dial
    <2>2. CASE ~Dial(h)
      BY <1>6, <2>2 DEF GetsOn, Stays, Hold, DialCancelled, Registered, Refused,
         TryAgain, PumpEnds, NoPong, CloseCtrl, Serve, GivesUp, PongLate, Cancel,
         Crash, handler
    <2> QED
      BY <2>1, <2>2
  <1>7. CASE RelayRestarts
    BY <1>7 DEF GetsOn, Deciding, RelayRestarts
  <1>8. CASE UNCHANGED vars
    BY <1>8 DEF GetsOn, Stays, vars, handler
  <1> QED
    BY <1>1, <1>2, <1>3, <1>4, <1>5, <1>6, <1>7, <1>8 DEF Next, GetsOn

\* While answers come in time, a probe that fails has found a corpse.
LEMMA DeadStep ==
  ASSUME "slow" \notin Faults
  PROVE DeadInv /\ [Next]_vars => DeadInv'
PROOF
  <1> SUFFICES ASSUME DeadInv, [Next]_vars, NEW c \in Conn PROVE DeadFor(c)'
    BY NextTypeOK DEF DeadInv, ProbedDead
  <1>t. TypeOK /\ TypeOK'
    BY NextTypeOK DEF DeadInv
  <1>d. \A d \in Conn : (old[c] = d \/ cur[c] = d) /\ ~Answers(d) => ~Answers(d)'
    BY <1>t, NamedStaysDead
  <1>n. old[c] \in Conn \cup {NoConn} /\ cur[c] \in Conn \cup {NoConn}
    BY <1>t DEF TypeOK
  <1>k. KeyAt(c) \in Key
    BY <1>t, RegistrationAssumption DEF KeyAt, TypeOK
  <1>i. DeadFor(c)
    BY DEF DeadInv, ProbedDead, DeadFor
  <1>1. CASE stage'[c] \notin Deciding
    BY <1>1 DEF DeadFor, Deciding
  <1>2. CASE Stays(c)
    BY <1>2, <1>d, <1>n, <1>i DEF DeadFor, Stays
  <1>3. CASE Lookup(c)
    <2>1. stage'[c] = IF old'[c] = NoConn THEN "limit" ELSE "probe"
      BY <1>t, <1>3 DEF Lookup, GoOn, TypeOK
    <2> QED
      BY <2>1 DEF DeadFor
  <1>4. CASE Probe(c) /\ ~Answers(old[c])
    <2>1. stage'[c] = "limit" /\ old'[c] = old[c]
      BY <1>t, <1>4 DEF Probe, GoOn, TypeOK
    <2> QED
      BY <1>4, <1>d, <1>n, <2>1 DEF DeadFor
  <1>5. CASE Limit(c)
    <2>1. stage[c] = "limit" /\ stage'[c] = "admit" /\ old'[c] = old[c]
      BY <1>t, <1>5 DEF Limit, GoOn, TypeOK
    <2> QED
      BY <1>d, <1>n, <1>i, <2>1 DEF DeadFor
  <1>6. CASE Admit(c) /\ Contested(c)
    <2>1. stage'[c] = "reprobe" /\ cur'[c] # NoConn
      BY <1>t, <1>6 DEF Admit, Contested, GoOn, TypeOK
    <2> QED
      BY <2>1 DEF DeadFor
  <1>7. CASE Reprobe(c) /\ ~Answers(cur[c])
    <2>1. stage[c] = "reprobe" /\ stage'[c] = "readmit" /\ cur'[c] = cur[c]
      BY <1>t, <1>7 DEF Reprobe, GoOn, TypeOK
    <2> QED
      BY <1>7, <1>d, <1>n, <1>i, <2>1 DEF DeadFor
  <1> QED
    BY <1>t, <1>1, <1>2, <1>3, <1>4, <1>5, <1>6, <1>7, HandlersGetOn DEF GetsOn

\* What leaves the table has been found dead, or its connection has ended.
LEMMA DisplacedIsDead ==
  ASSUME DeadInv, DeadInv', [Next]_vars, NEW k \in Key, NEW c \in Conn,
         table[k] = c, Answers(c), Answers(c)'
  PROVE table'[k] = c
PROOF
  <1> USE DEF DeadInv, TypeOK
  <1>c. c # NoConn
    BY RegistrationAssumption DEF Conn
  <1>k. \A e \in Conn : KeyAt(e) \in Key
    BY RegistrationAssumption DEF KeyAt
  <1>1. ASSUME NEW e \in Conn, Admit(e) PROVE table'[k] = c
    <2>1. DeadFor(e)
      BY DEF ProbedDead, DeadFor
    <2>2. stage[e] = "admit"
      BY <1>1 DEF Admit
    <2>3. KeyAt(e) = k => table[k] # old[e]
      BY <1>c, <2>1, <2>2 DEF DeadFor
    <2>4. KeyAt(e) = k => Contested(e)
      BY <1>c, <2>3 DEF Contested
    <2> QED
      BY <1>1, <1>k, <2>4 DEF Admit, Install, Refuse, relay
  <1>2. ASSUME NEW e \in Conn, Readmit(e) PROVE table'[k] = c
    <2>1. DeadFor(e)
      BY DEF ProbedDead, DeadFor
    <2>2. KeyAt(e) = k => table[k] \notin {NoConn, cur[e]}
      BY <1>2, <1>c, <2>1 DEF DeadFor, Readmit
    <2> QED
      BY <1>2, <1>k, <2>2 DEF Readmit, Install, Refuse, relay
  <1>3. ASSUME NEW e \in Conn, Deregister(e) PROVE table'[k] = c
    BY <1>3 DEF Deregister, RelaySeesEnd, Answers
  <1>4. CASE RelayRestarts
    BY <1>4 DEF RelayRestarts, Answers
  <1>5. ASSUME NEW e \in Conn, ~Admit(e), ~Readmit(e), ~Deregister(e),
               Register(e) \/ RateLimited(e) \/ ProbeTimesOut(e)
               \/ AnsweredLate(e) \/ GoesQuiet(e)
        PROVE table'[k] = c
    BY <1>5 DEF Register, Lookup, NeverArrives, Probe, Limit, Reprobe, Evict,
       ReplyOk, ReplyFails, Unanswered, RateLimited, ProbeTimesOut, AnsweredLate,
       GoesQuiet, Refuse, relay
  <1>6. ASSUME NEW h \in Holder,
               Hold(h) \/ Serve(h) \/ GivesUp(h) \/ PongLate(h) \/ Cancel(h) \/ Crash(h)
        PROVE table'[k] = c
    BY <1>6 DEF Hold, Dial, DialCancelled, Registered, Refused, TryAgain,
       PumpEnds, NoPong, CloseCtrl, Serve, GivesUp, PongLate, Cancel, Crash, relay
  <1>7. CASE UNCHANGED vars
    BY <1>7 DEF vars, relay
  <1> QED
    BY <1>1, <1>2, <1>3, <1>4, <1>5, <1>6, <1>7 DEF Next

\* As long as a live holder's pong is not late, however many registrations
\* race, die and lose links, a tunnel that answers is never displaced.
THEOREM LiveTunnelIsKept ==
  ASSUME "slow" \notin Faults
  PROVE Spec => LiveTunnelStays
PROOF
  <1>1. Init => DeadInv
    BY InitTypeOK DEF Init, DeadInv, ProbedDead, DeadFor
  <1>2. DeadInv /\ DeadInv' /\ [Next]_vars =>
          [\A k \in Key, c \in Conn :
             table[k] = c /\ Answers(c) /\ Answers(c)' => table'[k] = c]_vars
    BY DisplacedIsDead
  <1> QED
    BY <1>1, <1>2, DeadStep, PTL DEF Spec, LiveTunnelStays

-----------------------------------------------------------------------------
\* What a holder has left behind is closed at its end: only the connection it is
\* on is open there.
OwnLine ==
  /\ \A c \in Conn : near[c] => line[by[c]] = c
  /\ \A h \in Holder : run[h] \in {"idle", "dialing", "stopped"} => line[h] = NoConn

\* A connection that is not yet let in is nobody's tunnel.
NotYet == Deciding \cup {"arriving"}
OutsideTheTable ==
  \A c \in Conn : stage[c] \in NotYet => \A k \in Key : table[k] # c

\* What a handler is about to probe is in the slot, or does not answer any more.
ProbesTheSlot ==
  \A c \in Conn :
    /\ stage[c] = "probe" => table[KeyAt(c)] = old[c] \/ ~Answers(old[c])
    /\ stage[c] = "reprobe" => table[KeyAt(c)] = cur[c] \/ ~Answers(cur[c])

BusyInv == DeadInv /\ OwnLine /\ OutsideTheTable /\ ProbesTheSlot

\* Where a handler decides, its connection was dialled by the same holder before.
LEMMA SameDialler ==
  ASSUME TypeOK, [Next]_vars, NEW c \in Conn, stage[c] # "none"
  PROVE  by'[c] = by[c]
PROOF
  <1>1. CASE \E h \in Holder : Dial(h)
    BY <1>1 DEF Dial, Unused, TypeOK
  <1>2. CASE \E e \in Conn : Register(e) \/ RateLimited(e) \/ ProbeTimesOut(e)
                             \/ AnsweredLate(e) \/ GoesQuiet(e)
    BY <1>2 DEF Register, Lookup, NeverArrives, Probe, Limit, Admit, Reprobe, Readmit,
       Evict, ReplyOk, ReplyFails, Deregister, Unanswered, RateLimited, ProbeTimesOut,
       AnsweredLate, GoesQuiet, Refuse, Install, wire
  <1>3. CASE \E h \in Holder : (Hold(h) /\ ~Dial(h)) \/ Serve(h) \/ GivesUp(h)
                               \/ PongLate(h) \/ Cancel(h) \/ Crash(h)
    BY <1>3 DEF Hold, DialCancelled, Registered, Refused, TryAgain, PumpEnds, NoPong,
       CloseCtrl, Serve, GivesUp, PongLate, Cancel, Crash, wire
  <1>4. CASE RelayRestarts \/ UNCHANGED vars
    BY <1>4 DEF RelayRestarts, vars, wire
  <1> QED
    BY <1>1, <1>2, <1>3, <1>4 DEF Next

\* A holder closes its end before it dials again.
LEMMA OwnLineStep == TypeOK /\ OwnLine /\ [Next]_vars => OwnLine'
PROOF
  <1> SUFFICES ASSUME TypeOK, OwnLine, [Next]_vars PROVE OwnLine'
    OBVIOUS
  <1> USE DEF TypeOK
  <1>1. CASE (\E e \in Conn : Register(e) \/ RateLimited(e) \/ ProbeTimesOut(e)
                              \/ AnsweredLate(e) \/ GoesQuiet(e))
             \/ RelayRestarts \/ UNCHANGED vars
    <2>1. UNCHANGED <<by, near, run, line>>
      BY <1>1 DEF Register, Lookup, NeverArrives, Probe, Limit, Admit, Reprobe, Readmit,
         Evict, ReplyOk, ReplyFails, Deregister, Unanswered, RateLimited, ProbeTimesOut,
         AnsweredLate, GoesQuiet, Refuse, Install, RelayRestarts, vars, wire, holder
    <2> QED
      BY <2>1 DEF OwnLine
  <1>2. ASSUME NEW h \in Holder, Dial(h) PROVE OwnLine'
    <2>1. PICK c \in Unused :
            /\ by' = [by EXCEPT ![c] = h] /\ near' = [near EXCEPT ![c] = TRUE]
            /\ line' = [line EXCEPT ![h] = c]
      BY <1>2 DEF Dial
    <2>2. c \in Conn /\ line[h] = NoConn /\ run' = [run EXCEPT ![h] = "awaiting"]
      BY <1>2 DEF Dial, Unused, OwnLine
    <2>3. \A d \in Conn : d # NoConn
      BY RegistrationAssumption DEF Conn
    <2> QED
      BY <2>1, <2>2, <2>3 DEF OwnLine
  <1>3. ASSUME NEW h \in Holder, TryAgain(h) PROVE OwnLine'
    BY <1>3 DEF TryAgain, OwnLine
  <1>4. ASSUME NEW h \in Holder, PumpEnds(h) PROVE OwnLine'
    BY <1>4 DEF PumpEnds, OwnLine
  <1>5. ASSUME NEW h \in Holder, Crash(h) PROVE OwnLine'
    BY <1>5 DEF Crash, OwnLine
  <1>6. ASSUME NEW h \in Holder, \/ DialCancelled(h) \/ Registered(h) \/ NoPong(h)
                                 \/ CloseCtrl(h) \/ Serve(h) \/ PongLate(h) \/ Cancel(h)
        PROVE OwnLine'
    <2>1. UNCHANGED <<by, line>>
      BY <1>6 DEF DialCancelled, Registered, NoPong, CloseCtrl, Serve, PongLate, Cancel,
         wire, holder
    <2>2. \A c \in Conn : near'[c] => near[c]
      BY <1>6 DEF DialCancelled, Registered, NoPong, CloseCtrl, Serve, PongLate, Cancel, wire
    <2>3. \A g \in Holder : run'[g] \in {"idle", "dialing", "stopped"} =>
                            run[g] \in {"idle", "dialing", "stopped"}
      BY <1>6 DEF DialCancelled, Registered, NoPong, CloseCtrl, Serve, PongLate, Cancel,
         wire, holder
    <2> QED
      BY <2>1, <2>2, <2>3 DEF OwnLine
  <1> QED
    BY <1>1, <1>2, <1>3, <1>4, <1>5, <1>6 DEF Next, Hold, Refused, GivesUp

\* Only an installation puts a connection into the table.
LEMMA OutsideStep == TypeOK /\ OutsideTheTable /\ [Next]_vars => OutsideTheTable'
PROOF
  <1> SUFFICES ASSUME TypeOK, OutsideTheTable, [Next]_vars, NEW c \in Conn,
                      stage'[c] \in NotYet, NEW k \in Key
               PROVE  table'[k] # c
    BY DEF OutsideTheTable
  <1> USE DEF TypeOK, GoOn, NotYet, Deciding
  <1>c. c # NoConn
    BY RegistrationAssumption DEF Conn
  <1>k. \A e \in Conn : KeyAt(e) \in Key
    BY RegistrationAssumption DEF KeyAt
  <1>1. ASSUME NEW e \in Conn, Admit(e) \/ Readmit(e) PROVE table'[k] # c
    <2>1. stage[e] \in {"admit", "readmit"}
      BY <1>1 DEF Admit, Readmit
    <2>2. CASE table' = table
      <3>1. stage[c] \in NotYet
        BY <1>1, <2>1 DEF Admit, Readmit, Install, Refuse
      <3> QED
        BY <2>2, <3>1 DEF OutsideTheTable
    <2>3. CASE table' # table
      <3>1. table' = [table EXCEPT ![KeyAt(e)] = e] /\ stage' = [stage EXCEPT ![e] = "evict"]
        BY <1>1, <2>3 DEF Admit, Readmit, Install, Refuse, relay
      <3>2. e # c /\ stage[c] \in NotYet
        BY <3>1
      <3> QED
        BY <1>k, <3>1, <3>2 DEF OutsideTheTable
    <2> QED
      BY <2>2, <2>3
  <1>2. ASSUME NEW e \in Conn, ~Admit(e), ~Readmit(e),
               Register(e) \/ RateLimited(e) \/ ProbeTimesOut(e)
               \/ AnsweredLate(e) \/ GoesQuiet(e)
        PROVE table'[k] # c
    <2>1. stage[c] \in NotYet
      BY <1>2 DEF Register, Lookup, NeverArrives, Probe, Limit, Reprobe, Evict, ReplyOk,
         ReplyFails, Deregister, Unanswered, RateLimited, ProbeTimesOut, AnsweredLate,
         GoesQuiet, Refuse, handler
    <2>2. table'[k] \in {NoConn, table[k]}
      BY <1>2 DEF Register, Lookup, NeverArrives, Probe, Limit, Reprobe, Evict, ReplyOk,
         ReplyFails, Deregister, Unanswered, RateLimited, ProbeTimesOut, AnsweredLate,
         GoesQuiet, Refuse, relay
    <2> QED
      BY <1>c, <2>1, <2>2 DEF OutsideTheTable
  <1>3. ASSUME NEW h \in Holder, Dial(h) PROVE table'[k] # c
    <2>1. c \in Unused \/ stage'[c] = stage[c]
      BY <1>3 DEF Dial
    <2> QED
      BY <1>3, <2>1 DEF Dial, Unused, OutsideTheTable, relay
  <1>4. ASSUME NEW h \in Holder,
               \/ Hold(h) /\ ~Dial(h)
               \/ Serve(h) \/ GivesUp(h) \/ PongLate(h) \/ Cancel(h) \/ Crash(h)
        PROVE table'[k] # c
    <2>1. UNCHANGED <<stage, table>>
      BY <1>4 DEF Hold, DialCancelled, Registered, Refused, TryAgain, PumpEnds, NoPong,
         CloseCtrl, Serve, GivesUp, PongLate, Cancel, Crash, relay, handler
    <2> QED
      BY <2>1 DEF OutsideTheTable
  <1>5. CASE RelayRestarts
    BY <1>5 DEF RelayRestarts
  <1>6. CASE UNCHANGED vars
    BY <1>6 DEF OutsideTheTable, vars, relay, handler
  <1> QED
    BY <1>1, <1>2, <1>3, <1>4, <1>5, <1>6 DEF Next

\* What is in the slot answers until it leaves it, and what has left it never does.
LEMMA ProbesStep ==
  ASSUME "slow" \notin Faults, DeadInv, DeadInv', ProbesTheSlot, [Next]_vars
  PROVE  ProbesTheSlot'
PROOF
  <1> SUFFICES ASSUME NEW c \in Conn
               PROVE (/\ stage[c] = "probe" => table[KeyAt(c)] = old[c] \/ ~Answers(old[c])
                      /\ stage[c] = "reprobe" => table[KeyAt(c)] = cur[c] \/ ~Answers(cur[c]))'
    BY DEF ProbesTheSlot
  <1>t. TypeOK
    BY DEF DeadInv
  <1>k. KeyAt(c) \in Key /\ (stage[c] # "none" => KeyAt(c)' = KeyAt(c))
    BY <1>t, SameDialler, RegistrationAssumption DEF KeyAt, TypeOK
  <1>1. CASE stage'[c] \notin {"probe", "reprobe"}
    BY <1>1
  <1>2. CASE Stays(c) /\ stage[c] \in {"probe", "reprobe"}
    <2>1. PICK x \in Conn : \/ stage[c] = "probe" /\ x = old[c]
                            \/ stage[c] = "reprobe" /\ x = cur[c]
      BY <1>t, <1>2 DEF DeadInv, ProbedDead, DeadFor, TypeOK
    <2>2. table[KeyAt(c)] = x \/ ~Answers(x)
      BY <2>1 DEF ProbesTheSlot
    <2>3. table'[KeyAt(c)] = x \/ ~Answers(x)'
      <3>1. CASE ~Answers(x)
        BY <1>t, <2>1, <3>1, NamedStaysDead
      <3>2. CASE Answers(x)
        BY <1>k, <2>2, <3>2, DisplacedIsDead
      <3> QED BY <3>1, <3>2
    <2> QED
      BY <1>k, <1>2, <2>1, <2>3 DEF Stays, Answers
  <1>3. CASE Lookup(c)
    BY <1>t, <1>k, <1>3 DEF Lookup, GoOn, TypeOK, relay
  <1>4. CASE Admit(c) /\ Contested(c)
    BY <1>t, <1>k, <1>4 DEF Admit, GoOn, TypeOK, relay
  <1>5. CASE (Probe(c) /\ ~Answers(old[c])) \/ Limit(c) \/ (Reprobe(c) /\ ~Answers(cur[c]))
    BY <1>t, <1>5 DEF Probe, Limit, Reprobe, GoOn, TypeOK
  <1> QED
    BY <1>t, <1>1, <1>2, <1>3, <1>4, <1>5, HandlersGetOn DEF GetsOn, Stays, Deciding

\* A handler that ends while it probes, and not with the whole relay, has had an
\* answer.
LEMMA RefusedByAnAnswer ==
  ASSUME TypeOK, [Next]_vars, NEW c \in Conn, stage[c] \in {"probe", "reprobe"},
         stage'[c] = "none", ~RelayRestarts
  PROVE  \/ stage[c] = "probe" /\ Answers(old[c])
         \/ stage[c] = "reprobe" /\ Answers(cur[c])
PROOF
  <1> USE DEF TypeOK, GoOn
  <1>1. ASSUME NEW e \in Conn, e # c,
               Register(e) \/ RateLimited(e) \/ ProbeTimesOut(e)
               \/ AnsweredLate(e) \/ GoesQuiet(e)
        PROVE FALSE
    BY <1>1 DEF Register, Lookup, NeverArrives, Probe, Limit, Admit, Reprobe, Readmit,
       Evict, ReplyOk, ReplyFails, Deregister, Unanswered, RateLimited, ProbeTimesOut,
       AnsweredLate, GoesQuiet, Refuse, Install, handler
  <1>2. CASE Probe(c) \/ Reprobe(c)
    BY <1>2 DEF Probe, Reprobe
  <1>3. CASE \/ Register(c) /\ ~Probe(c) /\ ~Reprobe(c)
             \/ RateLimited(c) \/ ProbeTimesOut(c) \/ AnsweredLate(c) \/ GoesQuiet(c)
    BY <1>3 DEF Register, Lookup, NeverArrives, Limit, Admit, Readmit, Evict, ReplyOk,
       ReplyFails, Deregister, Unanswered, RateLimited, ProbeTimesOut, AnsweredLate,
       GoesQuiet, handler
  <1>4. ASSUME NEW h \in Holder,
               Hold(h) \/ Serve(h) \/ GivesUp(h) \/ PongLate(h) \/ Cancel(h) \/ Crash(h)
        PROVE FALSE
    <2>1. stage'[c] \in {stage[c], "arriving"}
      BY <1>4 DEF Hold, Dial, DialCancelled, Registered, Refused, TryAgain, PumpEnds,
         NoPong, CloseCtrl, Serve, GivesUp, PongLate, Cancel, Crash, handler
    <2> QED BY <2>1
  <1>5. CASE UNCHANGED vars
    BY <1>5 DEF vars, handler
  <1> QED
    BY <1>1, <1>2, <1>3, <1>4, <1>5 DEF Next

\* A reconnect is refused only for a tunnel that answers, and what its holder has
\* left behind does not: its own end of it is closed.
LEMMA BusyStep ==
  ASSUME BusyInv, [Next]_vars, NEW c \in Conn,
         stage[c] \in {"probe", "reprobe"}, stage'[c] = "none", table' = table,
         line[by[c]] = c, table[KeyAt(c)] # NoConn
  PROVE  by[table[KeyAt(c)]] # by[c]
PROOF
  <1>t. TypeOK
    BY DEF BusyInv, DeadInv
  <1>k. KeyAt(c) \in Key /\ table[KeyAt(c)] \in Conn
    BY <1>t, RegistrationAssumption DEF KeyAt, TypeOK
  <1>1. ~RelayRestarts
    BY <1>k, RegistrationAssumption DEF RelayRestarts
  <1>2. Answers(table[KeyAt(c)])
    BY <1>t, <1>1, RefusedByAnAnswer DEF BusyInv, ProbesTheSlot
  <1>3. table[KeyAt(c)] # c
    BY <1>k DEF BusyInv, OutsideTheTable, NotYet, Deciding
  <1> QED
    BY <1>k, <1>2, <1>3 DEF BusyInv, OwnLine, Answers

\* As long as no answer is late, a holder that reconnects is never refused for
\* what is left of its own tunnel, whoever races, dies or restarts meanwhile.
THEOREM OwnCorpseIsNoObstacle ==
  ASSUME "slow" \notin Faults
  PROVE  Spec => BusyMeansSomebodyElse
PROOF
  <1>1. Init => BusyInv
    <2>1. Init => DeadInv
      BY InitTypeOK DEF Init, DeadInv, ProbedDead, DeadFor
    <2>2. Init => OwnLine /\ OutsideTheTable /\ ProbesTheSlot
      BY DEF Init, OwnLine, OutsideTheTable, ProbesTheSlot, NotYet, Deciding
    <2> QED
      BY <2>1, <2>2 DEF BusyInv
  <1>2. BusyInv /\ [Next]_vars => BusyInv'
    <2> SUFFICES ASSUME BusyInv, [Next]_vars PROVE BusyInv'
      OBVIOUS
    <2>1. TypeOK /\ DeadInv /\ DeadInv'
      BY DeadStep DEF BusyInv, DeadInv
    <2>2. OwnLine' /\ OutsideTheTable'
      BY <2>1, OwnLineStep, OutsideStep DEF BusyInv
    <2>3. ProbesTheSlot'
      BY <2>1, ProbesStep DEF BusyInv
    <2> QED
      BY <2>1, <2>2, <2>3 DEF BusyInv
  <1>3. BusyInv /\ [Next]_vars =>
          [\A c \in Conn :
             /\ stage[c] \in {"probe", "reprobe"} /\ stage'[c] = "none"
             /\ table' = table
             /\ run[by[c]] = "awaiting" /\ line[by[c]] = c
             /\ table[KeyAt(c)] # NoConn
             => by[table[KeyAt(c)]] # by[c]]_vars
    BY BusyStep
  <1> QED
    BY <1>1, <1>2, <1>3, PTL DEF Spec, BusyMeansSomebodyElse

=============================================================================
