---------------------------- MODULE MirrorProofs ----------------------------
(* That no announcement is lost between the stream and the next fetch, for   *)
(* any room in the channel and any cap on the folded events.                 *)
EXTENDS Mirror, SequenceTheorems, TLAPS

USE MirrorAssumption

\* The cut keeps the type and the bound, and something of what is not empty.
LEMMA LastOfLemma ==
  ASSUME NEW s \in Seq(News)
  PROVE  /\ LastOf(s) \in Seq(News) /\ Len(LastOf(s)) <= MaxFolded
         /\ s # <<>> => LastOf(s) # <<>>
<1>1. Len(s) \in Nat
  OBVIOUS
<1>2. CASE Len(s) > MaxFolded
  <2> DEFINE m == Len(s) - MaxFolded + 1
  <2>1. m \in 1 .. Len(s) /\ LastOf(s) = SubSeq(s, m, Len(s))
    BY <1>1, <1>2 DEF LastOf
  <2>2. LastOf(s) \in Seq(News) /\ Len(LastOf(s)) = MaxFolded
    BY <1>1, <1>2, <2>1, SubSeqProperties
  <2> QED BY <2>2
<1>3. CASE ~(Len(s) > MaxFolded)
  <2>1. LastOf(s) = SubSeq(s, 1, Len(s))
    BY <1>3 DEF LastOf
  <2>2. LastOf(s) = s
    BY <1>1, <2>1, SubSeqFull
  <2> QED BY <1>1, <1>3, <2>2
<1> QED BY <1>2, <1>3

\* What publish leaves in the channel has its type and bounds, and announces
\* something if the frame, or anything in the channel, did.
LEMMA PublishLemma ==
  ASSUME TypeOK, NEW events \in {<<>>} \cup {<<n>> : n \in News}
  PROVE  /\ Publish(events) \in Seq(Seq(News)) /\ Len(Publish(events)) <= ChanCap
         /\ \A i \in DOMAIN Publish(events) : Len(Publish(events)[i]) <= MaxFolded
         /\ (events # <<>> \/ \E i \in DOMAIN chan : chan[i] # <<>>)
              => \E i \in DOMAIN Publish(events) : Publish(events)[i] # <<>>
<1> DEFINE n == Len(chan)
           q == Publish(events)
<1>1. /\ chan \in Seq(Seq(News)) /\ n = Len(chan) /\ n \in Nat /\ n <= ChanCap
      /\ DOMAIN chan = 1 .. n
      /\ \A i \in 1 .. n : chan[i] \in Seq(News) /\ Len(chan[i]) <= MaxFolded
  BY DEF TypeOK
<1> HIDE DEF n
<1>2. events \in Seq(News) /\ Len(events) <= 1 /\ Len(events) \in Nat
  <2>1. CASE events = <<>>
    BY <2>1
  <2>2. ASSUME NEW e \in News, events = <<e>>
        PROVE  events \in Seq(News) /\ Len(events) <= 1 /\ Len(events) \in Nat
    BY <2>2
  <2>3. events = <<>> \/ \E e \in News : events = <<e>>
    OBVIOUS
  <2> QED BY <2>1, <2>2, <2>3, Zenon
<1> DEFINE Bounded == \A i \in DOMAIN q : Len(q[i]) <= MaxFolded
           Announced == events # <<>> \/ \E i \in DOMAIN chan : chan[i] # <<>>
           Announces == \E i \in DOMAIN q : q[i] # <<>>
<1> SUFFICES /\ q \in Seq(Seq(News)) /\ Len(q) <= ChanCap
             /\ Bounded /\ (Announced => Announces)
  OBVIOUS
<1>3. CASE n < ChanCap
  <2>1. q = Append(chan, events)
    BY <1>1, <1>3 DEF Publish
  <2>2. /\ q \in Seq(Seq(News)) /\ DOMAIN q = 1 .. (n + 1) /\ Len(q) = n + 1
        /\ q[n + 1] = events /\ \A i \in 1 .. n : q[i] = chan[i]
    BY <1>1, <1>2, <2>1
  <2> HIDE DEF q
  <2>3. Bounded
    <3> SUFFICES ASSUME NEW i \in DOMAIN q PROVE Len(q[i]) <= MaxFolded
      OBVIOUS
    <3>1. CASE i = n + 1
      BY <1>2, <2>2, <3>1
    <3>2. CASE i \in 1 .. n
      BY <1>1, <2>2, <3>2
    <3> QED BY <1>1, <2>2, <3>1, <3>2
  <2>4. ASSUME events # <<>> PROVE Announces
    BY <1>1, <2>2, <2>4
  <2>5. ASSUME NEW i \in DOMAIN chan, chan[i] # <<>> PROVE Announces
    BY <1>1, <2>2, <2>5
  <2>6. Announced => Announces
    <3> HIDE DEF Announces
    <3> QED BY <2>4, <2>5
  <2>7. q \in Seq(Seq(News)) /\ Len(q) <= ChanCap
    BY <1>1, <1>3, <2>2
  <2> HIDE DEF Bounded, Announced, Announces
  <2> QED BY <2>3, <2>6, <2>7
<1>4. CASE n = ChanCap
  <2> DEFINE old == Head(chan)
             all == LastOf(old \o events)
  <2>1. /\ chan # <<>> /\ n >= 1 /\ old = chan[1] /\ old \in Seq(News)
        /\ Tail(chan) \in Seq(Seq(News)) /\ Len(Tail(chan)) = n - 1
        /\ \A i \in 1 .. (n - 1) : Tail(chan)[i] = chan[i + 1]
    BY <1>1, <1>4, HeadTailProperties
  <2>2. /\ old \o events \in Seq(News)
        /\ old # <<>> \/ events # <<>> => old \o events # <<>>
    BY <1>2, <2>1, ConcatProperties
  <2>3. /\ all \in Seq(News) /\ Len(all) <= MaxFolded
        /\ old # <<>> \/ events # <<>> => all # <<>>
    BY <2>2, LastOfLemma
  <2>4. q = Append(Tail(chan), all)
    BY <1>1, <1>4 DEF Publish
  <2>5. /\ q \in Seq(Seq(News)) /\ Len(q) = n /\ DOMAIN q = 1 .. n
        /\ q[n] = all /\ \A i \in 1 .. (n - 1) : q[i] = chan[i + 1]
    BY <1>1, <2>1, <2>3, <2>4, AppendProperties
  <2> HIDE DEF q, all, old
  <2>6. Bounded
    <3> SUFFICES ASSUME NEW i \in DOMAIN q PROVE Len(q[i]) <= MaxFolded
      OBVIOUS
    <3>1. CASE i = n
      BY <2>3, <2>5, <3>1
    <3>2. CASE i \in 1 .. (n - 1)
      <4>1. i + 1 \in 1 .. n /\ q[i] = chan[i + 1]
        BY <1>1, <2>5, <3>2
      <4> QED BY <1>1, <4>1
    <3> QED BY <1>1, <2>1, <2>5, <3>1, <3>2
  <2>7. ASSUME events # <<>> PROVE Announces
    <3>1. n \in DOMAIN q /\ q[n] # <<>>
      BY <1>1, <2>1, <2>3, <2>5, <2>7
    <3> QED BY <3>1
  <2>8. ASSUME NEW i \in DOMAIN chan, chan[i] # <<>> PROVE Announces
    <3>0. i \in 1 .. n
      BY <1>1
    <3>1. CASE i = 1
      <4>1. n \in DOMAIN q /\ q[n] # <<>>
        BY <1>1, <2>1, <2>3, <2>5, <2>8, <3>1
      <4> QED BY <4>1
    <3>2. CASE i \in 2 .. n
      <4>1. i - 1 \in 1 .. (n - 1) /\ q[i - 1] = chan[i]
        BY <1>1, <2>1, <2>5, <3>2
      <4> QED BY <1>1, <2>5, <2>8, <4>1
    <3> QED BY <1>1, <3>0, <3>1, <3>2
  <2>9. Announced => Announces
    <3> HIDE DEF Announces
    <3> QED BY <2>7, <2>8
  <2>10. q \in Seq(Seq(News)) /\ Len(q) <= ChanCap
    BY <1>1, <1>4, <2>5
  <2> HIDE DEF Bounded, Announced, Announces
  <2> QED BY <2>6, <2>9, <2>10
<1> HIDE DEF q, Bounded, Announced, Announces
<1>5. n < ChanCap \/ n = ChanCap
  BY <1>1
<1> QED BY <1>3, <1>4, <1>5


-----------------------------------------------------------------------------
LEMMA InitTypeOK == Init => TypeOK
<1> SUFFICES ASSUME Init PROVE TypeOK
  OBVIOUS
<1>1. 1 \in Gen /\ 0 \in Main
  BY DEF Gen, Main
<1>2. <<published, 1>> \in Url /\ <<"at", 1>> \in Url
  BY <1>1 DEF Init, Url
<1>3. /\ wire \in Seq(Frame) /\ chan \in Seq(Seq(News)) /\ Len(chan) = 0
      /\ \A i \in DOMAIN chan : Len(chan[i]) <= MaxFolded
  BY DEF Init
<1>4. /\ at \in [Process -> {"out", "resolve", "probe", "work", "mirror", "save"}]
      /\ to \in [Process -> Url \X Gen]
      /\ prev \in [Process -> Url] /\ number \in [Process -> Nat]
      /\ head \in [Gen -> Main]
  BY <1>1, <1>2 DEF Init
<1>5. work \in Url /\ mirror \in Url /\ cursor \in Url \X Gen
  BY <1>1, <1>2 DEF Init
<1>6. 0 \in 0 .. SnapshotEvery - 1 /\ 0 \in 0 .. MaxFaults /\ 0 <= ChanCap /\ 1 \in Nat
  OBVIOUS
<1>7. reply = 0 /\ loop = "select" /\ cycles = 0 /\ spent = 0 /\ copy = 0
  BY DEF Init
<1> QED BY <1>1, <1>3, <1>4, <1>5, <1>6, <1>7 DEF Init, TypeOK

\* Where a process is sent is an address.
LEMMA TargetType ==
  ASSUME TypeOK, NEW p \in Process
  PROVE  Target(p) \in Url \X Gen /\ Target(p)[1] \in Url
<1>1. Sees(p) \in Gen
  BY DEF Sees, TypeOK
<1>2. number[p] \in Nat
  BY DEF TypeOK
<1>3. CASE published = "at"
  BY <1>1, <1>3 DEF Target, Url
<1>4. CASE published # "at"
  BY <1>1, <1>2, <1>4 DEF Target, Url
<1> QED BY <1>3, <1>4

\* The part of TypeOK that is about following.
PlaceOK ==
  /\ at \in [Process -> {"out", "resolve", "probe", "work", "mirror", "save"}]
  /\ to \in [Process -> Url \X Gen]
  /\ prev \in [Process -> Url]
  /\ loop \in {"down", "joining", "select", "woken", "tick", "fetch", "flush",
               "sent", "answered"}

\* A process that is done following is nowhere, and the mirror loop goes on.
LEMMA ReturnType ==
  ASSUME TypeOK, NEW p \in Process, NEW ok \in BOOLEAN, Return(p, ok)
  PROVE  PlaceOK' /\ (loop' = "answered" => loop = "answered")
<1>1. Nowhere \in Url /\ <<Nowhere, 1>> \in Url \X Gen
  BY DEF Nowhere, Url, Gen
<1>2. Afterwards(ok) \in {"fetch", "down", "select"}
  BY DEF Afterwards
<1> QED BY <1>1, <1>2 DEF Return, TypeOK, PlaceOK

LEMMA FaultType ==
  ASSUME TypeOK, NEW kind, Fault(kind)
  PROVE  spent' \in 0 .. MaxFaults
  BY DEF Fault, TypeOK


LEMMA FollowTypeOK ==
  ASSUME TypeOK, NEW p \in Process, Follow(p)
  PROVE  TypeOK'
<1>t. to[p] \in Url \X Gen /\ to[p][1] \in Url /\ prev[p] \in Url
  BY DEF TypeOK
<1>1. CASE Resolve(p)
  <2>1. CASE Return(p, TRUE)
    BY <1>1, <2>1, ReturnType DEF Resolve, PlaceOK, TypeOK, Unfollowed, session, client, process
  <2>2. CASE ~Return(p, TRUE)
    <3>1. /\ at' = [at EXCEPT ![p] = IF work = Target(p)[1] THEN "save" ELSE "probe"]
          /\ to' = [to EXCEPT ![p] = Target(p)]
          /\ prev' = [prev EXCEPT ![p] = work]
          /\ UNCHANGED <<loop, Unfollowed, watch, fetchNow, work, mirror, cursor, spent>>
      BY <1>1, <2>2 DEF Resolve
    <3> QED BY <3>1, TargetType DEF TypeOK, Unfollowed, session, client, process
  <2> QED BY <2>1, <2>2
<1>2. CASE NoAnswer(p)
  <2>1. spent' \in 0 .. MaxFaults /\ Return(p, FALSE)
    BY <1>2, FaultType DEF NoAnswer
  <2>2. PlaceOK' /\ (loop' = "answered" => loop = "answered")
    BY <2>1, ReturnType
  <2> QED BY <1>2, <2>1, <2>2 DEF NoAnswer, PlaceOK, TypeOK, Unfollowed, session, client, process
<1>3. CASE Probe(p)
  BY <1>3 DEF Probe, GoTo, TypeOK, Unfollowed, session, client, process
<1>4. CASE SetWork(p)
  <2>1. CASE GoTo(p, "mirror") /\ work' = to[p][1] /\ UNCHANGED spent
    BY <1>4, <1>t, <2>1 DEF SetWork, GoTo, TypeOK, Unfollowed, session, client, process
  <2>2. CASE Fault("git") /\ Return(p, FALSE) /\ UNCHANGED work
    <3>1. spent' \in 0 .. MaxFaults
      BY <2>2, FaultType
    <3>2. PlaceOK' /\ (loop' = "answered" => loop = "answered")
      BY <2>2, ReturnType
    <3> QED BY <1>4, <2>2, <3>1, <3>2 DEF SetWork, PlaceOK, TypeOK, Unfollowed, session, client, process
  <2> QED BY <1>4, <2>1, <2>2 DEF SetWork
<1>5. CASE SetMirror(p)
  <2>1. CASE GoTo(p, "save") /\ mirror' = to[p][1] /\ UNCHANGED <<work, spent>>
    BY <1>5, <1>t, <2>1 DEF SetMirror, GoTo, TypeOK, Unfollowed, session, client, process
  <2>2. CASE Fault("git") /\ Return(p, FALSE) /\ work' \in {prev[p], work} /\ UNCHANGED mirror
    <3>1. spent' \in 0 .. MaxFaults
      BY <2>2, FaultType
    <3>2. PlaceOK' /\ (loop' = "answered" => loop = "answered")
      BY <2>2, ReturnType
    <3> QED BY <1>5, <1>t, <2>2, <3>1, <3>2 DEF SetMirror, PlaceOK, TypeOK, Unfollowed, session, client, process
  <2> QED BY <1>5, <2>1, <2>2 DEF SetMirror
<1>6. CASE Save(p)
  <2>1. PlaceOK' /\ (loop' = "answered" => loop = "answered")
    BY <1>6, ReturnType DEF Save
  <2> QED BY <1>6, <1>t, <2>1 DEF Save, PlaceOK, TypeOK, Unfollowed, session, client, process
<1> QED BY <1>1, <1>2, <1>3, <1>4, <1>5, <1>6 DEF Follow

LEMMA ReadFrameTypeOK ==
  ASSUME TypeOK, ReadFrame
  PROVE  TypeOK'
<1>1. /\ wire \in Seq(Frame) /\ wire # <<>>
      /\ Head(wire) \in Frame /\ Tail(wire) \in Seq(Frame)
  BY HeadTailProperties DEF TypeOK, ReadFrame
<1>2. Head(wire).gen \in Gen /\ Head(wire).events \in {<<>>} \cup {<<n>> : n \in News}
  BY <1>1 DEF Frame
<1>3. /\ chan' \in Seq(Seq(News)) /\ Len(chan') <= ChanCap
      /\ \A i \in DOMAIN chan' : Len(chan'[i]) <= MaxFolded
  BY <1>2, PublishLemma DEF ReadFrame
<1>4. owed' \in BOOLEAN
  BY DEF ReadFrame
<1> QED BY <1>1, <1>2, <1>3, <1>4 DEF ReadFrame, TypeOK, session, daemon, follow, disk, process

\* The session and the stream.
LEMMA StreamTypeOK ==
  ASSUME TypeOK, \/ AdvanceMain \/ Cutover \/ Watching
  PROVE  TypeOK'
<1>p. ASSUME NEW f \in Frame, Push(f) PROVE wire' \in Seq(Frame)
  BY <1>p, AppendProperties DEF Push, TypeOK
<1>1. CASE AdvanceMain
  <2>1. head' \in [Gen -> Main]
    BY <1>1 DEF AdvanceMain, TypeOK, Main
  <2>2. [gen |-> gen, events |-> <<"main.advanced">>] \in Frame
    BY DEF Frame, News, TypeOK
  <2>3. wire' \in Seq(Frame) /\ spent' \in 0 .. MaxFaults
    BY <1>1, <1>p, <2>2, FaultType DEF AdvanceMain, TypeOK
  <2> QED BY <1>1, <2>1, <2>3 DEF AdvanceMain, TypeOK, client, daemon, follow, disk, process
<1>2. CASE Cutover
  <2>1. gen + 1 \in Gen /\ head' \in [Gen -> Main]
    BY <1>2 DEF Cutover, TypeOK, Gen
  <2>2. [gen |-> gen + 1, events |-> <<"host.cutover">>] \in Frame
    BY <2>1 DEF Frame, News
  <2>3. wire' \in Seq(Frame)
    BY <1>2, <1>p, <2>2 DEF Cutover
  <2> QED BY <1>2, <2>1, <2>3 DEF Cutover, TypeOK, client, daemon, follow, disk, process
<1>3. CASE Connect
  <2>1. [gen |-> gen, events |-> <<>>] \in Frame
    BY DEF Frame, TypeOK
  <2>2. wire' \in Seq(Frame)
    <3>1. CASE wire' = <<>>
      BY <3>1
    <3>2. CASE wire' = <<[gen |-> gen, events |-> <<>>]>>
      BY <2>1, <3>2
    <3> QED BY <1>3, <3>1, <3>2 DEF Connect
  <2> QED BY <1>3, <2>2 DEF Connect, TypeOK, session, client, daemon, follow, disk, process
<1>4. CASE RefuseStream
  BY <1>4, FaultType DEF RefuseStream, TypeOK, session, client, daemon, follow, disk, process
<1>5. CASE ReadFrame
  BY <1>5, ReadFrameTypeOK
<1>6. CASE Drop \/ DropSilent
  <2>1. spent' \in 0 .. MaxFaults /\ StreamEnds
    BY <1>6, FaultType DEF Drop, DropSilent, TypeOK
  <2>2. wire' \in Seq(Frame)
    BY <2>1 DEF StreamEnds
  <2> QED BY <2>1, <2>2 DEF StreamEnds, TypeOK, session, client, daemon, follow, disk, process
<1>7. CASE GoesBlack
  <2>1. spent' \in 0 .. MaxFaults /\ wire' \in Seq(Frame)
    BY <1>7, FaultType DEF GoesBlack
  <2> QED BY <1>7, <2>1 DEF GoesBlack, TypeOK, session, client, daemon, follow, disk, process
<1>8. CASE GoesSilent
  BY <1>8 DEF GoesSilent, TypeOK, session, client, daemon, follow, disk, process
<1> QED BY <1>1, <1>2, <1>3, <1>4, <1>5, <1>6, <1>7, <1>8 DEF Watching

\* The mirror loop.
LEMMA MirroringTypeOK ==
  ASSUME TypeOK, Mirroring
  PROVE  TypeOK'
<1>1. CASE Update
  <2>1. /\ chan # <<>> /\ chan \in Seq(Seq(News)) /\ chan' = Tail(chan)
        /\ \A i \in DOMAIN chan : Len(chan[i]) <= MaxFolded
        /\ Len(chan) <= ChanCap /\ DOMAIN chan = 1 .. Len(chan)
    BY <1>1 DEF Update, TypeOK
  <2>2. /\ chan' \in Seq(Seq(News)) /\ Len(chan') = Len(chan) - 1
        /\ DOMAIN chan' = 1 .. (Len(chan) - 1)
        /\ \A i \in 1 .. (Len(chan) - 1) : chan'[i] = chan[i + 1] /\ i + 1 \in DOMAIN chan
    BY <2>1, HeadTailProperties
  <2>3. /\ Len(chan') <= ChanCap
        /\ \A i \in DOMAIN chan' : Len(chan'[i]) <= MaxFolded
    BY <2>1, <2>2
  <2>4. fetchNow' \in BOOLEAN
    BY <1>1 DEF Update
  <2>5. loop' \in {"woken", "select"} /\ at' \in {at, [at EXCEPT !["daemon"] = "resolve"]}
    BY <1>1 DEF Update
  <2> QED BY <1>1, <2>2, <2>3, <2>4, <2>5 DEF Update, TypeOK, session, stream, disk, process
<1>2. CASE FloorFires
  BY <1>2 DEF FloorFires, TypeOK, session, stream, client, follow, disk, process
<1>3. CASE FloorWakes
  BY <1>3 DEF FloorWakes, TypeOK, session, stream, client, follow, disk, process
<1>4. CASE Tick
  BY <1>4 DEF Tick, TypeOK, session, stream, client, disk, process
<1>5. CASE SkipFetch
  BY <1>5 DEF SkipFetch, TypeOK, session, stream, client, follow, disk, process
<1>6. CASE Fetch
  <2>1. ASSUME Reaches(mirror) PROVE MainAt(mirror) \in Main
    <3>1. CASE mirror[1] = "at"
      BY <3>1 DEF TypeOK, MainAt, Url
    <3>2. CASE mirror[1] # "at"
      BY <3>2 DEF TypeOK, MainAt
    <3> QED BY <3>1, <3>2
  <2>2. copy' \in Main /\ spent' \in 0 .. MaxFaults
    BY <1>6, <2>1, FaultType DEF Fetch, TypeOK
  <2>3. owed' \in BOOLEAN
    BY <1>6 DEF Fetch
  <2> QED BY <1>6, <2>2, <2>3 DEF Fetch, TypeOK, session, stream, client, follow, process
<1>7. CASE Flush
  <2>1. (cycles + 1) % SnapshotEvery \in 0 .. SnapshotEvery - 1
    BY DEF TypeOK
  <2> QED BY <1>7, <2>1 DEF Flush, TypeOK, session, stream, client, follow, disk, process
<1>8. CASE Answer
  BY <1>8, FaultType DEF Answer, TypeOK, session, stream, client, follow, disk, process
<1>9. CASE Apply
  BY <1>9 DEF Apply, TypeOK, session, stream, follow, disk, process
<1> QED BY <1>1, <1>2, <1>3, <1>4, <1>5, <1>6, <1>7, <1>8, <1>9 DEF Mirroring

\* Processes start and die.
LEMMA ProcessTypeOK ==
  ASSUME TypeOK, \/ Command \/ CrashCommand \/ CrashDaemon \/ Rejoin
  PROVE  TypeOK'
<1>1. CASE Command
  <2>1. spent' \in 0 .. MaxFaults
    BY <1>1, FaultType DEF Command
  <2> QED BY <1>1, <2>1 DEF Command, Process, TypeOK, session, stream, client, daemon, disk
<1>2. CASE CrashCommand
  <2>1. spent' \in 0 .. MaxFaults /\ Return("command", FALSE) /\ "command" \in Process
    BY <1>2 DEF CrashCommand, Process, TypeOK
  <2>2. PlaceOK' /\ (loop' = "answered" => loop = "answered")
    BY <2>1, ReturnType
  <2> QED BY <1>2, <2>1, <2>2 DEF CrashCommand, PlaceOK, TypeOK, session, stream, client, disk, process
<1>3. CASE CrashDaemon
  <2>1. Nowhere \in Url /\ <<Nowhere, 1>> \in Url \X Gen
    BY DEF Nowhere, Url, Gen
  <2>2. /\ wire' \in Seq(Frame) /\ chan' \in Seq(Seq(News)) /\ Len(chan') = 0
        /\ \A i \in DOMAIN chan' : Len(chan'[i]) <= MaxFolded
    BY <1>3 DEF CrashDaemon
  <2>3. spent' \in 0 .. MaxFaults
    BY <1>3, FaultType DEF CrashDaemon
  <2>4. cycles' \in 0 .. SnapshotEvery - 1 /\ Len(chan') <= ChanCap
    BY <1>3, <2>2 DEF CrashDaemon
  <2>5. to' \in [Process -> Url \X Gen] /\ prev' \in [Process -> Url]
    BY <1>3, <2>1 DEF CrashDaemon, TypeOK
  <2> QED BY <1>3, <2>2, <2>3, <2>4, <2>5 DEF CrashDaemon, TypeOK, session, disk, process
<1>4. CASE Rejoin
  BY <1>4 DEF Rejoin, Process, TypeOK, session, stream, disk
<1> QED BY <1>1, <1>2, <1>3, <1>4

\* Every variable of a joined machine keeps its type: a channel never holds more
\* than its room, nor a frame more than the folded events.
THEOREM MirrorTypeCorrect == Spec => []TypeOK
<1>1. Init => TypeOK
  BY InitTypeOK
<1>2. TypeOK /\ [Next]_vars => TypeOK'
  <2> SUFFICES ASSUME TypeOK, [Next]_vars PROVE TypeOK'
    OBVIOUS
  <2>1. CASE UNCHANGED vars
    BY <2>1 DEF vars, TypeOK, session, stream, client, daemon, follow, disk, process
  <2>2. CASE AdvanceMain \/ Cutover \/ Watching
    BY <2>2, StreamTypeOK
  <2>3. CASE Mirroring
    BY <2>3, MirroringTypeOK
  <2>4. CASE \E p \in Process : Follow(p)
    BY <2>4, FollowTypeOK
  <2>5. CASE Command \/ CrashCommand \/ CrashDaemon \/ Rejoin
    BY <2>5, ProcessTypeOK
  <2> QED BY <2>1, <2>2, <2>3, <2>4, <2>5 DEF Next
<1> QED BY <1>1, <1>2, PTL DEF Spec

-----------------------------------------------------------------------------
\* No step forgets an announcement.
LEMMA NoticeStep ==
  ASSUME TypeOK, NoticeIsKept, [Next]_vars
  PROVE  NoticeIsKept'
<1>1. CASE UNCHANGED <<owed, chan>> /\ (fetchNow => fetchNow')
  BY <1>1 DEF NoticeIsKept
<1>2. CASE ReadFrame
  <2>1. Head(wire).events \in {<<>>} \cup {<<n>> : n \in News}
    <3>1. Head(wire) \in Frame
      BY <1>2, HeadTailProperties DEF TypeOK, ReadFrame
    <3> QED BY <3>1 DEF Frame
  <2>2. chan' = Publish(Head(wire).events) /\ fetchNow' = fetchNow
        /\ owed' = (owed \/ Head(wire).events # <<>>)
    BY <1>2 DEF ReadFrame, daemon
  <2>3. (Head(wire).events # <<>> \/ \E i \in DOMAIN chan : chan[i] # <<>>)
          => \E i \in DOMAIN chan' : chan'[i] # <<>>
    BY <2>1, <2>2, PublishLemma
  <2> QED BY <2>2, <2>3 DEF NoticeIsKept
<1>3. CASE Update
  <2>1. /\ chan # <<>> /\ chan' = Tail(chan) /\ owed' = owed
        /\ fetchNow' = (fetchNow \/ Head(chan) # <<>>)
    BY <1>3 DEF Update
  <2>2. /\ Head(chan) = chan[1] /\ Len(chan) \in Nat \ {0}
        /\ DOMAIN chan = 1 .. Len(chan)
        /\ DOMAIN chan' = 1 .. (Len(chan) - 1)
        /\ \A i \in 1 .. (Len(chan) - 1) : chan'[i] = chan[i + 1]
    BY <2>1, HeadTailProperties DEF TypeOK
  <2>3. ASSUME NEW i \in DOMAIN chan, chan[i] # <<>>, i # 1
        PROVE  \E j \in DOMAIN chan' : chan'[j] # <<>>
    <3>1. i - 1 \in 1 .. (Len(chan) - 1) /\ chan'[i - 1] = chan[i]
      BY <2>2, <2>3
    <3> QED BY <2>2, <2>3, <3>1
  <2>4. ASSUME NEW i \in DOMAIN chan, chan[i] # <<>>
        PROVE  fetchNow' \/ \E j \in DOMAIN chan' : chan'[j] # <<>>
    BY <2>1, <2>2, <2>3, <2>4
  <2> QED BY <2>1, <2>4 DEF NoticeIsKept
<1>4. CASE Fetch
  BY <1>4 DEF Fetch, NoticeIsKept, client
<1>5. CASE CrashDaemon
  BY <1>5 DEF CrashDaemon, NoticeIsKept
<1>6. CASE UNCHANGED vars
  BY <1>1, <1>6 DEF vars, client, daemon
<1>7. CASE AdvanceMain \/ Cutover
  BY <1>1, <1>7 DEF AdvanceMain, Cutover, client, daemon
<1>8. CASE Connect \/ RefuseStream \/ Drop \/ GoesBlack \/ GoesSilent \/ DropSilent
  BY <1>1, <1>8 DEF Connect, RefuseStream, Drop, GoesBlack, GoesSilent, DropSilent, StreamEnds, client, daemon
<1>9. CASE FloorFires \/ FloorWakes \/ Tick \/ SkipFetch
  BY <1>1, <1>9 DEF FloorFires, FloorWakes, Tick, SkipFetch, client, daemon
<1>10. CASE Flush \/ Answer \/ Apply
  BY <1>1, <1>10 DEF Flush, Answer, Apply, client, daemon
<1>11. ASSUME NEW p \in Process, Follow(p) PROVE NoticeIsKept'
  BY <1>1, <1>11 DEF Follow, Resolve, NoAnswer, Probe, SetWork, SetMirror, Save, Unfollowed, client
<1>12. CASE Command \/ CrashCommand \/ Rejoin
  BY <1>1, <1>12 DEF Command, CrashCommand, Rejoin, client, daemon
<1> QED
  BY <1>2, <1>3, <1>4, <1>5, <1>6, <1>7, <1>8, <1>9, <1>10, <1>11, <1>12
  DEF Next, Watching, Mirroring

\* However frames, ticks and crashes fall, an announcement that was read leads
\* to a fetch (publish and mirrorLoop).
THEOREM NoticeReachesTheFetch == Spec => []NoticeIsKept
<1>1. Init => NoticeIsKept
  BY DEF Init, NoticeIsKept
<1>2. TypeOK /\ NoticeIsKept /\ [Next]_vars => NoticeIsKept'
  BY NoticeStep
<1> QED BY <1>1, <1>2, MirrorTypeCorrect, PTL DEF Spec
=============================================================================
