----------------------- MODULE SpeedTestTrafficProofs -----------------------
(***************************************************************************)
(* Theorems about SpeedTestTraffic for any number of directions, threads   *)
(* and frames: no frame of a test is counted twice or comes from nowhere,  *)
(* the loss shown is the loss there was, the compute thread empties its    *)
(* queue, and a test does not show the end of the one before.              *)
(***************************************************************************)
EXTENDS SpeedTestTraffic, SpeedTestProofs, FiniteSetTheorems, SequenceTheorems

-----------------------------------------------------------------------------
(* Counting frames.                                                        *)

LEMMA FramesCount ==
  ASSUME NEW S, NEW s \in Seq(S), NEW i
  PROVE  /\ IsFiniteSet({n \in DOMAIN s : s[n] = i}) /\ Frames(s, i) \in Nat
         /\ s = <<>> => Frames(s, i) = 0
<1>1. DOMAIN s = 1 .. Len(s) /\ Len(s) \in Nat
  OBVIOUS
<1>2. IsFiniteSet(1 .. Len(s))
  BY <1>1, FS_Interval
<1>3. {n \in DOMAIN s : s[n] = i} \subseteq 1 .. Len(s)
  BY <1>1
<1>4. IsFiniteSet({n \in DOMAIN s : s[n] = i})
  BY <1>2, <1>3, FS_Subset
<1>5. Frames(s, i) \in Nat
  BY <1>4, FS_CardinalityType DEF Frames
<1>6. s = <<>> => Frames(s, i) = 0
  <2> SUFFICES ASSUME s = <<>> PROVE {n \in DOMAIN s : s[n] = i} = {}
    BY FS_EmptySet DEF Frames
  <2> QED BY <1>1
<1> QED BY <1>4, <1>5, <1>6

LEMMA FramesAppend ==
  ASSUME NEW S, NEW s \in Seq(S), NEW x \in S, NEW i
  PROVE  Frames(Append(s, x), i) = Frames(s, i) + (IF x = i THEN 1 ELSE 0)
<1> DEFINE A == {n \in DOMAIN s : s[n] = i}
           B == {n \in DOMAIN Append(s, x) : Append(s, x)[n] = i}
<1>1. /\ DOMAIN Append(s, x) = 1 .. Len(s) + 1 /\ DOMAIN s = 1 .. Len(s) /\ Len(s) \in Nat
      /\ \A n \in 1 .. Len(s) : Append(s, x)[n] = s[n]
      /\ Append(s, x)[Len(s) + 1] = x
  OBVIOUS
<1>2. IsFiniteSet(A) /\ Frames(s, i) = Cardinality(A) /\ Frames(s, i) \in Nat
  BY FramesCount DEF Frames
<1>3. Frames(Append(s, x), i) = Cardinality(B)
  BY DEF Frames
<1>4. CASE x = i
  <2>1. B = A \cup {Len(s) + 1} /\ Len(s) + 1 \notin A
    BY <1>1, <1>4
  <2> HIDE DEF A, B
  <2>2. Cardinality(A \cup {Len(s) + 1}) = Cardinality(A) + 1
    BY <1>2, <2>1, FS_AddElement
  <2> QED BY <1>2, <1>3, <1>4, <2>1, <2>2
<1>5. CASE x # i
  <2>1. B = A
    BY <1>1, <1>5
  <2> HIDE DEF A, B
  <2> QED BY <1>2, <1>3, <1>5, <2>1
<1> QED BY <1>4, <1>5

LEMMA FramesTail ==
  ASSUME NEW S, NEW s \in Seq(S), s # <<>>, NEW i
  PROVE  Frames(s, i) = Frames(Tail(s), i) + (IF Head(s) = i THEN 1 ELSE 0)
<1> DEFINE A == {n \in DOMAIN Tail(s) : Tail(s)[n] = i}
           B == {n \in DOMAIN s : n # 1 /\ s[n] = i}
           C == {n \in DOMAIN s : s[n] = i}
           f == [n \in A |-> n + 1]
<1>1. /\ DOMAIN s = 1 .. Len(s) /\ DOMAIN Tail(s) = 1 .. Len(s) - 1 /\ Len(s) \in Nat /\ Len(s) > 0
      /\ \A n \in 1 .. Len(s) - 1 : Tail(s)[n] = s[n + 1]
      /\ Head(s) = s[1] /\ Tail(s) \in Seq(S)
  BY HeadTailProperties
<1>2. IsFiniteSet(A) /\ Frames(Tail(s), i) = Cardinality(A) /\ Cardinality(A) \in Nat
  BY <1>1, FramesCount DEF Frames
<1>3. IsFiniteSet(B) /\ Cardinality(B) = Cardinality(A)
  <2>1. f \in [A -> B]
    BY <1>1
  <2>2. \A m, n \in DOMAIN f : f[m] = f[n] => m = n
    BY <1>1
  <2>3. \A k \in B : \E n \in A : f[n] = k
    <3> TAKE k \in B
    <3>1. k - 1 \in A
      BY <1>1
    <3>2. f[k - 1] = k
      BY <1>1, <3>1
    <3> QED BY <3>1, <3>2
  <2>4. f \in Bijection(A, B)
    BY <2>1, <2>2, <2>3, Zenon DEF Bijection, Injection, Surjection, IsInjective
  <2> HIDE DEF A, B, f
  <2>5. ExistsBijection(A, B)
    BY <2>4 DEF ExistsBijection
  <2> QED BY <1>2, <2>5, FS_Bijection
<1>4. Frames(s, i) = Cardinality(C)
  BY DEF Frames
<1>5. CASE Head(s) = i
  <2>1. C = B \cup {1} /\ 1 \notin B
    BY <1>1, <1>5
  <2> HIDE DEF A, B, C
  <2>2. Cardinality(B \cup {1}) = Cardinality(B) + 1
    BY <1>3, <2>1, FS_AddElement
  <2> QED BY <1>2, <1>3, <1>4, <1>5, <2>1, <2>2
<1>6. CASE Head(s) # i
  <2>1. C = B
    BY <1>1, <1>6
  <2> HIDE DEF A, B, C
  <2> QED BY <1>2, <1>3, <1>4, <1>6, <2>1
<1> QED BY <1>5, <1>6
-----------------------------------------------------------------------------
(* SpeedTestTraffic is SpeedTest with packets: what is known of the        *)
(* commands and the threads holds here as well.                            *)

LEMMA TrafficSteps ==
  ASSUME [TNext]_tvars
  PROVE  [Next]_vars
<1> USE DEF vars
<1>1. CASE UNCHANGED tvars \/ WireLoses \/ Receive \/ (\E good \in BOOLEAN : Count(good))
  BY <1>1 DEF tvars, WireLoses, Receive, RcvFast, RcvProbe, Count
<1>2. CASE TCmd \/ (\E e \in Enables, l \in Loops : TParse(e, l))
  BY <1>2 DEF TCmd, TParse, Next
<1>3. ASSUME NEW t \in Senders, TSender(t) PROVE [Next]_vars
  BY <1>3 DEF TSender, TSenderStarts, SendPacket, SendNothing, CountSent, TSenderLeaves,
              TSenderLeavesFrom, TSenderEnds, Next, SenderStep
<1>4. ASSUME NEW t \in Counters, TCounter(t) PROVE [Next]_vars
  BY <1>4 DEF TCounter, Take, TCountOn, TCountStopped, TCountOver, Drain, DrainWhile, TCountEnds,
              Next, CounterStep, CounterEnds
<1> QED BY <1>1, <1>2, <1>3, <1>4 DEF TNext

LEMMA BaseAlways == TSpec => []Base
<1>1. TInit => Init
  BY DEF TInit
<1>2. TSpec => Spec
  BY <1>1, TrafficSteps, PTL DEF TSpec, Spec
<1> QED BY <1>2, CmdInvAlways, PTL DEF Base

-----------------------------------------------------------------------------
(* Types of the traffic.                                                   *)

Counts == 0 .. W - 1

Status == [sent : Nat, rcv : Counts, err : Counts, lose : Counts, ended : BOOLEAN]

Taken == [dir : Dirs, read : Counts]

FrameTypes ==
  /\ wire \in Seq(Dirs) /\ queue \in Seq(Dirs)
  /\ taken = Nobody \/ taken \in Taken
  /\ missed \in [Dirs -> Nat]

TrafficTypes ==
  /\ FrameTypes
  /\ status \in [Dirs -> Status]
  /\ spc \in [Dirs -> {"first", "count", "next"}]
  /\ mixed \in [Dirs -> BOOLEAN] /\ overlap \in [Dirs -> BOOLEAN] /\ stray \in BOOLEAN

LEMMA Modulo ==
  /\ W \in Nat /\ MaxSent \in Nat /\ MaxSent < W
  /\ \A n \in Nat : n < W => n % W = n /\ (n + W) % W = n /\ (n + 2 * W) % W = n
  /\ \A n \in Nat : n % W \in Counts
<1>1. W \in Nat /\ MaxSent \in Nat /\ MaxSent < W /\ W > 0
  BY TrafficBounds DEF TrafficBounds
<1>2. \A n \in Nat : n % W \in Counts
  BY <1>1 DEF Counts
<1>3. \A n \in Nat : n < W => n % W = n
  BY <1>1
<1>4. \A n \in Nat : n < W => (n + W) % W = n
  BY <1>1
<1>5. \A n \in Nat : n < W => (n + 2 * W) % W = n
  BY <1>1
<1> QED BY <1>1, <1>2, <1>3, <1>4, <1>5

LEMMA NobodyTaken == \A r \in Taken : r # Nobody
BY DEF Taken, Nobody

\* What the steps do to the frames.  A step that puts a frame on the wire or
\* takes one from a sequence is one of the first five.
LEMMA Misses ==
  ASSUME TrafficTypes, NEW f \in Dirs, Miss(f)
  PROVE  /\ missed' \in [Dirs -> Nat]
         /\ \A i \in Dirs : IF i = f /\ ~mixed[i] THEN missed'[i] = missed[i] + 1
                                                   ELSE missed'[i] = missed[i]
BY DEF TrafficTypes, FrameTypes, Miss

LEMMA Clears ==
  ASSUME SInv, TrafficTypes, NEW s \in Status, ClearTo(s)
  PROVE  /\ UNCHANGED <<spc, wire, queue, taken, stray>>
         /\ status' \in [Dirs -> Status] /\ missed' \in [Dirs -> Nat]
         /\ mixed' \in [Dirs -> BOOLEAN] /\ overlap' \in [Dirs -> BOOLEAN]
         /\ \A i \in Dirs : Creates(i) =>
              /\ status'[i] = s /\ missed'[i] = 0 /\ mixed'[i] = UnderWay(i)
              /\ overlap'[i] = \E t \in Senders : Slot(t) = i /\ pc[t] # "gone"
         /\ \A i \in Dirs : ~Creates(i) =>
              /\ status'[i] = status[i] /\ missed'[i] = missed[i]
              /\ mixed'[i] = mixed[i] /\ overlap'[i] = overlap[i]
<1>1. cpc = "create" => ci \in Dirs /\ task[ci] = NULL
  BY DEF SInv, CmdInv, Dirs
<1>2. CASE cpc = "create" /\ enable[ci] # 0
  <2>1. ci \in Dirs /\ \A i \in Dirs : Creates(i) <=> i = ci
    BY <1>1, <1>2 DEF Creates
  <2>2. /\ status' = [status EXCEPT ![ci] = s]
        /\ missed' = [missed EXCEPT ![ci] = 0]
        /\ mixed' = [mixed EXCEPT ![ci] = UnderWay(ci)]
        /\ overlap' = [overlap EXCEPT ![ci] = \E t \in Senders : Slot(t) = ci /\ pc[t] # "gone"]
        /\ UNCHANGED <<spc, wire, queue, taken, stray>>
    BY <1>2 DEF ClearTo
  <2>3. UnderWay(ci) \in BOOLEAN
    BY DEF UnderWay
  <2>4. status' \in [Dirs -> Status] /\ missed' \in [Dirs -> Nat]
    BY <2>1, <2>2 DEF TrafficTypes, FrameTypes
  <2>5. mixed' \in [Dirs -> BOOLEAN] /\ overlap' \in [Dirs -> BOOLEAN]
    BY <2>1, <2>2, <2>3 DEF TrafficTypes
  <2>6. \A i \in Dirs : Creates(i) => status'[i] = s /\ missed'[i] = 0 /\ mixed'[i] = UnderWay(i)
    BY <2>1, <2>2 DEF TrafficTypes, FrameTypes
  <2>7. \A i \in Dirs : Creates(i) => overlap'[i] = \E t \in Senders : Slot(t) = i /\ pc[t] # "gone"
    BY <2>1, <2>2 DEF TrafficTypes
  <2>8. \A i \in Dirs : ~Creates(i) =>
           /\ status'[i] = status[i] /\ missed'[i] = missed[i]
           /\ mixed'[i] = mixed[i] /\ overlap'[i] = overlap[i]
    BY <2>1, <2>2 DEF TrafficTypes, FrameTypes
  <2> QED BY <2>2, <2>4, <2>5, <2>6, <2>7, <2>8
<1>3. CASE ~(cpc = "create" /\ enable[ci] # 0)
  <2>1. \A i \in Dirs : ~Creates(i)
    BY <1>3 DEF Creates
  <2> QED BY <1>3, <2>1 DEF ClearTo, traffic, past, TrafficTypes, FrameTypes
<1> QED BY <1>2, <1>3

LEMMA FreshStatus == Fresh \in Status
BY TrafficBounds DEF TrafficBounds, Fresh, Status, Counts
-----------------------------------------------------------------------------
(* What was sent is in the queue, on the wire, in the compute thread's     *)
(* hands, counted or lost.                                                 *)

Uncounted(i) == IF spc[i] = "count" THEN 1 ELSE 0

InHand(i) == IF taken # Nobody /\ taken.dir = i THEN 1 ELSE 0

Accounted(i) ==
  /\ status[i].sent + Uncounted(i) <= MaxSent
  /\ ~mixed[i] =>
       /\ status[i].rcv + InHand(i) + Frames(queue, i) + Frames(wire, i) + missed[i]
            = status[i].sent + Uncounted(i)
       /\ taken # Nobody /\ taken.dir = i => taken.read = status[i].rcv

\* A packet is counted by the sender that has put it on the wire.
Sending(i) == \E t \in Senders : Slot(t) = i /\ pc[t] = "send"

FlowInv == \A i \in Dirs : Accounted(i) /\ (spc[i] = "count" => Sending(i))

LEMMA FramesNext == \A i : Frames(wire, i)' = Frames(wire', i) /\ Frames(queue, i)' = Frames(queue', i)
BY DEF Frames

LEMMA FrameNumbers ==
  ASSUME TrafficTypes
  PROVE  \A i : /\ Frames(wire, i) \in Nat /\ Frames(queue, i) \in Nat
                /\ wire = <<>> => Frames(wire, i) = 0
                /\ queue = <<>> => Frames(queue, i) = 0
BY FramesCount DEF TrafficTypes, FrameTypes

LEMMA Numbers ==
  ASSUME TrafficTypes, NEW i \in Dirs
  PROVE  /\ status[i].sent \in Nat /\ status[i].rcv \in Nat /\ status[i].err \in Nat /\ missed[i] \in Nat
         /\ Frames(wire, i) \in Nat /\ Frames(queue, i) \in Nat
         /\ Uncounted(i) \in {0, 1} /\ Uncounted(i) \in Nat /\ InHand(i) \in {0, 1} /\ InHand(i) \in Nat
         /\ status[i].rcv \in Counts /\ status[i].err \in Counts
<1>1. status[i] \in Status /\ missed[i] \in Nat
  BY DEF TrafficTypes, FrameTypes
<1>2. Frames(wire, i) \in Nat /\ Frames(queue, i) \in Nat
  BY FrameNumbers
<1>3. Uncounted(i) \in {0, 1} /\ InHand(i) \in {0, 1}
  BY DEF Uncounted, InHand
<1>4. \A n \in Counts : n \in Nat
  BY Modulo DEF Counts
<1> QED BY <1>1, <1>2, <1>3, <1>4 DEF Status

\* Only one sender of a direction can be at work.
LEMMA OneSender ==
  ASSUME SInv, NEW t \in Senders, NEW u \in Senders, Slot(t) = Slot(u),
         pc[t] \in Live \cup {"clear"}, pc[u] \in Live \cup {"clear"}
  PROVE  t = u
BY Ranges DEF SInv, Owner

LEMMA ClearedFlow ==
  ASSUME Base, TrafficTypes, FlowInv, TCmd
  PROVE  TrafficTypes' /\ FlowInv'
<1> USE DEF Base
<1>1. CmdStep /\ ClearTo(Fresh)
  BY DEF TCmd, Clear
<1>2. TrafficTypes'
  BY <1>1, Clears, FreshStatus DEF TrafficTypes, FrameTypes, Taken
<1>3. ASSUME NEW i \in Dirs, spc'[i] = "count" PROVE Sending(i)'
  <2>0. spc' = spc
    BY <1>1, Clears, FreshStatus
  <2>1. PICK t \in Senders : Slot(t) = i /\ pc[t] = "send"
    BY <1>3, <2>0 DEF FlowInv, Sending
  <2>2. pc'[t] = "send"
    BY <1>1, <2>1, CmdMoves DEF Moves
  <2> QED BY <2>1, <2>2 DEF Sending, Slot
<1>4. ASSUME NEW i \in Dirs PROVE Accounted(i)'
  <2>0. UNCHANGED <<spc, wire, queue, taken>>
    BY <1>1, Clears, FreshStatus
  <2>1. CASE ~Creates(i)
    <3>1. status'[i] = status[i] /\ missed'[i] = missed[i] /\ mixed'[i] = mixed[i]
      BY <1>1, <2>1, Clears, FreshStatus
    <3> QED BY <2>0, <3>1, FramesNext DEF FlowInv, Accounted, Uncounted, InHand
  <2>2. CASE Creates(i)
    <3>1. status'[i] = Fresh /\ missed'[i] = 0 /\ mixed'[i] = UnderWay(i)
      BY <1>1, <2>2, Clears, FreshStatus
    <3>2. spc[i] # "count"
      <4> SUFFICES ASSUME NEW t \in Senders, Slot(t) = i, pc[t] = "send" PROVE FALSE
        BY DEF FlowInv, Sending
      <4>1. task[i] = t /\ t \in Threads
        BY Ranges DEF SInv, Owner, Live
      <4> QED BY <2>2, <4>1, NotThreads DEF Creates
    <3>3. status'[i].sent = 0 /\ status'[i].rcv = 0 /\ Uncounted(i)' = 0
      BY <2>0, <3>1, <3>2 DEF Fresh, Uncounted
    <3>4. ~mixed'[i] => /\ Frames(wire', i) = 0 /\ Frames(queue', i) = 0
                        /\ InHand(i)' = 0 /\ ~(taken'.dir = i)
      <4>1. ~UnderWay(i) => Frames(wire, i) = 0 /\ Frames(queue, i) = 0 /\ ~(taken.dir = i)
        BY FrameNumbers DEF UnderWay
      <4> QED BY <2>0, <3>1, <4>1 DEF InHand
    <3> QED BY <3>1, <3>3, <3>4, FramesNext, Modulo DEF Accounted
  <2> QED BY <2>1, <2>2
<1> QED BY <1>2, <1>3, <1>4 DEF FlowInv

\* Numbers alone decide whether a direction is accounted for.
LEMMA StaysAccounted ==
  ASSUME TrafficTypes, NEW i \in Dirs, Accounted(i),
         status'[i] = status[i], spc'[i] = spc[i], mixed'[i] = mixed[i],
         UNCHANGED <<wire, queue, taken, missed>>
  PROVE  Accounted(i)'
BY FramesNext DEF Accounted, Uncounted, InHand

LEMMA SentFlow ==
  ASSUME Base, TrafficTypes, FlowInv, NEW t \in Senders, TSender(t)
  PROVE  TrafficTypes' /\ FlowInv'
<1> USE DEF Base
<1>0. t \in Threads /\ Slot(t) \in Dirs
  BY Ranges
<1>1. CASE TSenderStarts(t)
  <2>1. /\ pc[t] = "make" /\ spc' = [spc EXCEPT ![Slot(t)] = "first"]
        /\ UNCHANGED <<status, wire, queue, taken, missed, mixed, overlap, stray>>
    BY <1>1 DEF TSenderStarts, SenderStarts, past
  <2>2. TrafficTypes'
    BY <1>0, <2>1 DEF TrafficTypes, FrameTypes
  <2>3. \A i \in Dirs : spc'[i] = IF i = Slot(t) THEN "first" ELSE spc[i]
    BY <1>0, <2>1 DEF TrafficTypes
  <2>4. spc[Slot(t)] # "count"
    BY <1>0, <2>1, OneSender DEF FlowInv, Sending, Live
  <2>5. ASSUME NEW i \in Dirs, spc'[i] = "count" PROVE Sending(i)'
    <3>1. PICK u \in Senders : Slot(u) = i /\ pc[u] = "send"
      BY <2>3, <2>5 DEF FlowInv, Sending
    <3>2. pc'[u] = "send"
      BY <1>0, <1>1, <3>1, GotoMoves, Ranges DEF TSenderStarts, SenderStarts, OthersStay
    <3> QED BY <3>1, <3>2 DEF Sending, Slot
  <2>6. \A i \in Dirs : Accounted(i)'
    BY <2>1, <2>3, <2>4, FramesNext DEF FlowInv, Accounted, Uncounted, InHand
  <2> QED BY <2>2, <2>5, <2>6 DEF FlowInv
<1>2. CASE SendPacket(t)
  <2>1. /\ pc[t] = "send" /\ spc[Slot(t)] # "count" /\ status[Slot(t)].sent < MaxSent
        /\ wire' = Append(wire, Slot(t)) /\ spc' = [spc EXCEPT ![Slot(t)] = "count"]
        /\ UNCHANGED <<pc, status, queue, taken, missed, mixed, overlap, stray>>
    BY <1>2 DEF SendPacket, past, vars, threads
  <2>2. TrafficTypes'
    BY <1>0, <2>1 DEF TrafficTypes, FrameTypes
  <2>3. \A i \in Dirs : spc'[i] = IF i = Slot(t) THEN "count" ELSE spc[i]
    BY <1>0, <2>1 DEF TrafficTypes
  <2>4. \A i \in Dirs : Frames(wire', i) = Frames(wire, i) + (IF Slot(t) = i THEN 1 ELSE 0)
    BY <1>0, <2>1, FramesAppend DEF TrafficTypes, FrameTypes
  <2>5. ASSUME NEW i \in Dirs, spc'[i] = "count" PROVE Sending(i)'
    BY <2>1, <2>3, <2>5 DEF FlowInv, Sending, Slot
  <2>6. ASSUME NEW i \in Dirs PROVE Accounted(i)'
    <3>1. Accounted(i) /\ Frames(wire', i) = Frames(wire, i) + (IF Slot(t) = i THEN 1 ELSE 0)
      BY <2>4 DEF FlowInv
    <3>2. Uncounted(i)' = IF Slot(t) = i THEN 1 ELSE Uncounted(i)
      BY <2>3 DEF Uncounted
    <3>3. InHand(i)' = InHand(i)
      BY <2>1 DEF InHand
    <3>4. Slot(t) = i => Uncounted(i) = 0 /\ status[i].sent < MaxSent
      BY <2>1 DEF Uncounted
    <3>5. status'[i] = status[i] /\ mixed'[i] = mixed[i] /\ missed'[i] = missed[i] /\ taken' = taken
          /\ Frames(queue', i) = Frames(queue, i)
      BY <2>1
    <3>6. status'[i].sent + Uncounted(i)' <= MaxSent
      BY <3>1, <3>2, <3>4, <3>5, Numbers, Modulo DEF Accounted
    <3>7. CASE Slot(t) = i
      <4>1. /\ Uncounted(i)' = Uncounted(i) + 1 /\ Frames(wire', i) = Frames(wire, i) + 1
        BY <3>1, <3>2, <3>4, <3>7
      <4>2. ~mixed[i] => status[i].rcv + InHand(i) + Frames(queue, i) + (Frames(wire, i) + 1) + missed[i]
                           = status[i].sent + (Uncounted(i) + 1)
        <5>1. ~mixed[i] => status[i].rcv + InHand(i) + Frames(queue, i) + Frames(wire, i) + missed[i]
                           = status[i].sent + Uncounted(i)
          BY <3>1 DEF Accounted
        <5>2. /\ status[i].sent \in Nat /\ status[i].rcv \in Nat /\ missed[i] \in Nat
              /\ Frames(wire, i) \in Nat /\ Frames(queue, i) \in Nat
              /\ Uncounted(i) \in Nat /\ InHand(i) \in Nat
          BY Numbers
        <5> QED BY <5>1, <5>2
      <4> QED BY <3>1, <3>3, <3>5, <3>6, <4>1, <4>2, FramesNext DEF Accounted
    <3>8. CASE Slot(t) # i
      <4>1. /\ Uncounted(i)' = Uncounted(i) /\ Frames(wire', i) = Frames(wire, i)
        BY <3>1, <3>2, <3>8, FrameNumbers
      <4> QED BY <3>1, <3>3, <3>5, <3>6, <4>1, FramesNext DEF Accounted
    <3> QED BY <3>7, <3>8
  <2> QED BY <2>2, <2>5, <2>6 DEF FlowInv
<1>3. CASE SendNothing(t)
  <2>1. /\ spc[Slot(t)] = "first" /\ spc' = [spc EXCEPT ![Slot(t)] = "next"]
        /\ UNCHANGED <<pc, status, wire, queue, taken, missed, mixed, overlap, stray>>
    BY <1>3 DEF SendNothing, past, vars, threads
  <2>2. TrafficTypes'
    BY <1>0, <2>1 DEF TrafficTypes, FrameTypes
  <2>3. \A i \in Dirs : spc'[i] = IF i = Slot(t) THEN "next" ELSE spc[i]
    BY <1>0, <2>1 DEF TrafficTypes
  <2>4. \A i \in Dirs : Accounted(i)'
    BY <2>1, <2>3, FramesNext DEF FlowInv, Accounted, Uncounted, InHand
  <2> QED BY <2>1, <2>2, <2>3, <2>4 DEF FlowInv, Sending
<1>4. CASE CountSent(t)
  <2>1. /\ spc[Slot(t)] = "count" /\ spc' = [spc EXCEPT ![Slot(t)] = "next"]
        /\ status' = [status EXCEPT ![Slot(t)].sent = @ + 1]
        /\ UNCHANGED <<pc, wire, queue, taken, missed, mixed, overlap, stray>>
    BY <1>4 DEF CountSent, past, vars, threads
  <2>2. TrafficTypes'
    <3>1. status' \in [Dirs -> Status]
      BY <1>0, <2>1 DEF TrafficTypes, Status
    <3>2. spc' \in [Dirs -> {"first", "count", "next"}]
      BY <1>0, <2>1 DEF TrafficTypes
    <3> QED BY <2>1, <3>1, <3>2 DEF TrafficTypes, FrameTypes
  <2>3. \A i \in Dirs : spc'[i] = IF i = Slot(t) THEN "next" ELSE spc[i]
    BY <1>0, <2>1 DEF TrafficTypes
  <2>4. \A i \in Dirs : /\ status'[i].sent = status[i].sent + (IF i = Slot(t) THEN 1 ELSE 0)
                        /\ status'[i].rcv = status[i].rcv
    BY <1>0, <2>1 DEF TrafficTypes, Status
  <2>5. ASSUME NEW i \in Dirs PROVE Accounted(i)'
    <3>1. InHand(i)' = InHand(i)
      BY <2>1 DEF InHand
    <3>2. status'[i].sent + Uncounted(i)' = status[i].sent + Uncounted(i)
      BY <2>1, <2>3, <2>4, Numbers DEF Uncounted
    <3> QED BY <2>1, <2>4, <3>1, <3>2, FramesNext DEF FlowInv, Accounted
  <2> QED BY <2>1, <2>2, <2>3, <2>5 DEF FlowInv, Sending
<1>5. CASE TSenderLeaves(t)
  <2>1. spc[Slot(t)] = "next" /\ UNCHANGED <<status, spc, wire, queue, taken, missed, mixed, overlap, stray>>
    BY <1>5 DEF TSenderLeaves, TSenderLeavesFrom, traffic, past
  <2>2. TrafficTypes'
    BY <2>1 DEF TrafficTypes, FrameTypes
  <2>3. ASSUME NEW i \in Dirs, spc'[i] = "count" PROVE Sending(i)'
    <3>1. PICK u \in Senders : Slot(u) = i /\ pc[u] = "send"
      BY <2>1, <2>3 DEF FlowInv, Sending
    <3>2. pc'[u] = "send"
      BY <1>0, <1>5, <2>1, <2>3, <3>1, SelfMoves, Ranges DEF TSenderLeaves, TSenderLeavesFrom, SenderLeaves, OthersStay
    <3> QED BY <3>1, <3>2 DEF Sending, Slot
  <2> QED BY <2>1, <2>2, <2>3, StaysAccounted DEF FlowInv
<1>6. CASE TSenderEnds(t)
  <2>1. /\ SenderStep(t) /\ pc[t] \in {"clear", "off", "end"}
        /\ UNCHANGED <<spc, wire, queue, taken, missed, mixed, overlap, stray>>
        /\ status' = status \/ status' = [status EXCEPT ![Slot(t)].ended = TRUE]
    BY <1>6 DEF TSenderEnds, traffic, past, SenderStep, SenderClear, SenderClearTo, SenderOff, SenderEnd
  <2>2. TrafficTypes'
    <3>1. status \in [Dirs -> Status] /\ \A r \in Status : [r EXCEPT !.ended = TRUE] \in Status
      BY DEF TrafficTypes, Status
    <3>2. status' \in [Dirs -> Status]
      BY <1>0, <2>1, <3>1
    <3> QED BY <2>1, <3>2 DEF TrafficTypes, FrameTypes
  <2>3. \A i \in Dirs : status'[i].sent = status[i].sent /\ status'[i].rcv = status[i].rcv
    BY <1>0, <2>1 DEF TrafficTypes, Status
  <2>4. ASSUME NEW i \in Dirs, spc'[i] = "count" PROVE Sending(i)'
    <3>1. PICK u \in Senders : Slot(u) = i /\ pc[u] = "send"
      BY <2>1, <2>4 DEF FlowInv, Sending
    <3>2. pc'[u] = "send"
      BY <1>0, <2>1, <3>1, SenderMoves, Ranges DEF OthersStay
    <3> QED BY <3>1, <3>2 DEF Sending, Slot
  <2>5. \A i \in Dirs : Accounted(i)'
    BY <2>1, <2>3, FramesNext DEF FlowInv, Accounted, Uncounted, InHand
  <2> QED BY <2>2, <2>4, <2>5 DEF FlowInv
<1> QED BY <1>1, <1>2, <1>3, <1>4, <1>5, <1>6 DEF TSender

LEMMA ReceivedFlow ==
  ASSUME Base, TrafficTypes, FlowInv, WireLoses \/ Receive
  PROVE  TrafficTypes' /\ FlowInv'
<1>1. /\ wire # <<>> /\ wire' = Tail(wire) /\ UNCHANGED <<pc, status, spc, taken, mixed, overlap>>
      /\ stray' \in BOOLEAN
      /\ \/ queue' = queue /\ Miss(Head(wire))
         \/ queue' = Append(queue, Head(wire)) /\ missed' = missed
  BY DEF WireLoses, Receive, RcvFast, RcvProbe, vars, threads, past, TrafficTypes
<1>2. Head(wire) \in Dirs /\ wire' \in Seq(Dirs) /\ wire \in Seq(Dirs) /\ queue \in Seq(Dirs)
  BY <1>1 DEF TrafficTypes, FrameTypes
<1>3. TrafficTypes'
  <2>1. missed' \in [Dirs -> Nat]
    BY <1>1, <1>2, Misses DEF TrafficTypes, FrameTypes
  <2>2. queue' \in Seq(Dirs)
    BY <1>1, <1>2
  <2> QED BY <1>1, <1>2, <2>1, <2>2 DEF TrafficTypes, FrameTypes, Nobody
<1>4. \A i \in Dirs : Frames(wire, i) = Frames(wire', i) + (IF Head(wire) = i THEN 1 ELSE 0)
  BY <1>1, <1>2, FramesTail
<1>5. ASSUME NEW i \in Dirs PROVE Accounted(i)'
  <2>1. Uncounted(i)' = Uncounted(i) /\ InHand(i)' = InHand(i) /\ Accounted(i)
    BY <1>1 DEF Uncounted, InHand, FlowInv
  <2>2. Frames(wire', i) \in Nat /\ Frames(queue', i) \in Nat
    BY <1>3, FramesCount DEF TrafficTypes, FrameTypes
  <2>3. ~mixed[i] => Frames(queue', i) + Frames(wire', i) + missed'[i]
                       = Frames(queue, i) + Frames(wire, i) + missed[i]
    <3>1. CASE queue' = queue /\ Miss(Head(wire))
      <4>1. IF i = Head(wire) /\ ~mixed[i] THEN missed'[i] = missed[i] + 1 ELSE missed'[i] = missed[i]
        BY <1>2, <3>1, Misses
      <4> QED BY <1>4, <2>2, <3>1, <4>1, Numbers
    <3>2. CASE queue' = Append(queue, Head(wire)) /\ missed' = missed
      <4>1. Frames(queue', i) = Frames(queue, i) + (IF Head(wire) = i THEN 1 ELSE 0)
        BY <1>2, <3>2, FramesAppend
      <4> QED BY <1>4, <2>2, <3>2, <4>1, Numbers
    <3> QED BY <1>1, <3>1, <3>2
  <2>4. missed'[i] \in Nat
    BY <1>3 DEF TrafficTypes, FrameTypes
  <2>5. ~mixed[i] => status[i].rcv + InHand(i) + Frames(queue', i) + Frames(wire', i) + missed'[i]
                       = status[i].sent + Uncounted(i)
    <3>1. ~mixed[i] => status[i].rcv + InHand(i) + Frames(queue, i) + Frames(wire, i) + missed[i]
                       = status[i].sent + Uncounted(i)
      BY <2>1 DEF Accounted
    <3>2. /\ status[i].sent \in Nat /\ status[i].rcv \in Nat /\ missed[i] \in Nat
          /\ Frames(wire, i) \in Nat /\ Frames(queue, i) \in Nat
          /\ Uncounted(i) \in Nat /\ InHand(i) \in Nat
      BY Numbers
    <3> QED BY <2>2, <2>3, <2>4, <3>1, <3>2
  <2> QED BY <1>1, <2>1, <2>5, FramesNext DEF Accounted
<1> QED BY <1>1, <1>3, <1>5 DEF FlowInv, Sending

LEMMA TakenFlow ==
  ASSUME Base, TrafficTypes, FlowInv, NEW t \in Counters, Take(t)
  PROVE  TrafficTypes' /\ FlowInv'
<1>1. /\ taken = Nobody /\ queue # <<>> /\ queue' = Tail(queue)
      /\ taken' = [dir |-> Head(queue), read |-> status[Head(queue)].rcv]
      /\ UNCHANGED <<pc, status, spc, wire, missed, mixed, overlap>> /\ stray' \in BOOLEAN
  BY DEF Take, vars, threads
<1>2. Head(queue) \in Dirs /\ queue' \in Seq(Dirs) /\ queue \in Seq(Dirs)
  BY <1>1 DEF TrafficTypes, FrameTypes
<1>3. taken' \in Taken /\ taken' # Nobody
  BY <1>1, <1>2, Numbers, NobodyTaken DEF Taken
<1>4. TrafficTypes'
  BY <1>1, <1>2, <1>3 DEF TrafficTypes, FrameTypes, Taken, Nobody
<1>5. ASSUME NEW i \in Dirs PROVE Accounted(i)'
  <2>1. Uncounted(i)' = Uncounted(i) /\ Accounted(i)
    BY <1>1 DEF Uncounted, FlowInv
  <2>2. InHand(i) = 0 /\ InHand(i)' = IF Head(queue) = i THEN 1 ELSE 0
    BY <1>1, <1>3 DEF InHand
  <2>3. Frames(queue, i) = Frames(queue', i) + (IF Head(queue) = i THEN 1 ELSE 0)
    BY <1>1, <1>2, FramesTail
  <2>4. Frames(queue', i) \in Nat
    BY <1>2, FramesCount
  <2>5. ~mixed[i] => status[i].rcv + InHand(i)' + Frames(queue', i) + Frames(wire, i) + missed[i]
                       = status[i].sent + Uncounted(i)
    <3>1. ~mixed[i] => status[i].rcv + InHand(i) + Frames(queue, i) + Frames(wire, i) + missed[i]
                       = status[i].sent + Uncounted(i)
      BY <2>1 DEF Accounted
    <3>2. /\ status[i].sent \in Nat /\ status[i].rcv \in Nat /\ missed[i] \in Nat
          /\ Frames(wire, i) \in Nat /\ Frames(queue, i) \in Nat
          /\ Uncounted(i) \in Nat /\ InHand(i) \in Nat
      BY Numbers
    <3> QED BY <2>2, <2>3, <2>4, <3>1, <3>2
  <2>6. taken'.dir = i => taken'.read = status[i].rcv
    BY <1>1
  <2> QED BY <1>1, <2>1, <2>5, <2>6, FramesNext DEF Accounted
<1> QED BY <1>1, <1>4, <1>5 DEF FlowInv, Sending

LEMMA CountedFlow ==
  ASSUME Base, TrafficTypes, FlowInv, NEW good \in BOOLEAN, Count(good)
  PROVE  TrafficTypes' /\ FlowInv'
<1>1. /\ taken # Nobody /\ taken' = Nobody
      /\ status' = [status EXCEPT ![taken.dir].rcv = (taken.read + 1) % W,
                                  ![taken.dir].err = IF good THEN @ ELSE (@ + 1) % W]
      /\ UNCHANGED <<pc, spc, wire, queue, missed, mixed, overlap, stray>>
  BY DEF Count, vars, threads, past
<1>2. taken.dir \in Dirs /\ taken.read \in Nat /\ (taken.read + 1) % W \in Counts
  <2>1. taken.dir \in Dirs /\ taken.read \in Counts
    BY <1>1 DEF TrafficTypes, FrameTypes, Taken
  <2>2. taken.read \in Nat
    BY <2>1, Modulo DEF Counts
  <2>3. taken.read + 1 \in Nat
    BY <2>2
  <2> QED BY <2>1, <2>2, <2>3, Modulo
<1>3. \A i \in Dirs : (status[i].err + 1) % W \in Counts
  <2> TAKE i \in Dirs
  <2>1. status[i].err + 1 \in Nat
    BY Numbers
  <2> QED BY <2>1, Modulo
<1>4. status' \in [Dirs -> Status]
  <2>1. \A i \in Dirs : (IF good THEN status[i].err ELSE (status[i].err + 1) % W) \in Counts
    BY <1>3, Numbers
  <2>2. status \in [Dirs -> Status]
        /\ \A r \in Status, a, b \in Counts : [r EXCEPT !.rcv = a, !.err = b] \in Status
    BY DEF TrafficTypes, Status
  <2>3. taken.dir \in Dirs /\ status[taken.dir] \in Status
    BY <1>2, <2>2
  <2> QED BY <1>1, <1>2, <2>1, <2>2, <2>3
<1>5. TrafficTypes'
  BY <1>1, <1>4 DEF TrafficTypes, FrameTypes, Nobody
<1>6. \A i \in Dirs : /\ status'[i].sent = status[i].sent
                      /\ status'[i].rcv = IF i = taken.dir THEN (taken.read + 1) % W ELSE status[i].rcv
  BY <1>1, <1>2 DEF TrafficTypes, Status
<1>7. ASSUME NEW i \in Dirs PROVE Accounted(i)'
  <2>1. Uncounted(i)' = Uncounted(i) /\ Accounted(i) /\ InHand(i)' = 0
    BY <1>1 DEF Uncounted, FlowInv, InHand
  <2>2. ~mixed[i] => status'[i].rcv = status[i].rcv + InHand(i)
    <3>1. CASE i = taken.dir /\ ~mixed[i]
      <4>1. InHand(i) = 1 /\ taken.read = status[i].rcv
        BY <1>1, <2>1, <3>1 DEF InHand, Accounted
      <4>2. status[i].rcv + 1 <= MaxSent
        <5>1. status[i].rcv + 1 + Frames(queue, i) + Frames(wire, i) + missed[i] = status[i].sent + Uncounted(i)
          BY <2>1, <3>1, <4>1 DEF Accounted
        <5>2. status[i].sent + Uncounted(i) <= MaxSent
          BY <2>1 DEF Accounted
        <5> QED BY <5>1, <5>2, Numbers, Modulo
      <4>3. (taken.read + 1) % W = taken.read + 1
        <5>1. taken.read + 1 \in Nat /\ taken.read + 1 < W
          <6>1. taken.read \in Nat /\ taken.read + 1 <= MaxSent
            BY <1>2, <4>1, <4>2, Numbers DEF Counts
          <6> QED BY <6>1, TrafficBounds DEF TrafficBounds
        <5> QED BY <5>1, Modulo, Zenon
      <4> QED BY <1>6, <3>1, <4>1, <4>3
    <3>2. CASE i # taken.dir
      BY <1>6, <3>2, Numbers DEF InHand
    <3> QED BY <3>1, <3>2
  <2>3. ~mixed[i] => status'[i].rcv + 0 + Frames(queue, i) + Frames(wire, i) + missed[i]
                       = status[i].sent + Uncounted(i)
    <3>1. ~mixed[i] => status[i].rcv + InHand(i) + Frames(queue, i) + Frames(wire, i) + missed[i]
                       = status[i].sent + Uncounted(i)
      BY <2>1 DEF Accounted
    <3>2. status'[i].rcv + 0 = status'[i].rcv
      BY <1>4, Modulo DEF Status, Counts
    <3> QED BY <2>2, <3>1, <3>2
  <2> QED BY <1>1, <1>6, <2>1, <2>3, FramesNext DEF Accounted
<1> QED BY <1>1, <1>5, <1>7 DEF FlowInv, Sending

\* What the compute thread does to the packets after its loop.
LEMMA CounterEffects ==
  ASSUME Base, TrafficTypes, NEW t \in Counters, TCounter(t), ~Take(t)
  PROVE  /\ UNCHANGED <<spc, wire, taken, mixed, overlap>> /\ stray' \in BOOLEAN
         /\ \A s \in Senders : pc'[s] = pc[s]
         /\ \/ UNCHANGED <<status, queue, missed>>
            \/ queue # <<>> /\ queue' = Tail(queue) /\ Miss(Head(queue)) /\ status' = status
            \/ /\ UNCHANGED <<queue, missed>>
               /\ status' = [i \in Dirs |-> [status[i] EXCEPT
                               !.lose = (status[i].sent + 2 * W - status[i].rcv - status[i].err) % W]]
<1> USE DEF Base
<1>0. t \in Threads /\ t \notin Senders
  BY Ranges
<1>1. CASE TCountOn(t) \/ TCountStopped(t) \/ TCountOver(t)
  <2>1. CounterStep(t) /\ UNCHANGED <<traffic, past>>
    BY <1>1 DEF TCountOn, TCountStopped, TCountOver, CounterStep
  <2> QED BY <1>0, <2>1, CounterMoves, Ranges DEF traffic, past, OthersStay, TrafficTypes
<1>2. CASE Drain(t)
  <2>1. CASE queue # <<>>
    BY <1>2, <2>1 DEF Drain, DrainWhile, vars, threads, TrafficTypes
  <2>2. CASE queue = <<>>
    <3>1. CounterStep(t)
      BY <1>2, <2>2 DEF Drain, DrainWhile, CounterStep, CounterEnds
    <3>2. \A s \in Senders : pc'[s] = pc[s]
      BY <1>0, <3>1, CounterMoves, Ranges DEF OthersStay
    <3> QED BY <1>2, <2>2, <3>2 DEF Drain, DrainWhile
  <2> QED BY <2>1, <2>2
<1>3. CASE TCountEnds(t)
  <2>1. CounterStep(t)
    BY <1>3 DEF TCountEnds, CounterStep
  <2>2. \A s \in Senders : pc'[s] = pc[s]
    BY <1>0, <2>1, CounterMoves, Ranges DEF OthersStay
  <2> QED BY <1>3, <2>2 DEF TCountEnds, past, TrafficTypes
<1> QED BY <1>1, <1>2, <1>3 DEF TCounter

LEMMA CounterFlow ==
  ASSUME Base, TrafficTypes, FlowInv, NEW t \in Counters, TCounter(t), ~Take(t)
  PROVE  TrafficTypes' /\ FlowInv'
<1>1. /\ UNCHANGED <<spc, wire, taken, mixed, overlap>> /\ stray' \in BOOLEAN
      /\ \A s \in Senders : pc'[s] = pc[s]
  BY CounterEffects
<1>2. \A i \in Dirs : spc'[i] = "count" => Sending(i)'
  BY <1>1 DEF FlowInv, Sending, Slot
<1>3. CASE UNCHANGED <<status, queue, missed>>
  BY <1>1, <1>2, <1>3, StaysAccounted DEF TrafficTypes, FrameTypes, Nobody, FlowInv
<1>4. CASE queue # <<>> /\ queue' = Tail(queue) /\ Miss(Head(queue)) /\ status' = status
  <2>1. Head(queue) \in Dirs /\ queue' \in Seq(Dirs) /\ queue \in Seq(Dirs)
    BY <1>4 DEF TrafficTypes, FrameTypes
  <2>2. missed' \in [Dirs -> Nat]
    BY <1>4, <2>1, Misses
  <2>3. TrafficTypes'
    BY <1>1, <1>4, <2>1, <2>2 DEF TrafficTypes, FrameTypes, Nobody
  <2>4. ASSUME NEW i \in Dirs PROVE Accounted(i)'
    <3>1. Uncounted(i)' = Uncounted(i) /\ InHand(i)' = InHand(i) /\ Accounted(i)
      BY <1>1 DEF Uncounted, InHand, FlowInv
    <3>2. Frames(queue, i) = Frames(queue', i) + (IF Head(queue) = i THEN 1 ELSE 0)
      BY <1>4, <2>1, FramesTail
    <3>3. IF i = Head(queue) /\ ~mixed[i] THEN missed'[i] = missed[i] + 1 ELSE missed'[i] = missed[i]
      BY <1>4, <2>1, Misses
    <3>4. Frames(queue', i) \in Nat
      BY <2>1, FramesCount
    <3>5. /\ status[i].sent \in Nat /\ status[i].rcv \in Nat /\ missed[i] \in Nat
          /\ Frames(wire, i) \in Nat /\ Frames(queue, i) \in Nat
          /\ Uncounted(i) \in Nat /\ InHand(i) \in Nat
      BY Numbers
    <3>6. ~mixed[i] => status[i].rcv + InHand(i) + Frames(queue, i) + Frames(wire, i) + missed[i]
                       = status[i].sent + Uncounted(i)
      BY <3>1 DEF Accounted
    <3>7. ~mixed[i] => status[i].rcv + InHand(i) + Frames(queue', i) + Frames(wire, i) + missed'[i]
                       = status[i].sent + Uncounted(i)
      BY <3>2, <3>3, <3>4, <3>5, <3>6
    <3> QED BY <1>1, <1>4, <3>1, <3>7, FramesNext DEF Accounted
  <2> QED BY <1>2, <2>3, <2>4 DEF FlowInv
<1>5. CASE /\ UNCHANGED <<queue, missed>>
           /\ status' = [i \in Dirs |-> [status[i] EXCEPT
                           !.lose = (status[i].sent + 2 * W - status[i].rcv - status[i].err) % W]]
  <2>1. \A i \in Dirs : (status[i].sent + 2 * W - status[i].rcv - status[i].err) % W \in Counts
    <3> TAKE i \in Dirs
    <3>1. status[i].sent \in Nat /\ status[i].rcv \in 0 .. W - 1 /\ status[i].err \in 0 .. W - 1
      BY Numbers DEF Counts
    <3>2. status[i].sent + 2 * W - status[i].rcv - status[i].err \in Nat
      BY <3>1, Modulo
    <3> QED BY <3>2, Modulo
  <2>2. status' \in [Dirs -> Status]
    BY <1>5, <2>1 DEF TrafficTypes, Status
  <2>3. TrafficTypes'
    BY <1>1, <1>5, <2>2 DEF TrafficTypes, FrameTypes, Nobody
  <2>4. \A i \in Dirs : status'[i].sent = status[i].sent /\ status'[i].rcv = status[i].rcv
    BY <1>5 DEF TrafficTypes, Status
  <2>5. \A i \in Dirs : Accounted(i)'
    BY <1>1, <1>5, <2>4, FramesNext DEF FlowInv, Accounted, Uncounted, InHand
  <2> QED BY <1>2, <2>3, <2>5 DEF FlowInv
<1> QED BY <1>3, <1>4, <1>5, CounterEffects

LEMMA FlowStep ==
  ASSUME Base, TrafficTypes, FlowInv, [TNext]_tvars
  PROVE  TrafficTypes' /\ FlowInv'
<1>1. CASE UNCHANGED tvars \/ \E e \in Enables, l \in Loops : TParse(e, l)
  <2>1. UNCHANGED <<pc, traffic, past>>
    BY <1>1 DEF tvars, vars, threads, TParse, CmdParse
  <2> QED BY <2>1, StaysAccounted DEF traffic, past, TrafficTypes, FrameTypes, Nobody, FlowInv, Sending
<1> QED BY <1>1, ClearedFlow, SentFlow, ReceivedFlow, TakenFlow, CountedFlow, CounterFlow DEF TNext

LEMMA TrafficInit ==
  ASSUME TInit
  PROVE  TrafficTypes /\ FlowInv
<1>1. /\ wire = <<>> /\ queue = <<>> /\ taken = Nobody
      /\ missed = [i \in Dirs |-> 0] /\ spc = [i \in Dirs |-> "first"] /\ status = [i \in Dirs |-> Fresh]
      /\ mixed = [i \in Dirs |-> FALSE] /\ overlap = [i \in Dirs |-> FALSE] /\ stray = FALSE
  BY DEF TInit
<1>2. TrafficTypes
  <2>1. wire \in Seq(Dirs) /\ queue \in Seq(Dirs)
    BY <1>1
  <2>2. missed \in [Dirs -> Nat] /\ status \in [Dirs -> Status]
    BY <1>1, FreshStatus
  <2>3. spc \in [Dirs -> {"first", "count", "next"}]
    BY <1>1
  <2>4. mixed \in [Dirs -> BOOLEAN] /\ overlap \in [Dirs -> BOOLEAN] /\ stray \in BOOLEAN
    BY <1>1
  <2> QED BY <1>1, <2>1, <2>2, <2>3, <2>4 DEF TrafficTypes, FrameTypes
<1>3. ASSUME NEW i \in Dirs PROVE Accounted(i) /\ spc[i] # "count"
  <2>1. Frames(wire, i) = 0 /\ Frames(queue, i) = 0
    BY <1>1, <1>2, FrameNumbers
  <2>2. status[i].sent = 0 /\ status[i].rcv = 0 /\ missed[i] = 0 /\ Uncounted(i) = 0 /\ InHand(i) = 0
    BY <1>1 DEF Fresh, Uncounted, InHand
  <2> QED BY <1>1, <2>1, <2>2, Modulo DEF Accounted
<1> QED BY <1>2, <1>3 DEF FlowInv

LEMMA FlowAlways == TSpec => [](Base /\ TrafficTypes /\ FlowInv)
<1>1. Base /\ TrafficTypes /\ FlowInv /\ [TNext]_tvars => TrafficTypes' /\ FlowInv'
  BY FlowStep
<1> QED BY BaseAlways, TrafficInit, <1>1, PTL DEF TSpec

\* However many frames and directions, threads and commands there are: what a
\* direction has received it has sent (send_speedtest_pkt, the receive hook
\* and both loops of speedtest_compute_func), as long as nothing was under way
\* when run_speedtest_by_cmd cleared its counters.
THEOREM ReceivedWasSent == TSpec => []NotMoreThanSent
<1>1. TrafficTypes /\ FlowInv => NotMoreThanSent
  <2> SUFFICES ASSUME TrafficTypes, FlowInv, NEW i \in Dirs, ~mixed[i]
               PROVE  status[i].rcv <= status[i].sent + Uncounted(i)
    BY DEF NotMoreThanSent, Uncounted
  <2>1. status[i].rcv + InHand(i) + Frames(queue, i) + Frames(wire, i) + missed[i]
          = status[i].sent + Uncounted(i)
    BY DEF FlowInv, Accounted
  <2> QED BY <2>1, Numbers
<1> QED BY FlowAlways, <1>1, PTL
-----------------------------------------------------------------------------
(* The threads under traffic.                                              *)

LEMMA WhoMoves ==
  ASSUME Base, TrafficTypes, [TNext]_tvars
  PROVE  \/ UNCHANGED pc
         \/ TCmd /\ CmdStep
         \/ \E t \in Senders : TSender(t) /\ SenderStep(t)
         \/ \E t \in Counters : TCounter(t) /\ CounterStep(t)
<1> USE DEF vars, threads
<1>1. CASE UNCHANGED tvars \/ WireLoses \/ Receive \/ (\E good \in BOOLEAN : Count(good))
           \/ (\E e \in Enables, l \in Loops : TParse(e, l))
  BY <1>1 DEF tvars, WireLoses, Receive, RcvFast, RcvProbe, Count, TParse, CmdParse
<1>2. ASSUME NEW t \in Senders, TSender(t) PROVE UNCHANGED pc \/ SenderStep(t)
  BY <1>2 DEF TSender, TSenderStarts, SendPacket, SendNothing, CountSent, TSenderLeaves,
              TSenderLeavesFrom, TSenderEnds, SenderStep
<1>3. ASSUME NEW t \in Counters, TCounter(t) PROVE UNCHANGED pc \/ CounterStep(t)
  BY <1>3 DEF TCounter, Take, TCountOn, TCountStopped, TCountOver, Drain, DrainWhile, TCountEnds,
              CounterStep, CounterEnds
<1> QED BY <1>1, <1>2, <1>3 DEF TNext, TCmd

\* Where a sender at work, or at all, has come from.
LEMMA SenderComes ==
  ASSUME Base, TrafficTypes, [TNext]_tvars, NEW s \in Senders
  PROVE  /\ pc'[s] = "send" => pc[s] \in {"make", "send"}
         /\ pc[s] = "gone" /\ pc'[s] # "gone" => TCmd /\ Creates(Slot(s)) /\ Moves(s, "gone", "new")
<1> USE DEF Base
<1>0. s \in Threads /\ s \notin Counters
  BY Ranges
<1>1. CASE TCmd /\ CmdStep
  BY <1>1, CmdMoves DEF Moves
<1>2. ASSUME NEW t \in Senders, SenderStep(t)
      PROVE  (pc'[s] = "send" => pc[s] \in {"make", "send"}) /\ (pc[s] = "gone" => pc'[s] = "gone")
  BY <1>0, <1>2, SenderMoves DEF OthersStay, Moves, Ended
<1>3. ASSUME NEW t \in Counters, CounterStep(t) PROVE pc'[s] = pc[s]
  BY <1>0, <1>3, CounterMoves DEF OthersStay
<1> QED BY <1>1, <1>2, <1>3, WhoMoves

\* Where a counter goes.
LEMMA CounterGoes ==
  ASSUME Base, TrafficTypes, [TNext]_tvars, NEW c \in Counters, pc[c] # "gone", pc'[c] # pc[c]
  PROVE  \/ Moves(c, "new", "look")
         \/ TCounter(c) /\ CounterStep(c)
<1> USE DEF Base
<1>0. c \in Threads /\ c \notin Senders
  BY Ranges
<1>1. CASE TCmd /\ CmdStep
  BY <1>1, CmdMoves DEF Moves
<1>2. ASSUME NEW t \in Senders, SenderStep(t) PROVE FALSE
  BY <1>0, <1>2, SenderMoves DEF OthersStay
<1>3. ASSUME NEW t \in Counters, TCounter(t), CounterStep(t) PROVE t = c
  BY <1>0, <1>3, CounterMoves DEF OthersStay
<1> QED BY <1>1, <1>2, <1>3, WhoMoves

-----------------------------------------------------------------------------
(* A frame is in the hands of a compute thread, and a test that sends has  *)
(* one at work.                                                            *)

HandInv ==
  taken # Nobody \/ (\E s \in Senders : pc[s] = "send") => \E c \in Counters : pc[c] \in AtWork

LEMMA HandStep ==
  ASSUME Base, TrafficTypes, HandInv, [TNext]_tvars
  PROVE  HandInv'
<1> USE DEF Base
<1> SUFFICES ASSUME taken' # Nobody \/ \E s \in Senders : pc'[s] = "send"
             PROVE  \E c \in Counters : pc'[c] \in AtWork
  BY DEF HandInv
<1>1. taken' # Nobody => \/ taken # Nobody
                         \/ \E t \in Counters : Take(t)
  <2> SUFFICES ASSUME taken' # taken, taken' # Nobody PROVE \E t \in Counters : Take(t)
    OBVIOUS
  <2>1. ~TCmd /\ ~UNCHANGED tvars /\ ~WireLoses /\ ~Receive /\ ~\E e \in Enables, l \in Loops : TParse(e, l)
    BY Clears, FreshStatus DEF TCmd, Clear, tvars, traffic, past, WireLoses, Receive, RcvFast, RcvProbe, TParse
  <2>2. ~\E good \in BOOLEAN : Count(good)
    BY DEF Count
  <2>3. ASSUME NEW t \in Senders, TSender(t) PROVE FALSE
    BY <2>3 DEF TSender, TSenderStarts, SendPacket, SendNothing, CountSent, TSenderLeaves,
                TSenderLeavesFrom, TSenderEnds, traffic, past
  <2>4. ASSUME NEW t \in Counters, TCounter(t), ~Take(t) PROVE FALSE
    BY <2>4, CounterEffects
  <2> QED BY <2>1, <2>2, <2>3, <2>4 DEF TNext
<1>2. (\E t \in Counters : Take(t)) => \E c \in Counters : pc[c] \in AtWork
  BY DEF Take, AtWork
<1>3. (\E s \in Senders : pc'[s] = "send") => \E c \in Counters : pc[c] \in AtWork
  <2> SUFFICES ASSUME NEW s \in Senders, pc'[s] = "send" PROVE \E c \in Counters : pc[c] \in AtWork
    OBVIOUS
  <2>1. pc[s] \in {"make", "send"}
    BY SenderComes
  <2> QED BY <2>1 DEF HandInv, CountInv, Sends
<1>4. PICK c \in Counters : pc[c] \in AtWork
  BY <1>1, <1>2, <1>3 DEF HandInv
<1>5. CASE pc'[c] = pc[c]
  BY <1>4, <1>5
<1>6. CASE pc'[c] # pc[c]
  <2>1. TCounter(c) /\ CounterStep(c)
    BY <1>4, <1>6, CounterGoes DEF AtWork, Moves
  <2>2. CASE TCountOn(c)
    <3>1. pc'[c] \in AtWork
      BY <2>2, GotoMoves, Ranges DEF TCountOn, CountOn, AtWork
    <3> QED BY <3>1
  <2>3. CASE TCountStopped(c) \/ TCountOver(c)
    <3>1. taken' = Nobody
      BY <2>3 DEF TCountStopped, TCountOver, Drained, traffic
    <3>2. PICK s \in Senders : pc'[s] = "send"
      BY <3>1
    <3>3. pc'[s] = pc[s]
      BY <2>1, CounterMoves, Ranges DEF OthersStay
    <3> QED BY <2>3, <3>2, <3>3, LeavesInSilence DEF TCountStopped, TCountOver, Sends
  <2>4. CASE Take(c) \/ Drain(c) \/ TCountEnds(c)
    BY <1>4, <1>6, <2>4 DEF Take, vars, threads, Drain, DrainWhile, TCountEnds, CounterEnds,
            CounterClear, CounterHook, CounterHookTo, CounterReady, CounterTimer, CounterFinish, AtWork
  <2> QED BY <2>1, <2>2, <2>3, <2>4 DEF TCounter
<1> QED BY <1>5, <1>6
-----------------------------------------------------------------------------
(* The loss that the last compute thread has computed stays what it was.   *)

Loss(i) == (status[i].sent + 2 * W - status[i].rcv - status[i].err) % W

LossInv ==
  (\A c \in Counters : pc[c] = "gone") =>
    \A i \in Dirs : state[i] = "FINISHED" => status[i].lose = Loss(i)

LEMMA LossStep ==
  ASSUME Base, TrafficTypes, HandInv, LossInv, [TNext]_tvars
  PROVE  LossInv'
<1> USE DEF Base
<1> SUFFICES ASSUME \A c \in Counters : pc'[c] = "gone", NEW i \in Dirs, state'[i] = "FINISHED"
             PROVE  status'[i].lose = Loss(i)'
  BY DEF LossInv
<1>1. CASE \E c \in Counters : pc[c] # "gone"
  <2>1. PICK c \in Counters : pc[c] # "gone"
    BY <1>1
  <2>2. TCounter(c) /\ pc[c] = "finish"
    BY <2>1, CounterGoes, CounterMoves DEF Moves
  <2>3. status' = [j \in Dirs |-> [status[j] EXCEPT !.lose = Loss(j)]]
    BY <2>2 DEF TCounter, Take, TCountOn, CountOn, TCountStopped, CountStopped, CountStoppedIf, TCountOver,
                CountOver, Drain, DrainWhile, TCountEnds, Loss
  <2>4. status[i] \in Status /\ status'[i] = [status[i] EXCEPT !.lose = Loss(i)]
    BY <2>3 DEF TrafficTypes
  <2>5. /\ status'[i].lose = Loss(i) /\ status'[i].sent = status[i].sent
        /\ status'[i].rcv = status[i].rcv /\ status'[i].err = status[i].err
    BY <2>4 DEF Status
  <2> QED BY <2>5 DEF Loss
<1>2. CASE \A c \in Counters : pc[c] = "gone"
  <2>0. taken = Nobody /\ \A s \in Senders : pc[s] # "send"
    BY <1>2 DEF HandInv, AtWork
  <2>1. /\ ~\E t \in Counters : TCounter(t)
        /\ ~\E good \in BOOLEAN : Count(good)
    BY <1>2, <2>0 DEF TCounter, Take, TCountOn, CountOn, TCountStopped, CountStopped, CountStoppedIf, TCountOver,
                CountOver, Drain, DrainWhile, TCountEnds, CounterEnds, CounterClear, CounterHook,
                CounterHookTo, CounterReady, CounterTimer, CounterFinish, Count
  <2>2. state[i] = "FINISHED" => status[i].lose = Loss(i)
    BY <1>2 DEF LossInv
  <2>3. ASSUME state[i] = "FINISHED", status'[i].lose = status[i].lose, status'[i].sent = status[i].sent,
               status'[i].rcv = status[i].rcv, status'[i].err = status[i].err
        PROVE  status'[i].lose = Loss(i)'
    BY <2>2, <2>3 DEF Loss
  <2>4. CASE TCmd
    <3>1. CmdStep /\ ClearTo(Fresh)
      BY <2>4 DEF TCmd, Clear
    <3>2. ~Creates(i) /\ state'[i] = state[i]
      <4>1. CASE state' = state
        <5>1. CASE Creates(i)
          <6>1. Creates(ci) /\ i = ci
            BY <5>1 DEF Creates
          <6>2. CreateSender \/ CreateSenderFails
            BY <3>1, <6>1, CmdMoves
          <6>3. state'[i] = "IDLE"
            BY <6>1, <6>2 DEF CreateSender, CreateSenderFails, SInv, TypeOK
          <6> QED BY <6>3
        <5> QED BY <4>1, <5>1
      <4>2. CASE Creates(ci) /\ state' = [state EXCEPT ![ci] = "IDLE"]
        <5>1. i # ci
          BY <4>2 DEF SInv, TypeOK
        <5> QED BY <4>2, <5>1 DEF Creates, SInv, TypeOK
      <4> QED BY <3>1, <4>1, <4>2, CmdMoves
    <3>3. status'[i] = status[i]
      BY <3>1, <3>2, Clears, FreshStatus
    <3> QED BY <2>3, <3>2, <3>3
  <2>5. ASSUME NEW t \in Senders, TSender(t) PROVE status'[i].lose = Loss(i)'
    <3>0. t \in Threads /\ Slot(t) \in Dirs
      BY Ranges
    <3>1. CASE TSenderStarts(t)
      <4>1. status' = status /\ state' = [state EXCEPT ![Slot(t)] = "RUNNING"]
        BY <3>1 DEF TSenderStarts, SenderStarts
      <4>2. state[i] = "FINISHED"
        BY <4>1 DEF SInv, TypeOK
      <4> QED BY <2>3, <4>1, <4>2
    <3>2. CASE SendPacket(t) \/ SendNothing(t) \/ CountSent(t) \/ TSenderLeaves(t)
      BY <2>0, <3>2 DEF SendPacket, SendNothing, CountSent, TSenderLeaves, TSenderLeavesFrom, SenderLeaves
    <3>3. CASE TSenderEnds(t)
      <4>1. state' = state /\ (status' = status \/ status' = [status EXCEPT ![Slot(t)].ended = TRUE])
        BY <3>3 DEF TSenderEnds, traffic, SenderClear, SenderClearTo, SenderOff, SenderEnd, shared
      <4>2. /\ status'[i].lose = status[i].lose /\ status'[i].sent = status[i].sent
            /\ status'[i].rcv = status[i].rcv /\ status'[i].err = status[i].err
        BY <3>0, <4>1 DEF TrafficTypes, Status
      <4> QED BY <2>3, <4>1, <4>2
    <3> QED BY <2>5, <3>1, <3>2, <3>3 DEF TSender
  <2>6. CASE \/ UNCHANGED tvars \/ WireLoses \/ Receive
             \/ \E e \in Enables, l \in Loops : TParse(e, l)
    <3>1. UNCHANGED <<status, state>>
      BY <2>6 DEF tvars, vars, shared, traffic, WireLoses, Receive, RcvFast, RcvProbe, TParse, CmdParse
    <3> QED BY <2>3, <3>1
  <2> QED BY <2>1, <2>4, <2>5, <2>6 DEF TNext
<1> QED BY <1>1, <1>2
-----------------------------------------------------------------------------
(* What is queued is of interest to a compute thread, or came too late.    *)

QueueInv == queue # <<>> /\ ~stray => Collecting

LEMMA QueueStep ==
  ASSUME Base, TrafficTypes, QueueInv, [TNext]_tvars
  PROVE  QueueInv'
<1> USE DEF Base
<1> SUFFICES ASSUME queue' # <<>>, ~stray' PROVE Collecting'
  BY DEF QueueInv
<1>1. Collecting
  <2>1. CASE RcvFast
    BY <2>1 DEF RcvFast, QueueInv
  <2>2. ASSUME NEW t \in Counters, Take(t) PROVE Collecting
    <3>1. queue \in Seq(Dirs) /\ queue # <<>> /\ queue' = Tail(queue) /\ stray' = (stray /\ Len(queue) > 1)
      BY <2>2 DEF Take, TrafficTypes, FrameTypes
    <3>2. Len(queue) > 1
      BY <3>1
    <3>3. ~stray
      BY <3>1, <3>2
    <3> QED BY <3>1, <3>3 DEF QueueInv
  <2>3. ASSUME NEW t \in Counters, Drain(t) PROVE Collecting
    BY <2>3 DEF Drain, DrainWhile, Collecting
  <2>4. CASE UNCHANGED <<queue, stray>>
    BY <2>4 DEF QueueInv
  <2>5. CASE \/ UNCHANGED tvars \/ WireLoses \/ RcvProbe \/ (\E good \in BOOLEAN : Count(good))
             \/ \E e \in Enables, l \in Loops : TParse(e, l)
    BY <2>4, <2>5 DEF tvars, traffic, past, WireLoses, RcvProbe, Count, TParse
  <2>6. CASE TCmd
    BY <2>4, <2>6, Clears, FreshStatus DEF TCmd, Clear
  <2>7. ASSUME NEW t \in Senders, TSender(t) PROVE Collecting
    BY <2>4, <2>7 DEF TSender, TSenderStarts, SendPacket, SendNothing, CountSent, TSenderLeaves,
                      TSenderLeavesFrom, TSenderEnds, traffic, past
  <2>8. ASSUME NEW t \in Counters, TCountOn(t) \/ TCountStopped(t) \/ TCountOver(t) \/ TCountEnds(t)
        PROVE  Collecting
    BY <2>4, <2>8 DEF TCountOn, TCountStopped, TCountOver, TCountEnds, traffic, past
  <2> QED BY <2>1, <2>2, <2>3, <2>5, <2>6, <2>7, <2>8 DEF TNext, TCounter, Receive
<1>2. PICK c \in Counters : pc[c] \in {"new", "look", "linger", "clear"}
  BY <1>1 DEF Collecting
<1>3. pc'[c] \in {"new", "look", "linger", "clear"}
  <2> SUFFICES ASSUME pc'[c] # pc[c], ~Moves(c, "new", "look") PROVE pc'[c] \in {"new", "look", "linger", "clear"}
    BY <1>2 DEF Moves
  <2>1. TCounter(c) /\ CounterStep(c)
    BY <1>2, CounterGoes
  <2>2. pc[c] # "clear"
    BY <2>1 DEF TCounter, Take, TCountOn, CountOn, TCountStopped, CountStopped, CountStoppedIf, TCountOver,
                CountOver, Drain, DrainWhile, TCountEnds, vars, threads
  <2> QED BY <1>2, <2>1, <2>2, CounterMoves DEF Moves
<1> QED BY <1>3 DEF Collecting
-----------------------------------------------------------------------------
(* A direction whose status was not cleared under an ending sender has one *)
(* sender at most, and shows an end only when that one has gone.           *)

EndInv ==
  \A i \in Dirs : ~overlap[i] =>
    /\ \A s, u \in Senders : Slot(s) = i /\ Slot(u) = i /\ pc[s] # "gone" /\ pc[u] # "gone" => s = u
    /\ status[i].ended => \A s \in Senders : Slot(s) = i => pc[s] = "gone"

LEMMA EndStep ==
  ASSUME Base, TrafficTypes, EndInv, [TNext]_tvars
  PROVE  EndInv'
<1> USE DEF Base
<1>0. \A s \in Senders : s \in Threads /\ Slot(s) \in Dirs
  BY Ranges
<1>1. CASE TCmd
  <2> SUFFICES ASSUME NEW i \in Dirs, ~overlap'[i]
               PROVE  /\ \A s, u \in Senders : Slot(s) = i /\ Slot(u) = i /\ pc'[s] # "gone" /\ pc'[u] # "gone" => s = u
                      /\ status'[i].ended => \A s \in Senders : Slot(s) = i => pc'[s] = "gone"
    BY DEF EndInv, Slot
  <2>1. CmdStep /\ ClearTo(Fresh)
    BY <1>1 DEF TCmd, Clear
  <2>2. CASE Creates(i)
    <3>1. status'[i] = Fresh /\ \A s \in Senders : Slot(s) = i => pc[s] = "gone"
      <4>1. status'[i] = Fresh /\ overlap'[i] = \E s \in Senders : Slot(s) = i /\ pc[s] # "gone"
        BY <2>1, <2>2, Clears, FreshStatus
      <4> QED BY <4>1
    <3>2. \A s \in Senders : Slot(s) = i /\ pc'[s] # "gone" => Moves(s, "gone", "new")
      BY <2>1, <3>1, CmdMoves DEF Moves
    <3> QED BY <2>1, <3>1, <3>2, CmdMoves DEF Fresh
  <2>3. CASE ~Creates(i)
    <3>1. status'[i] = status[i] /\ overlap'[i] = overlap[i]
      BY <2>1, <2>3, Clears, FreshStatus
    <3>2. \A s \in Senders : Slot(s) = i /\ pc'[s] # "gone" => pc[s] # "gone"
      BY <2>1, <2>3, CmdMoves DEF Moves
    <3> QED BY <3>1, <3>2 DEF EndInv
  <2> QED BY <2>2, <2>3
<1>2. CASE ~TCmd
  <2>1. \A s \in Senders : pc'[s] # "gone" => pc[s] # "gone"
    BY <1>2, SenderComes
  <2>2. ASSUME overlap' = overlap, \A i \in Dirs : status'[i].ended = status[i].ended
        PROVE  EndInv'
    BY <2>1, <2>2 DEF EndInv, Slot
  <2>3. ASSUME NEW t \in Senders, SenderEnd(t), status' = [status EXCEPT ![Slot(t)].ended = TRUE],
               overlap' = overlap
        PROVE  EndInv'
    <3>1. SenderStep(t) /\ pc[t] = "end" /\ pc'[t] = "gone"
      BY <1>0, <2>3, EndsMoves DEF SenderEnd, SenderStep, Ended
    <3>2. \A i \in Dirs : i # Slot(t) => status'[i] = status[i]
      BY <1>0, <2>3 DEF TrafficTypes
    <3>3. \A s \in Senders : Slot(s) = Slot(t) /\ ~overlap[Slot(t)] => pc'[s] = "gone"
      BY <1>0, <2>1, <3>1 DEF EndInv
    <3> QED BY <2>1, <2>3, <3>2, <3>3 DEF EndInv, Slot
  <2>4. ASSUME NEW t \in Senders, TSender(t) PROVE EndInv'
    <3>1. CASE CountSent(t)
      <4>1. \A i \in Dirs : status'[i].ended = status[i].ended
        BY <1>0, <3>1 DEF CountSent, TrafficTypes, Status
      <4> QED BY <2>2, <3>1, <4>1 DEF CountSent, past
    <3>2. CASE TSenderEnds(t) /\ SenderEnd(t)
      BY <2>2, <2>3, <3>2 DEF TSenderEnds, traffic, past
    <3>3. CASE ~CountSent(t) /\ ~SenderEnd(t)
      <4>1. UNCHANGED <<status, overlap>>
        BY <2>4, <3>3 DEF TSender, TSenderStarts, SendPacket, SendNothing, TSenderLeaves,
                     TSenderLeavesFrom, TSenderEnds, traffic, past
      <4> QED BY <2>2, <4>1
    <3>4. SenderEnd(t) => TSenderEnds(t) \/ CountSent(t)
      BY <2>4 DEF SenderEnd, TSender, TSenderStarts, SenderStarts, SendPacket, SendNothing, TSenderLeaves,
                  TSenderLeavesFrom, SenderLeaves
    <3> QED BY <3>1, <3>2, <3>3, <3>4
  <2>5. ASSUME NEW t \in Counters, TCounter(t) PROVE EndInv'
    <3>1. CASE Take(t)
      BY <2>2, <3>1 DEF Take
    <3>2. CASE ~Take(t)
      <4>1. overlap' = overlap
        BY <2>5, <3>2, CounterEffects
      <4>2. \A i \in Dirs : status'[i].ended = status[i].ended
        BY <2>5, <3>2, CounterEffects DEF TrafficTypes, Status
      <4> QED BY <2>2, <4>1, <4>2
    <3> QED BY <3>1, <3>2
  <2>6. ASSUME NEW good \in BOOLEAN, Count(good) PROVE EndInv'
    <3>1. \A i \in Dirs : status'[i].ended = status[i].ended
      BY <2>6 DEF Count, TrafficTypes, FrameTypes, Taken, Status
    <3> QED BY <2>2, <2>6, <3>1 DEF Count, past
  <2>7. CASE \/ UNCHANGED tvars \/ WireLoses \/ Receive
             \/ \E e \in Enables, l \in Loops : TParse(e, l)
    <3>1. UNCHANGED <<status, overlap>>
      BY <2>7 DEF tvars, traffic, past, WireLoses, Receive, RcvFast, RcvProbe, TParse
    <3> QED BY <2>2, <3>1
  <2> QED BY <1>2, <2>4, <2>5, <2>6, <2>7 DEF TNext
<1> QED BY <1>1, <1>2
-----------------------------------------------------------------------------
LEMMA ThreadsAndTraffic == TSpec => [](Base /\ TrafficTypes /\ FlowInv /\ HandInv /\ LossInv /\ QueueInv /\ EndInv)
<1>1. TInit => HandInv /\ LossInv /\ QueueInv /\ EndInv
  BY Ranges DEF TInit, Init, Start, HandInv, LossInv, QueueInv, EndInv, Fresh
<1>2. Base /\ TrafficTypes /\ HandInv /\ LossInv /\ QueueInv /\ EndInv /\ [TNext]_tvars =>
        HandInv' /\ LossInv' /\ QueueInv' /\ EndInv'
  BY HandStep, LossStep, QueueStep, EndStep
<1> QED BY FlowAlways, <1>1, <1>2, PTL DEF TSpec

\* The compute thread of a test empties the queue before it goes
\* (speedtest_compute_func): what is found there later came behind its back.
THEOREM QueuesAreEmptied == TSpec => []NoneStaysQueued
<1>1. QueueInv => NoneStaysQueued
  <2> SUFFICES ASSUME QueueInv, TestOver, queue # <<>> PROVE stray
    BY DEF NoneStaysQueued
  <2>1. ~Collecting
    BY Ranges DEF TestOver, Collecting
  <2> QED BY <2>1 DEF QueueInv
<1> QED BY ThreadsAndTraffic, <1>1, PTL

\* A sender stores end_time when it leaves, and run_speedtest_by_cmd clears it
\* for the next one: only a sender that is still ending then can spoil it.
THEOREM NoEndOfAnother == TSpec => []EndIsOwn
<1>1. EndInv => EndIsOwn
  BY Ranges DEF EndInv, EndIsOwn
<1> QED BY ThreadsAndTraffic, <1>1, PTL

\* The loss that speedtest_compute_func shows for a finished test, in 64 bits
\* or any other width: the packets that were lost or are still somewhere, less
\* those with errors.
THEOREM LossIsExact == TSpec => []LossIsReal
<1>1. Base /\ TrafficTypes /\ FlowInv /\ HandInv /\ LossInv => LossIsReal
  <2> SUFFICES ASSUME Base, TrafficTypes, FlowInv, HandInv, LossInv, TestOver,
                      NEW i \in Dirs, state[i] = "FINISHED", ~mixed[i]
               PROVE  (status[i].lose + status[i].err) % W
                        = missed[i] + Frames(wire, i) + Frames(queue, i)
    BY DEF LossIsReal
  <2>1. \A t \in Senders \cup Counters : pc[t] = "gone"
    BY Ranges DEF TestOver
  <2>2. Uncounted(i) = 0 /\ InHand(i) = 0
    BY <2>1 DEF FlowInv, Sending, HandInv, AtWork, Uncounted, InHand
  <2>3. status[i].rcv + 0 + Frames(queue, i) + Frames(wire, i) + missed[i] = status[i].sent + 0
        /\ status[i].sent + 0 <= MaxSent
    BY <2>2 DEF FlowInv, Accounted
  <2> DEFINE a == missed[i] + Frames(wire, i) + Frames(queue, i)
             e == status[i].err
  <2>4. a \in Nat /\ a < W /\ e \in Nat /\ e < W /\ status[i].sent = status[i].rcv + a
    <3>1. /\ status[i].sent \in Nat /\ status[i].rcv \in Nat /\ missed[i] \in Nat
          /\ Frames(wire, i) \in Nat /\ Frames(queue, i) \in Nat /\ status[i].err \in 0 .. W - 1
      BY Numbers DEF Counts
    <3> QED BY <2>3, <3>1, Modulo
  <2>5. status[i].lose = (a + 2 * W - e) % W
    <3>1. status[i].lose = (status[i].sent + 2 * W - status[i].rcv - status[i].err) % W
      BY <2>1 DEF LossInv, Loss
    <3>2. status[i].sent + 2 * W - status[i].rcv - status[i].err = a + 2 * W - e
      BY <2>4, Numbers, Modulo
    <3> QED BY <3>1, <3>2
  <2> HIDE DEF a, e
  <2>0. W \in Nat
    BY Modulo
  <2>6. CASE e <= a
    <3>1. a - e \in Nat /\ a - e < W /\ a + 2 * W - e = (a - e) + 2 * W
      BY <2>0, <2>4, <2>6
    <3>2. status[i].lose = a - e
      BY <2>5, <3>1, Modulo
    <3>3. status[i].lose + e = a
      BY <2>4, <3>2
    <3> QED BY <2>4, <3>3, Modulo DEF a, e
  <2>7. CASE a < e
    <3>1. a - e + W \in Nat /\ a - e + W < W /\ a + 2 * W - e = (a - e + W) + W
      BY <2>0, <2>4, <2>7
    <3>2. status[i].lose = a - e + W
      BY <2>5, <3>1, Modulo
    <3>3. status[i].lose + e = a + W
      BY <2>4, <3>2, Modulo
    <3> QED BY <2>4, <3>3, Modulo DEF a, e
  <2> QED BY <2>4, <2>6, <2>7
<1> QED BY ThreadsAndTraffic, <1>1, PTL
=============================================================================
