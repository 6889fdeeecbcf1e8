-------------------------- MODULE SpeedTestProofs --------------------------
(***************************************************************************)
(* Theorems about SpeedTest for any number of directions and threads: the  *)
(* types, that a slot never has two threads at work, that a command meets  *)
(* no bad pointer as long as nothing gets in its way, and that the last    *)
(* thread of a test leaves everything at rest.                             *)
(***************************************************************************)
EXTENDS SpeedTest, TLAPS

\* A thread at work is the one its slot's pointer names, to the moment at
\* which it clears the pointer itself.
Owner == \A t \in Threads : pc[t] \in Live \cup {"clear"} => task[Slot(t)] = t

\* A pointer names a thread of its own slot.
OwnSlot == \A s \in Slots : task[s] \in Threads => Slot(task[s]) = s

\* What the stopping loops have established before a thread is created, and
\* the range of the command's i.
CmdInv ==
  /\ cpc \in {"stop", "create", "undo", "compute", "wakecomp", "wake"} => ci \in Dirs
  /\ cpc = "stopcomp" => ci = Comp
  /\ cpc = "stop" => \A i \in Dirs : i < ci => task[i] = NULL
  /\ cpc = "create" => \A i \in Dirs : i >= ci => task[i] = NULL
  /\ cpc = "compute" => task[Comp] = NULL

SInv == TypeOK /\ Owner /\ OwnSlot /\ CmdInv

LEMMA Ranges ==
  /\ N \in Nat /\ N > 0 /\ Comp \in Slots /\ Comp \notin Dirs /\ 0 \in Dirs
  /\ \A i \in Dirs : i \in Slots /\ i # Comp
  /\ \A i \in Slots : i \in Dirs \/ i = Comp
  /\ \A i \in Dirs : i # N - 1 => i + 1 \in Dirs
  /\ \A t \in Threads : Slot(t) \in Slots
  /\ \A t \in Senders : t \in Threads /\ Slot(t) \in Dirs
  /\ \A t \in Counters : t \in Threads /\ Slot(t) = Comp
  /\ \A t \in Threads : t \in Senders \/ t \in Counters
BY Directions DEF Directions, Dirs, Comp, Slots, Threads, Slot, Senders, Counters

LEMMA NotThreads == NULL \notin Threads /\ ERR \notin Threads /\ NULL # ERR
BY BadPointers DEF BadPointers
-----------------------------------------------------------------------------
(* Owner, OwnSlot, CmdInv.                                                 *)

PtrInv == Owner /\ OwnSlot /\ CmdInv

\* A step of a thread that leaves the pointers alone, and puts no thread to
\* work that was not.
LEMMA ThreadOnly ==
  ASSUME SInv, NEW t \in Threads, NEW l, Goto(t, l), UNCHANGED <<task, cpc, ci>>,
         l \in Live \cup {"clear"} => pc[t] \in Live \cup {"clear"}
  PROVE  PtrInv'
<1>1. \A u \in Threads : pc'[u] \in Live \cup {"clear"} => pc[u] \in Live \cup {"clear"}
  BY DEF SInv, TypeOK, Goto
<1> QED BY <1>1 DEF SInv, PtrInv, Owner, OwnSlot, CmdInv

LEMMA ThreadsAlone ==
  ASSUME SInv, UNCHANGED <<pc, task, cpc, ci>>
  PROVE  PtrInv'
BY DEF SInv, PtrInv, Owner, OwnSlot, CmdInv

\* A thread clears its slot's pointer, which is its own.
LEMMA ClearsOwn ==
  ASSUME SInv, NEW t \in Threads, pc[t] = "clear", NEW l, l \notin Live \cup {"clear"},
         Goto(t, l), task' = [task EXCEPT ![Slot(t)] = NULL], UNCHANGED <<cpc, ci>>
  PROVE  PtrInv'
<1>1. Slot(t) \in Slots /\ task \in [Slots -> Pointers]
  BY Ranges DEF SInv, TypeOK
<1>2. \A s \in Slots : task'[s] = IF s = Slot(t) THEN NULL ELSE task[s]
  BY <1>1
<1>3. Owner'
  <2> SUFFICES ASSUME NEW u \in Threads, pc'[u] \in Live \cup {"clear"}
               PROVE  task'[Slot(u)] = u
    BY DEF Owner
  <2>1. u # t /\ pc[u] \in Live \cup {"clear"}
    BY DEF SInv, TypeOK, Goto
  <2>2. task[Slot(u)] = u /\ task[Slot(t)] = t
    BY <2>1 DEF SInv, Owner
  <2>3. Slot(u) # Slot(t) /\ Slot(u) \in Slots
    BY <2>1, <2>2, Ranges
  <2> QED BY <1>2, <2>2, <2>3
<1>4. OwnSlot'
  BY <1>2, NotThreads DEF SInv, OwnSlot
<1>5. CmdInv'
  BY <1>2, Ranges DEF SInv, CmdInv
<1> QED BY <1>3, <1>4, <1>5 DEF PtrInv

\* A pointer that is clear belongs to nobody at work, so it may be set.
LEMMA SetsClear ==
  ASSUME SInv, NEW s \in Slots, task[s] = NULL, NEW p,
         task' = [task EXCEPT ![s] = p],
         p \in Threads => Slot(p) = s,
         \A u \in Threads : pc'[u] \in Live \cup {"clear"} =>
           u = p \/ pc[u] \in Live \cup {"clear"}
  PROVE  Owner' /\ OwnSlot'
<1>1. \A r \in Slots : task'[r] = IF r = s THEN p ELSE task[r]
  BY DEF SInv, TypeOK
<1>2. Owner'
  <2> SUFFICES ASSUME NEW u \in Threads, pc'[u] \in Live \cup {"clear"}
               PROVE  task'[Slot(u)] = u
    BY DEF Owner
  <2>1. Slot(u) \in Slots
    BY Ranges
  <2>2. CASE u = p
    BY <1>1, <2>1, <2>2
  <2>3. CASE u # p
    <3>1. task[Slot(u)] = u
      BY <2>3 DEF SInv, Owner
    <3>2. Slot(u) # s
      BY <3>1, NotThreads
    <3> QED BY <1>1, <2>1, <3>1, <3>2
  <2> QED BY <2>2, <2>3
<1>3. OwnSlot'
  BY <1>1 DEF SInv, OwnSlot
<1> QED BY <1>2, <1>3

\* A wake-up puts only the thread to work that the pointer names.
LEMMA WakesOwn ==
  ASSUME SInv, NEW s \in Slots, NEW l, Goto(task[s], l), UNCHANGED task
  PROVE  Owner' /\ OwnSlot'
<1>1. \A u \in Threads : pc'[u] = pc[u] \/ u = task[s]
  BY DEF SInv, TypeOK, Goto
<1>2. \A u \in Threads : u = task[s] => Slot(u) = s
  BY DEF SInv, OwnSlot
<1> QED BY <1>1, <1>2 DEF SInv, Owner, OwnSlot

LEMMA CmdPtrStep ==
  ASSUME SInv, CmdStep
  PROVE  PtrInv'
<1> USE DEF threads, shared, command
<1>1. ASSUME StopNext PROVE PtrInv'
  <2>1. PICK l \in DOMAIN After :
          /\ cpc = l /\ task[ci] = NULL
          /\ IF ci = Last[l] THEN cpc' = After[l] /\ ci' = 0 ELSE cpc' = l /\ ci' = ci + 1
    BY <1>1 DEF StopNext, StopNextIf, At
  <2>2. UNCHANGED <<pc, task>>
    BY <1>1 DEF StopNext, StopNextIf
  <2>3. Owner' /\ OwnSlot'
    BY <2>2 DEF SInv, Owner, OwnSlot
  <2>4. CASE l = "stop"
    <3>1. ci \in Dirs /\ \A i \in Dirs : i < ci \/ i = ci => task[i] = NULL
      BY <2>1, <2>4 DEF SInv, CmdInv
    <3>2. \A i \in Dirs : i < ci + 1 => i < ci \/ i = ci
      BY <3>1, Ranges DEF Dirs
    <3>3. CASE ci = N - 1
      <4>1. cpc' = "create" /\ ci' = 0
        BY <2>1, <2>4, <3>3 DEF After, Last
      <4>2. \A i \in Dirs : i < ci \/ i = ci
        BY <3>3, Ranges DEF Dirs
      <4> QED BY <2>2, <2>3, <3>1, <4>1, <4>2, Ranges DEF PtrInv, CmdInv
    <3>4. CASE ci # N - 1
      <4>1. cpc' = "stop" /\ ci' = ci + 1
        BY <2>1, <2>4, <3>4 DEF After, Last
      <4> QED BY <2>2, <2>3, <3>1, <3>2, <3>4, <4>1, Ranges DEF PtrInv, CmdInv
    <3> QED BY <3>3, <3>4
  <2>5. CASE l = "undo"
    <3>1. ci \in Dirs
      BY <2>1, <2>5 DEF SInv, CmdInv
    <3>2. cpc' = "idle" \/ (cpc' = "undo" /\ ci' = ci + 1 /\ ci # N - 1)
      BY <2>1, <2>5 DEF After, Last
    <3> QED BY <2>3, <3>1, <3>2, Ranges DEF PtrInv, CmdInv
  <2>6. CASE l = "stopcomp"
    <3>1. cpc' = "compute" /\ ci' = 0 /\ task'[Comp] = NULL
      BY <2>1, <2>2, <2>6 DEF After, Last, SInv, CmdInv
    <3> QED BY <2>3, <3>1, Ranges DEF PtrInv, CmdInv
  <2> QED BY <2>1, <2>4, <2>5, <2>6 DEF After
<1>2. ASSUME StopTest \/ StopBadPointer \/ StopReturns PROVE PtrInv'
  BY <1>2, ThreadsAlone DEF StopTest, StopBadPointer, StopReturns
<1>3. ASSUME StopCall PROVE PtrInv'
  <2>1. CASE pc[task[ci]] = "new"
    BY <1>3, <2>1, ThreadOnly DEF StopCall, Live
  <2>2. CASE pc[task[ci]] # "new"
    BY <1>3, <2>2, ThreadsAlone DEF StopCall
  <2> QED BY <2>1, <2>2
<1>4. ASSUME SkipSender PROVE PtrInv'
  <2>1. ci \in Dirs /\ \A i \in Dirs : i >= ci => task[i] = NULL
    BY <1>4 DEF SkipSender, At, SInv, CmdInv
  <2>2. cpc' = "created" \/ (cpc' = "create" /\ ci' = ci + 1 /\ ci # N - 1)
    BY <1>4 DEF SkipSender, At, NextDir
  <2>3. \A i \in Dirs : i >= ci + 1 => i >= ci
    BY <2>1, Ranges DEF Dirs
  <2> QED BY <1>4, <2>1, <2>2, <2>3, Ranges DEF SkipSender, SInv, PtrInv, Owner, OwnSlot, CmdInv
<1>5. ASSUME CreateSender PROVE PtrInv'
  <2>1. ci \in Dirs /\ ci \in Slots /\ task[ci] = NULL /\ \A i \in Dirs : i >= ci => task[i] = NULL
    BY <1>5, Ranges DEF CreateSender, At, SInv, CmdInv, Dirs
  <2>2. PICK t \in Threads : Create(ci, t)
    BY <1>5 DEF CreateSender
  <2>3. Owner' /\ OwnSlot'
    BY <2>1, <2>2, SetsClear DEF Create, Goto, SInv, TypeOK
  <2>4. cpc' = "created" \/ (cpc' = "create" /\ ci' = ci + 1 /\ ci # N - 1)
    BY <1>5 DEF CreateSender, At, NextDir
  <2>5. \A i \in Dirs : i >= ci + 1 => i >= ci /\ i # ci
    BY <2>1, Ranges DEF Dirs
  <2>6. \A i \in Dirs : i # ci => task'[i] = task[i]
    BY <2>2, Ranges DEF Create, SInv, TypeOK
  <2> QED BY <2>1, <2>3, <2>4, <2>5, <2>6, Ranges DEF PtrInv, CmdInv
<1>6. ASSUME CreateSenderFails PROVE PtrInv'
  <2>1. ci \in Slots /\ task[ci] = NULL
    BY <1>6, Ranges DEF CreateSenderFails, At, SInv, CmdInv, Dirs
  <2>2. Owner' /\ OwnSlot'
    BY <1>6, <2>1, SetsClear, NotThreads DEF CreateSenderFails, CreateFails
  <2> QED BY <1>6, <2>2 DEF CreateSenderFails, PtrInv, CmdInv
<1>7. ASSUME HookFast \/ ResetReady PROVE PtrInv'
  BY <1>7 DEF HookFast, ResetReady, ResetReadyTo, At, SInv, PtrInv, Owner, OwnSlot, CmdInv
<1>8. ASSUME CreateCounter PROVE PtrInv'
  <2>1. Comp \in Slots /\ task[Comp] = NULL
    BY <1>8, Ranges DEF CreateCounter, At, SInv, CmdInv
  <2>2. PICK t \in Threads : Create(Comp, t)
    BY <1>8 DEF CreateCounter
  <2>3. Owner' /\ OwnSlot'
    BY <2>1, <2>2, SetsClear DEF Create, Goto, SInv, TypeOK
  <2>4. ci \in Dirs /\ ci' = ci /\ cpc' = "wakecomp"
    BY <1>8 DEF CreateCounter, At, SInv, CmdInv
  <2> QED BY <2>3, <2>4 DEF PtrInv, CmdInv
<1>9. ASSUME CreateCounterFails PROVE PtrInv'
  <2>1. Comp \in Slots /\ task[Comp] = NULL
    BY <1>9, Ranges DEF CreateCounterFails, At, SInv, CmdInv
  <2>2. Owner' /\ OwnSlot'
    BY <1>9, <2>1, SetsClear, NotThreads DEF CreateCounterFails, CreateFails
  <2>3. ci \in Dirs /\ ci' = ci /\ cpc' = "undo"
    BY <1>9 DEF CreateCounterFails, At, SInv, CmdInv
  <2> QED BY <2>2, <2>3 DEF PtrInv, CmdInv
<1>10. ASSUME WakeCounter PROVE PtrInv'
  <2>1. ci \in Dirs /\ ci' = ci /\ cpc' = "wake"
    BY <1>10 DEF WakeCounter, At, SInv, CmdInv
  <2>2. Owner' /\ OwnSlot'
    BY <1>10, WakesOwn, Ranges DEF WakeCounter
  <2> QED BY <2>1, <2>2 DEF PtrInv, CmdInv
<1>11. ASSUME WakeSender PROVE PtrInv'
  <2>1. ci \in Dirs /\ (cpc' = "idle" \/ (cpc' = "wake" /\ ci' = ci + 1 /\ ci # N - 1))
    BY <1>11 DEF WakeSender, WakeSenderUpTo, At, SInv, CmdInv
  <2>2. Owner' /\ OwnSlot'
    BY <1>11, <2>1, WakesOwn, Ranges DEF WakeSender, WakeSenderUpTo
  <2> QED BY <2>1, <2>2, Ranges DEF PtrInv, CmdInv
<1>12. ASSUME WakeNobody PROVE PtrInv'
  BY <1>12, ThreadsAlone DEF WakeNobody
<1> QED BY <1>1, <1>2, <1>3, <1>4, <1>5, <1>6, <1>7, <1>8, <1>9, <1>10, <1>11, <1>12 DEF CmdStep

LEMMA SenderPtrStep ==
  ASSUME SInv, NEW t \in Senders, SenderStep(t)
  PROVE  PtrInv'
<1> USE DEF threads, shared, command
<1>0. t \in Threads
  BY Ranges
<1>1. ASSUME SenderFails(t) \/ SenderOff(t) \/ SenderEnd(t) PROVE PtrInv'
  <2>1. (Goto(t, "gone") \/ Goto(t, "end")) /\ UNCHANGED <<task, cpc, ci>>
    BY <1>1 DEF SenderFails, SenderOff, SenderEnd, Ends
  <2> QED BY <1>0, <2>1, ThreadOnly DEF Live
<1>2. ASSUME SenderStarts(t) PROVE PtrInv'
  <2>1. pc[t] = "make" /\ Goto(t, "send") /\ UNCHANGED <<task, cpc, ci>>
    BY <1>2 DEF SenderStarts
  <2> QED BY <1>0, <2>1, ThreadOnly DEF Live
<1>3. ASSUME SenderLeaves(t) PROVE PtrInv'
  <2>1. pc[t] = "send" /\ Goto(t, "clear") /\ UNCHANGED <<task, cpc, ci>>
    BY <1>3 DEF SenderLeaves
  <2> QED BY <1>0, <2>1, ThreadOnly DEF Live
<1>4. ASSUME SenderClear(t) PROVE PtrInv'
  <2>1. /\ pc[t] = "clear" /\ Goto(t, "off") /\ task' = [task EXCEPT ![Slot(t)] = NULL]
        /\ UNCHANGED <<cpc, ci>>
    BY <1>4 DEF SenderClear, SenderClearTo
  <2> QED BY <1>0, <2>1, ClearsOwn DEF Live
<1> QED BY <1>1, <1>2, <1>3, <1>4 DEF SenderStep

LEMMA CounterPtrStep ==
  ASSUME SInv, NEW t \in Counters, CounterStep(t)
  PROVE  PtrInv'
<1> USE DEF threads, shared, command
<1>0. t \in Threads /\ Slot(t) = Comp
  BY Ranges
<1>1. ASSUME CountOn(t) PROVE PtrInv'
  <2>1. /\ pc[t] \in Live /\ Goto(t, IF Running THEN "look" ELSE "linger")
        /\ UNCHANGED <<task, cpc, ci>>
    BY <1>1 DEF CountOn, Live
  <2> QED BY <1>0, <2>1, ThreadOnly DEF Live
<1>2. ASSUME CountStopped(t) \/ CountOver(t) PROVE PtrInv'
  <2>1. pc[t] \in Live /\ Goto(t, "clear") /\ UNCHANGED <<task, cpc, ci>>
    BY <1>2 DEF CountStopped, CountStoppedIf, CountOver, Live
  <2> QED BY <1>0, <2>1, ThreadOnly DEF Live
<1>3. ASSUME CounterClear(t) PROVE PtrInv'
  <2>1. /\ pc[t] = "clear" /\ Goto(t, "hook") /\ task' = [task EXCEPT ![Slot(t)] = NULL]
        /\ UNCHANGED <<cpc, ci>>
    BY <1>0, <1>3 DEF CounterClear
  <2> QED BY <1>0, <2>1, ClearsOwn DEF Live
<1>4. ASSUME CounterHook(t) \/ CounterReady(t) \/ CounterTimer(t) \/ CounterFinish(t) PROVE PtrInv'
  <2>1. /\ Goto(t, "ready") \/ Goto(t, "timer") \/ Goto(t, "finish") \/ Goto(t, "gone")
        /\ UNCHANGED <<task, cpc, ci>>
    BY <1>4 DEF CounterHook, CounterHookTo, CounterReady, CounterTimer, CounterFinish, Ends
  <2>2. \A l \in {"ready", "timer", "finish", "gone"} : l \notin Live \cup {"clear"}
    BY DEF Live
  <2> QED BY <1>0, <2>1, <2>2, ThreadOnly
<1> QED BY <1>1, <1>2, <1>3, <1>4 DEF CounterStep, CounterEnds

LEMMA PtrStep ==
  ASSUME SInv, [Next]_vars
  PROVE  PtrInv'
<1>1. ASSUME NEW e \in Enables, NEW l \in Loops, CmdParse(e, l) PROVE PtrInv'
  <2>1. cpc' = "stop" /\ ci' = 0 /\ UNCHANGED <<pc, task>>
    BY <1>1 DEF CmdParse, threads
  <2>2. \A i \in Dirs : ~(i < 0)
    BY Ranges DEF Dirs
  <2> QED BY <2>1, <2>2, Ranges DEF SInv, PtrInv, Owner, OwnSlot, CmdInv
<1>2. ASSUME (\E e \in Enables : CmdRejected(e)) \/ UNCHANGED vars PROVE PtrInv'
  BY <1>2, ThreadsAlone DEF CmdRejected, vars, threads, shared, command
<1> QED BY <1>1, <1>2, CmdPtrStep, SenderPtrStep, CounterPtrStep DEF Next
-----------------------------------------------------------------------------
(* Types, in three parts.                                                  *)

ThreadTypes ==
  /\ pc \in [Threads -> SenderPcs \cup CounterPcs]
  /\ \A t \in Senders : pc[t] \in SenderPcs
  /\ \A t \in Counters : pc[t] \in CounterPcs
  /\ stop \in [Threads -> BOOLEAN] /\ self \in [Threads -> BOOLEAN]

SharedTypes ==
  /\ task \in [Slots -> Pointers] /\ enable \in [Dirs -> 0..1]
  /\ state \in [Dirs -> {"IDLE", "RUNNING", "FINISHED"}]
  /\ rx \in Hooks /\ ready \subseteq Dirs
  /\ timer \in {"idle", "pending", "corrupt"} /\ loop \in 0..1

CommandTypes ==
  /\ cpc \in {"idle", "stop", "create", "created", "reset", "stopcomp", "compute", "undo", "wakecomp", "wake"}
  /\ ci \in Slots /\ kpc \in {"test", "call", "wait"} /\ victim \in Threads \cup {NULL}
  /\ flag \in BOOLEAN /\ calm \in BOOLEAN
  /\ fault \in Faults

LEMMA TypeParts == TypeOK <=> ThreadTypes /\ SharedTypes /\ CommandTypes
BY DEF TypeOK, ThreadTypes, SharedTypes, CommandTypes

LEMMA GotoType ==
  ASSUME ThreadTypes, NEW t, NEW l, Goto(t, l),
         t \in Senders => l \in SenderPcs, t \in Counters => l \in CounterPcs,
         stop' \in [Threads -> BOOLEAN], self' \in [Threads -> BOOLEAN]
  PROVE  ThreadTypes'
<1>1. CASE t \in Threads
  <2>1. l \in SenderPcs \cup CounterPcs
    BY <1>1, Ranges
  <2> QED BY <1>1, <2>1, Ranges DEF ThreadTypes, Goto
<1>2. CASE t \notin Threads
  <2>1. pc' = pc
    BY <1>2 DEF ThreadTypes, Goto
  <2> QED BY <2>1 DEF ThreadTypes
<1> QED BY <1>1, <1>2

LEMMA EndsType ==
  ASSUME ThreadTypes, NEW t \in Threads, Ends(t)
  PROVE  ThreadTypes'
<1>1. stop' \in [Threads -> BOOLEAN] /\ self' \in [Threads -> BOOLEAN]
  BY DEF ThreadTypes, Ends
<1> QED BY <1>1, GotoType DEF Ends, SenderPcs, CounterPcs

LEMMA ThreadTypeCmd ==
  ASSUME SInv, CmdStep
  PROVE  ThreadTypes'
<1> USE TypeParts DEF threads, shared, command
<1>0. ThreadTypes /\ stop \in [Threads -> BOOLEAN] /\ self \in [Threads -> BOOLEAN]
  BY DEF SInv, ThreadTypes
<1>1. ASSUME UNCHANGED threads PROVE ThreadTypes'
  BY <1>0, <1>1 DEF ThreadTypes
<1>2. ASSUME StopCall PROVE ThreadTypes'
  <2>1. CASE pc[task[ci]] = "new"
    BY <1>0, <1>2, <2>1, GotoType DEF StopCall, SenderPcs, CounterPcs
  <2>2. CASE pc[task[ci]] # "new"
    BY <1>0, <1>2, <2>2 DEF StopCall, ThreadTypes
  <2> QED BY <2>1, <2>2
<1>3. ASSUME CreateSender \/ CreateCounter PROVE ThreadTypes'
  <2>1. PICK t \in Threads : Goto(t, "new") /\ UNCHANGED <<stop, self>>
    BY <1>3 DEF CreateSender, CreateCounter, Create
  <2> QED BY <1>0, <2>1, GotoType DEF SenderPcs, CounterPcs
<1>4. ASSUME WakeCounter PROVE ThreadTypes'
  <2>1. task[Comp] \notin Senders
    BY Ranges DEF SInv, OwnSlot
  <2> QED BY <1>0, <1>4, <2>1, GotoType DEF WakeCounter, CounterPcs
<1>5. ASSUME WakeSender PROVE ThreadTypes'
  <2>1. ci \in Dirs
    BY <1>5 DEF WakeSender, WakeSenderUpTo, At, SInv, CmdInv
  <2>2. task[ci] \notin Counters
    BY <2>1, Ranges DEF SInv, OwnSlot
  <2> QED BY <1>0, <1>5, <2>2, GotoType DEF WakeSender, WakeSenderUpTo, SenderPcs
<1>6. ASSUME \/ StopNext \/ StopTest \/ StopBadPointer \/ StopReturns \/ SkipSender
             \/ HookFast \/ ResetReady \/ WakeNobody
      PROVE  UNCHANGED threads
  BY <1>6 DEF StopNext, StopNextIf, StopTest, StopBadPointer, StopReturns, SkipSender,
              HookFast, ResetReady, ResetReadyTo, WakeNobody
<1>7. ASSUME CreateSenderFails \/ CreateCounterFails PROVE UNCHANGED threads
  BY <1>7 DEF CreateSenderFails, CreateCounterFails, CreateFails
<1> QED BY <1>1, <1>2, <1>3, <1>4, <1>5, <1>6, <1>7 DEF CmdStep

LEMMA ThreadTypeThreads ==
  ASSUME SInv, (\E t \in Senders : SenderStep(t)) \/ (\E t \in Counters : CounterStep(t))
  PROVE  ThreadTypes'
<1> USE TypeParts DEF threads, shared, command
<1>0. ThreadTypes /\ stop \in [Threads -> BOOLEAN] /\ self \in [Threads -> BOOLEAN]
  BY DEF SInv, ThreadTypes
<1>1. ASSUME NEW t \in Threads, NEW b \in BOOLEAN, self' = [self EXCEPT ![t] = b]
      PROVE  self' \in [Threads -> BOOLEAN]
  BY <1>0, <1>1
<1>2. ASSUME NEW t \in Senders, SenderStep(t) PROVE ThreadTypes'
  <2>0. t \in Threads /\ t \notin Counters
    BY Ranges
  <2>1. CASE SenderFails(t) \/ SenderEnd(t)
    BY <1>0, <2>0, <2>1, EndsType DEF SenderFails, SenderEnd
  <2>2. CASE SenderStarts(t) \/ SenderClear(t) \/ SenderOff(t)
    <3>1. (Goto(t, "send") \/ Goto(t, "off") \/ Goto(t, "end")) /\ UNCHANGED <<stop, self>>
      BY <2>2 DEF SenderStarts, SenderClear, SenderClearTo, SenderOff
    <3> QED BY <1>0, <2>0, <3>1, GotoType DEF SenderPcs
  <2>3. CASE SenderLeaves(t)
    <3>1. Goto(t, "clear") /\ stop' = stop /\ self' = [self EXCEPT ![t] = ~stop[t]]
      BY <2>3 DEF SenderLeaves
    <3>2. stop[t] \in BOOLEAN
      BY <1>0, <2>0
    <3>3. (~stop[t]) \in BOOLEAN
      BY <3>2
    <3>4. self' \in [Threads -> BOOLEAN]
      BY <1>1, <2>0, <3>1, <3>3
    <3> QED BY <1>0, <2>0, <3>1, <3>4, GotoType DEF SenderPcs
  <2> QED BY <1>2, <2>1, <2>2, <2>3 DEF SenderStep
<1>3. ASSUME NEW t \in Counters, CounterStep(t) PROVE ThreadTypes'
  <2>0. t \in Threads /\ t \notin Senders
    BY Ranges
  <2>1. CASE CounterFinish(t)
    BY <1>0, <2>0, <2>1, EndsType DEF CounterFinish
  <2>2. CASE CountOn(t) \/ CountStopped(t) \/ CounterClear(t)
    <3>1. /\ Goto(t, IF Running THEN "look" ELSE "linger") \/ Goto(t, "clear") \/ Goto(t, "hook")
          /\ UNCHANGED <<stop, self>>
      BY <2>2 DEF CountOn, CountStopped, CountStoppedIf, CounterClear
    <3> QED BY <1>0, <2>0, <3>1, GotoType DEF CounterPcs
  <2>3. CASE CounterHook(t) \/ CounterReady(t) \/ CounterTimer(t)
    <3>1. /\ Goto(t, "ready") \/ Goto(t, "timer") \/ Goto(t, "finish")
          /\ UNCHANGED <<stop, self>>
      BY <2>3 DEF CounterHook, CounterHookTo, CounterReady, CounterTimer
    <3> QED BY <1>0, <2>0, <3>1, GotoType DEF CounterPcs
  <2>4. CASE CountOver(t)
    <3>1. Goto(t, "clear") /\ stop' = stop /\ self' = [self EXCEPT ![t] = TRUE]
      BY <2>4 DEF CountOver
    <3>2. self' \in [Threads -> BOOLEAN]
      BY <1>1, <2>0, <3>1
    <3> QED BY <1>0, <2>0, <3>1, <3>2, GotoType DEF CounterPcs
  <2> QED BY <1>3, <2>1, <2>2, <2>3, <2>4 DEF CounterStep, CounterEnds
<1> QED BY <1>2, <1>3

LEMMA SharedTypeStep ==
  ASSUME SInv, [Next]_vars
  PROVE  SharedTypes'
<1> USE TypeParts DEF threads, shared, command
<1>0. SharedTypes
  BY DEF SInv
<1>1. ASSUME UNCHANGED shared PROVE SharedTypes'
  BY <1>0, <1>1 DEF SharedTypes
<1>2. ASSUME NEW e \in Enables, NEW l \in Loops, CmdParse(e, l) PROVE SharedTypes'
  BY <1>0, <1>2, CommandInputs DEF CmdParse, SharedTypes, CommandInputs
<1>3. ASSUME NEW e \in Enables, CmdRejected(e) PROVE SharedTypes'
  BY <1>0, <1>3, Ranges, CommandInputs DEF CmdRejected, SharedTypes, CommandInputs
<1>4. ASSUME NEW s \in Slots, NEW p \in Pointers, task' = [task EXCEPT ![s] = p],
             UNCHANGED <<enable, rx, ready, timer, loop>>,
             state' = state \/ \E i \in Dirs : state' = [state EXCEPT ![i] = "IDLE"]
      PROVE  SharedTypes'
  <2>1. task' \in [Slots -> Pointers]
    BY <1>0, <1>4 DEF SharedTypes
  <2>2. state' \in [Dirs -> {"IDLE", "RUNNING", "FINISHED"}]
    BY <1>0, <1>4 DEF SharedTypes
  <2> QED BY <1>0, <1>4, <2>1, <2>2 DEF SharedTypes
<1>5. ASSUME CreateSender \/ CreateSenderFails PROVE SharedTypes'
  <2>1. ci \in Dirs /\ ci \in Slots
    BY <1>5, Ranges DEF CreateSender, CreateSenderFails, At, SInv, CmdInv
  <2>2. \E p \in Pointers : task' = [task EXCEPT ![ci] = p]
    BY <1>5 DEF CreateSender, CreateSenderFails, Create, CreateFails, Pointers
  <2>3. /\ UNCHANGED <<enable, rx, ready, timer, loop>>
        /\ state' = [state EXCEPT ![ci] = "IDLE"]
    BY <1>5 DEF CreateSender, CreateSenderFails
  <2> QED BY <1>4, <2>1, <2>2, <2>3
<1>6. ASSUME CreateCounter \/ CreateCounterFails PROVE SharedTypes'
  <2>1. \E p \in Pointers : task' = [task EXCEPT ![Comp] = p]
    BY <1>6 DEF CreateCounter, CreateCounterFails, Create, CreateFails, Pointers
  <2>2. UNCHANGED <<enable, rx, ready, timer, loop, state>>
    BY <1>6 DEF CreateCounter, CreateCounterFails
  <2> QED BY <1>4, <2>1, <2>2, Ranges
<1>7. ASSUME HookFast \/ ResetReady PROVE SharedTypes'
  BY <1>0, <1>7 DEF HookFast, ResetReady, ResetReadyTo, SharedTypes, Hooks
<1>8. ASSUME \/ StopNext \/ StopTest \/ StopBadPointer \/ StopCall \/ StopReturns
             \/ SkipSender \/ WakeCounter \/ WakeSender \/ WakeNobody
      PROVE  UNCHANGED shared
  BY <1>8 DEF StopNext, StopNextIf, StopTest, StopBadPointer, StopCall, StopReturns,
              SkipSender, WakeCounter, WakeSender, WakeSenderUpTo, WakeNobody
<1>9. ASSUME NEW t \in Senders, SenderStep(t) PROVE SharedTypes'
  <2>0. Slot(t) \in Dirs /\ Slot(t) \in Slots
    BY Ranges
  <2>1. CASE SenderFails(t) \/ SenderLeaves(t) \/ SenderEnd(t)
    BY <1>1, <2>1 DEF SenderFails, SenderLeaves, SenderEnd
  <2>2. CASE SenderStarts(t)
    BY <1>0, <2>0, <2>2 DEF SenderStarts, SharedTypes
  <2>3. CASE SenderClear(t)
    <3>1. NULL \in Pointers /\ task' = [task EXCEPT ![Slot(t)] = NULL]
      BY <2>3 DEF SenderClear, SenderClearTo, Pointers
    <3>2. UNCHANGED <<enable, rx, ready, timer, loop, state>>
      BY <2>3 DEF SenderClear, SenderClearTo
    <3> QED BY <1>4, <2>0, <3>1, <3>2
  <2>4. CASE SenderOff(t)
    BY <1>0, <2>0, <2>4 DEF SenderOff, SharedTypes
  <2> QED BY <1>9, <2>1, <2>2, <2>3, <2>4 DEF SenderStep
<1>10. ASSUME NEW t \in Counters, CounterStep(t) PROVE SharedTypes'
  <2>1. CASE CountOn(t) \/ CountStopped(t) \/ CountOver(t)
    BY <1>1, <2>1 DEF CountOn, CountStopped, CountStoppedIf, CountOver
  <2>2. CASE CounterClear(t)
    <3>1. NULL \in Pointers /\ task' = [task EXCEPT ![Comp] = NULL]
      BY <2>2 DEF CounterClear, Pointers
    <3>2. UNCHANGED <<enable, rx, ready, timer, loop, state>>
      BY <2>2 DEF CounterClear
    <3> QED BY <1>4, <3>1, <3>2, Ranges
  <2>3. CASE CounterHook(t) \/ CounterTimer(t)
    BY <1>0, <2>3 DEF CounterHook, CounterHookTo, CounterTimer, SharedTypes, Hooks
  <2>4. CASE CounterReady(t)
    BY <1>0, <2>4 DEF CounterReady, SharedTypes
  <2>5. CASE CounterFinish(t)
    BY <1>0, <2>5 DEF CounterFinish, SharedTypes
  <2> QED BY <1>10, <2>1, <2>2, <2>3, <2>4, <2>5 DEF CounterStep, CounterEnds
<1>11. CASE UNCHANGED vars
  BY <1>1, <1>11 DEF vars
<1>12. CASE CmdStep
  BY <1>1, <1>5, <1>6, <1>7, <1>8, <1>12 DEF CmdStep
<1> QED BY <1>2, <1>3, <1>9, <1>10, <1>11, <1>12 DEF Next

LEMMA CommandTypeStep ==
  ASSUME SInv, [Next]_vars
  PROVE  CommandTypes'
<1> USE TypeParts DEF threads, shared, command
<1>0. CommandTypes
  BY DEF SInv
<1>1. ASSUME UNCHANGED command, calm' \in BOOLEAN, UNCHANGED fault PROVE CommandTypes'
  BY <1>0, <1>1 DEF CommandTypes
<1>2. ASSUME NEW e \in Enables, NEW l \in Loops, CmdParse(e, l) PROVE CommandTypes'
  <2>1. Calm \in BOOLEAN
    BY DEF Calm
  <2> QED BY <1>0, <1>2, <2>1, Ranges DEF CmdParse, CommandTypes
<1>3. ASSUME NEW e \in Enables, CmdRejected(e) PROVE CommandTypes'
  BY <1>0, <1>3 DEF CmdRejected, CommandTypes
<1>4. ASSUME StopNext PROVE CommandTypes'
  <2>1. PICK l \in DOMAIN After :
          /\ cpc = l
          /\ IF ci = Last[l] THEN cpc' = After[l] /\ ci' = 0 ELSE cpc' = l /\ ci' = ci + 1
    BY <1>4 DEF StopNext, StopNextIf, At
  <2>2. l \in {"stop", "undo", "stopcomp"} /\ After[l] \in {"create", "idle", "compute"}
    BY DEF After
  <2>3. cpc' \in {"stop", "undo", "stopcomp", "create", "idle", "compute"}
    BY <2>1, <2>2
  <2>4. ci # Last[l] => ci \in Dirs /\ ci # N - 1
    BY <2>1, <2>2 DEF Last, SInv, CmdInv
  <2>5. ci' \in Slots
    BY <2>1, <2>4, Ranges
  <2> QED BY <1>0, <1>4, <2>3, <2>5 DEF StopNext, StopNextIf, CommandTypes
<1>5. ASSUME StopTest \/ StopBadPointer \/ StopCall \/ StopReturns PROVE CommandTypes'
  BY <1>0, <1>5 DEF StopTest, StopBadPointer, StopCall, StopReturns, CommandTypes, Faults
<1>6. ASSUME SkipSender \/ CreateSender PROVE CommandTypes'
  <2>1. ci \in Dirs /\ (ci # N - 1 => ci + 1 \in Slots) /\ 0 \in Slots
    BY <1>6, Ranges DEF SkipSender, CreateSender, At, SInv, CmdInv
  <2>2. cpc = "create" /\ NextDir
    BY <1>6 DEF SkipSender, CreateSender, At
  <2>3. cpc' \in {"create", "created"} /\ ci' \in Slots
    BY <2>1, <2>2 DEF NextDir
  <2>4. UNCHANGED <<kpc, victim, calm, fault>> /\ flag' \in BOOLEAN
    BY <1>0, <1>6 DEF SkipSender, CreateSender, CommandTypes
  <2> QED BY <1>0, <2>3, <2>4 DEF CommandTypes
<1>7. ASSUME CreateSenderFails \/ CreateCounterFails PROVE CommandTypes'
  BY <1>0, <1>7 DEF CreateSenderFails, CreateCounterFails, CreateFails, CommandTypes
<1>8. ASSUME HookFast \/ ResetReady \/ CreateCounter \/ WakeCounter PROVE CommandTypes'
  BY <1>0, <1>8, Ranges DEF HookFast, ResetReady, ResetReadyTo, CreateCounter, WakeCounter, CommandTypes
<1>9. ASSUME WakeSender PROVE CommandTypes'
  <2>1. ci \in Dirs /\ (ci # N - 1 => ci + 1 \in Slots) /\ 0 \in Slots
    BY <1>9, Ranges DEF WakeSender, WakeSenderUpTo, At, SInv, CmdInv
  <2>2. cpc' \in {"idle", "wake"} /\ ci' \in Slots
    BY <1>9, <2>1 DEF WakeSender, WakeSenderUpTo, At
  <2>3. UNCHANGED <<kpc, victim, flag, calm, fault>>
    BY <1>9 DEF WakeSender, WakeSenderUpTo
  <2> QED BY <1>0, <2>2, <2>3 DEF CommandTypes
<1>10. ASSUME WakeNobody PROVE CommandTypes'
  BY <1>0, <1>10 DEF WakeNobody, CommandTypes, Faults
<1>11. ASSUME NEW t, Disturb(t) PROVE calm' \in BOOLEAN
  BY <1>11 DEF Disturb
<1>12. ASSUME NEW t \in Senders, SenderStep(t) PROVE CommandTypes'
  <2>1. UNCHANGED command /\ UNCHANGED fault
    BY <1>12 DEF SenderStep, SenderFails, SenderStarts, SenderLeaves, SenderClear, SenderClearTo, SenderOff, SenderEnd
  <2>2. calm' = calm \/ calm' = FALSE \/ Disturb(t)
    BY <1>12 DEF SenderStep, SenderFails, SenderStarts, SenderLeaves, SenderClear, SenderClearTo, SenderOff, SenderEnd
  <2>3. calm' \in BOOLEAN
    BY <1>0, <1>11, <2>2 DEF CommandTypes
  <2> QED BY <1>1, <2>1, <2>3
<1>13. ASSUME NEW t \in Counters, CounterStep(t) PROVE CommandTypes'
  <2>1. UNCHANGED command /\ UNCHANGED fault
    BY <1>13 DEF CounterStep, CounterEnds, CountOn, CountStopped, CountStoppedIf, CountOver,
                 CounterClear, CounterHook, CounterHookTo, CounterReady, CounterTimer, CounterFinish
  <2>2. calm' = calm \/ Disturb(t)
    BY <1>13 DEF CounterStep, CounterEnds, CountOn, CountStopped, CountStoppedIf, CountOver,
                 CounterClear, CounterHook, CounterHookTo, CounterReady, CounterTimer, CounterFinish
  <2>3. calm' \in BOOLEAN
    BY <1>0, <1>11, <2>2 DEF CommandTypes
  <2> QED BY <1>1, <2>1, <2>3
<1>14. CASE UNCHANGED vars
  BY <1>0, <1>14 DEF vars, CommandTypes
<1>15. CASE CmdStep
  BY <1>4, <1>5, <1>6, <1>7, <1>8, <1>9, <1>10, <1>15 DEF CmdStep
<1> QED BY <1>2, <1>3, <1>12, <1>13, <1>14, <1>15 DEF Next

LEMMA TypeStep ==
  ASSUME SInv, [Next]_vars
  PROVE  TypeOK'
<1>1. ASSUME UNCHANGED threads PROVE ThreadTypes'
  BY <1>1, TypeParts DEF SInv, ThreadTypes, threads
<1>2. ThreadTypes'
  BY <1>1, ThreadTypeCmd, ThreadTypeThreads DEF Next, CmdParse, CmdRejected, vars
<1> QED BY <1>2, SharedTypeStep, CommandTypeStep
        DEF TypeOK, ThreadTypes, SharedTypes, CommandTypes
-----------------------------------------------------------------------------
LEMMA InitSInv == Init => SInv
<1> SUFFICES ASSUME Init PROVE SInv
  OBVIOUS
<1>1. ThreadTypes
  BY DEF Init, Start, ThreadTypes, SenderPcs, CounterPcs, Senders, Counters
<1>2. SharedTypes
  BY DEF Init, Start, SharedTypes, Pointers, Hooks
<1>3. CommandTypes
  BY Ranges DEF Init, Start, CommandTypes, Faults
<1>4. Owner /\ OwnSlot /\ CmdInv
  BY NotThreads DEF Init, Start, Owner, OwnSlot, CmdInv, Live
<1> QED BY <1>1, <1>2, <1>3, <1>4, TypeParts DEF SInv

LEMMA SInvAlways == Spec => []SInv
<1>1. SInv /\ [Next]_vars => SInv'
  BY TypeStep, PtrStep DEF SInv, PtrInv
<1> QED BY InitSInv, <1>1, PTL DEF Spec

\* Types of the whole control state; the command's i stays inside st_cfg
\* and a thread of one slot is never woken into another slot's function.
THEOREM SpeedTyping == Spec => []TypeOK
BY SInvAlways, PTL DEF SInv

\* However commands, failures and ends of threads interleave, no slot has
\* two threads at work (run_speedtest_by_cmd and both thread functions).
THEOREM OneAtWork == Spec => []OneThreadPerSlot
<1>1. SInv => OneThreadPerSlot
  <2> SUFFICES ASSUME SInv, NEW t \in Threads, NEW u \in Threads,
                      Slot(t) = Slot(u), pc[t] \in Live, pc[u] \in Live
               PROVE  t = u
    BY DEF OneThreadPerSlot
  <2>1. task[Slot(t)] = t /\ task[Slot(u)] = u
    BY DEF SInv, Owner
  <2> QED BY <2>1
<1> QED BY SInvAlways, <1>1, PTL
-----------------------------------------------------------------------------
(* What a step of a thread does, thread by thread.                         *)

OthersStay(t) ==
  \A u \in Threads : u # t => pc'[u] = pc[u] /\ stop'[u] = stop[u] /\ self'[u] = self[u]

Moves(t, from, to) == pc[t] = from /\ pc'[t] = to

Ended(t) == pc'[t] = "gone" /\ stop'[t] = FALSE /\ self'[t] = FALSE

SameSigns(t) == stop'[t] = stop[t] /\ self'[t] = self[t]

LEMMA GotoMoves ==
  ASSUME SInv, NEW t \in Threads, NEW l, Goto(t, l)
  PROVE  /\ pc'[t] = l
         /\ UNCHANGED <<stop, self>> => OthersStay(t) /\ SameSigns(t)
BY DEF SInv, TypeOK, Goto, OthersStay, SameSigns

LEMMA EndsMoves ==
  ASSUME SInv, NEW t \in Threads, Ends(t)
  PROVE  Ended(t) /\ OthersStay(t)
BY DEF SInv, TypeOK, Ends, Goto, OthersStay, Ended

LEMMA SelfMoves ==
  ASSUME SInv, NEW t \in Threads, NEW l, NEW b, Goto(t, l), stop' = stop, self' = [self EXCEPT ![t] = b]
  PROVE  pc'[t] = l /\ stop'[t] = stop[t] /\ self'[t] = b /\ OthersStay(t)
BY DEF SInv, TypeOK, Goto, OthersStay

LEMMA SenderMoves ==
  ASSUME SInv, NEW t \in Senders, SenderStep(t)
  PROVE  /\ fault = "none" /\ UNCHANGED <<command, rx, fault>> /\ OthersStay(t)
         /\ \/ /\ pc[t] \in {"make", "end"} /\ Ended(t) /\ UNCHANGED <<task, enable, state>>
               /\ calm' = FALSE \/ (calm' = calm /\ pc[t] = "end")
            \/ /\ Moves(t, "make", "send") /\ SameSigns(t) /\ UNCHANGED <<task, enable, calm>>
               /\ state' = [state EXCEPT ![Slot(t)] = "RUNNING"]
            \/ /\ Moves(t, "send", "clear") /\ UNCHANGED <<task, enable, state, calm>>
               /\ stop'[t] = stop[t] /\ self'[t] = ~stop[t]
            \/ /\ Moves(t, "clear", "off") /\ SameSigns(t) /\ UNCHANGED <<enable, state>>
               /\ task' = [task EXCEPT ![Slot(t)] = NULL] /\ Disturb(t)
            \/ /\ Moves(t, "off", "end") /\ SameSigns(t) /\ UNCHANGED <<task, state>>
               /\ enable' = [enable EXCEPT ![Slot(t)] = 0] /\ Disturb(t)
<1> USE DEF threads, shared, command, Moves
<1>0. t \in Threads
  BY Ranges
<1>1. CASE SenderFails(t) \/ SenderEnd(t)
  BY <1>0, <1>1, EndsMoves DEF SenderFails, SenderEnd
<1>2. CASE SenderStarts(t)
  BY <1>0, <1>2, GotoMoves DEF SenderStarts
<1>3. CASE SenderLeaves(t)
  BY <1>0, <1>3, SelfMoves DEF SenderLeaves
<1>4. CASE SenderClear(t)
  BY <1>0, <1>4, GotoMoves DEF SenderClear, SenderClearTo
<1>5. CASE SenderOff(t)
  BY <1>0, <1>5, GotoMoves DEF SenderOff
<1> QED BY <1>1, <1>2, <1>3, <1>4, <1>5 DEF SenderStep

LEMMA CounterMoves ==
  ASSUME SInv, NEW t \in Counters, CounterStep(t)
  PROVE  /\ fault = "none" /\ UNCHANGED <<command, enable, fault>> /\ OthersStay(t)
         /\ \/ /\ pc[t] \in {"look", "linger"} /\ pc'[t] \in {"look", "linger"}
               /\ SameSigns(t) /\ UNCHANGED <<task, state, rx, calm>>
            \/ /\ pc[t] \in {"look", "linger"} /\ pc'[t] = "clear" /\ UNCHANGED <<task, state, rx, calm>>
               /\ stop'[t] = stop[t]
               /\ (stop[t] /\ self'[t] = self[t]) \/ (self'[t] = TRUE /\ ~Running)
            \/ /\ Moves(t, "clear", "hook") /\ SameSigns(t) /\ UNCHANGED <<state, rx>>
               /\ task' = [task EXCEPT ![Comp] = NULL] /\ Disturb(t)
            \/ /\ Moves(t, "hook", "ready") /\ SameSigns(t) /\ UNCHANGED <<task, state, calm>>
               /\ rx' = "probe"
            \/ /\ pc[t] \in {"ready", "timer"} /\ pc'[t] \in {"timer", "finish"}
               /\ SameSigns(t) /\ UNCHANGED <<task, state, rx, calm>>
            \/ /\ pc[t] = "finish" /\ Ended(t) /\ UNCHANGED <<task, rx, calm>>
               /\ state' = [i \in Dirs |-> "FINISHED"]
<1> USE DEF threads, shared, command, Moves
<1>0. t \in Threads
  BY Ranges
<1>1. CASE CountOn(t)
  <2>1. \E l \in {"look", "linger"} : Goto(t, l)
    BY <1>1 DEF CountOn
  <2> QED BY <1>0, <1>1, <2>1, GotoMoves DEF CountOn
<1>2. CASE CountStopped(t)
  BY <1>0, <1>2, GotoMoves DEF CountStopped, CountStoppedIf, SameSigns
<1>3. CASE CountOver(t)
  BY <1>0, <1>3, SelfMoves DEF CountOver
<1>4. CASE CounterClear(t)
  BY <1>0, <1>4, GotoMoves DEF CounterClear
<1>5. CASE CounterHook(t)
  BY <1>0, <1>5, GotoMoves DEF CounterHook, CounterHookTo
<1>6. CASE CounterReady(t) \/ CounterTimer(t)
  <2>1. \E l \in {"timer", "finish"} : Goto(t, l)
    BY <1>6 DEF CounterReady, CounterTimer
  <2>2. fault = "none" /\ pc[t] \in {"ready", "timer"} /\ UNCHANGED <<stop, self, task, enable, state, rx, command, calm, fault>>
    BY <1>6 DEF CounterReady, CounterTimer
  <2> QED BY <1>0, <2>1, <2>2, GotoMoves
<1>7. CASE CounterFinish(t)
  BY <1>0, <1>7, EndsMoves DEF CounterFinish
<1> QED BY <1>1, <1>2, <1>3, <1>4, <1>5, <1>6, <1>7 DEF CounterStep, CounterEnds
-----------------------------------------------------------------------------
(* kthread_stop is under way for one thread at most, and a thread on its   *)
(* way out has been told to stop or has decided for itself.                *)

StopInv ==
  /\ kpc # "test" => cpc \in DOMAIN After
  /\ kpc = "wait" => victim \in Threads /\ Slot(victim) = ci
  /\ \A t \in Threads : stop[t] => kpc = "wait" /\ victim = t /\ pc[t] \notin {"gone", "new"}
  /\ \A t \in Threads : pc[t] \in {"clear", "off"} => stop[t] \/ self[t]

\* A step of the command outside its stopping loops.
LEMMA OutsideLoops ==
  ASSUME SInv, StopInv, cpc \notin DOMAIN After, UNCHANGED <<kpc, stop, self>>,
         \A t \in Threads : pc'[t] = pc[t] \/ pc'[t] \in {"new", "look", "make"}
  PROVE  StopInv'
BY DEF StopInv

LEMMA StopCmdStep ==
  ASSUME SInv, StopInv, CmdStep
  PROVE  StopInv'
<1> USE DEF threads, shared, command
<1>1. ASSUME StopNext PROVE StopInv'
  BY <1>1 DEF StopNext, StopNextIf, StopInv
<1>2. ASSUME StopTest \/ StopBadPointer PROVE StopInv'
  BY <1>2 DEF StopTest, StopBadPointer, StopInv
<1>3. ASSUME StopCall PROVE StopInv'
  <2>1. /\ kpc = "call" /\ kpc' = "wait" /\ victim' = task[ci] /\ task[ci] \in Threads
        /\ pc[task[ci]] # "gone" /\ ci \in Slots /\ UNCHANGED <<cpc, ci, self>>
    BY <1>3 DEF StopCall, SInv, TypeOK
  <2>2. Slot(task[ci]) = ci
    BY <2>1 DEF SInv, OwnSlot
  <2>3. CASE pc[task[ci]] = "new"
    <3>1. stop' = stop /\ Goto(task[ci], "gone")
      BY <1>3, <2>3 DEF StopCall
    <3>2. \A u \in Threads : pc'[u] = pc[u] \/ pc'[u] = "gone"
      BY <2>1, <3>1 DEF SInv, TypeOK, Goto
    <3> QED BY <2>1, <2>2, <3>1, <3>2 DEF StopInv
  <2>4. CASE pc[task[ci]] # "new"
    <3>1. \A u \in Threads : stop'[u] = IF u = task[ci] THEN TRUE ELSE stop[u]
      BY <1>3, <2>1, <2>4 DEF StopCall, SInv, TypeOK
    <3>2. pc' = pc
      BY <1>3, <2>4 DEF StopCall
    <3> QED BY <2>1, <2>2, <2>4, <3>1, <3>2 DEF StopInv
  <2> QED BY <2>3, <2>4
<1>4. ASSUME StopReturns PROVE StopInv'
  BY <1>4 DEF StopReturns, StopInv
<1>5. ASSUME SkipSender \/ HookFast \/ ResetReady \/ WakeNobody PROVE StopInv'
  BY <1>5, OutsideLoops DEF SkipSender, HookFast, ResetReady, ResetReadyTo, WakeNobody, At, After
<1>6. ASSUME CreateSenderFails \/ CreateCounterFails PROVE StopInv'
  BY <1>6, OutsideLoops DEF CreateSenderFails, CreateCounterFails, CreateFails, At, After
<1>7. ASSUME CreateSender \/ CreateCounter \/ WakeCounter \/ WakeSender PROVE StopInv'
  <2>1. cpc \notin DOMAIN After /\ UNCHANGED <<kpc, stop, self>>
    BY <1>7 DEF CreateSender, CreateCounter, Create, WakeCounter, WakeSender, WakeSenderUpTo, At, After
  <2>2. \E t, l : Goto(t, l) /\ l \in {"new", "look", "make"}
    BY <1>7 DEF CreateSender, CreateCounter, Create, WakeCounter, WakeSender, WakeSenderUpTo
  <2>3. \A t \in Threads : pc'[t] = pc[t] \/ pc'[t] \in {"new", "look", "make"}
    BY <2>2 DEF Goto, SInv, TypeOK
  <2> QED BY <2>1, <2>3, OutsideLoops
<1> QED BY <1>1, <1>2, <1>3, <1>4, <1>5, <1>6, <1>7 DEF CmdStep

LEMMA StopStep ==
  ASSUME SInv, StopInv, [Next]_vars
  PROVE  StopInv'
<1> USE DEF threads, shared, command
<1>1. ASSUME NEW e \in Enables, NEW l \in Loops, CmdParse(e, l) PROVE StopInv'
  BY <1>1, OutsideLoops DEF CmdParse, At, After
<1>2. ASSUME (\E e \in Enables : CmdRejected(e)) \/ UNCHANGED vars PROVE StopInv'
  BY <1>2 DEF CmdRejected, vars, StopInv
<1>3. ASSUME NEW t \in Senders, SenderStep(t) PROVE StopInv'
  <2>1. t \in Threads /\ UNCHANGED <<cpc, ci, kpc, victim>> /\ OthersStay(t)
    BY <1>3, SenderMoves, Ranges
  <2>2. \/ Ended(t) \/ (pc'[t] = "send" /\ SameSigns(t))
        \/ (pc[t] = "send" /\ pc'[t] = "clear" /\ stop'[t] = stop[t] /\ self'[t] = ~stop[t])
        \/ (pc[t] = "clear" /\ pc'[t] = "off" /\ SameSigns(t))
        \/ (pc'[t] = "end" /\ SameSigns(t))
    BY <1>3, SenderMoves DEF Moves
  <2> QED BY <2>1, <2>2 DEF StopInv, OthersStay, SameSigns, Ended
<1>4. ASSUME NEW t \in Counters, CounterStep(t) PROVE StopInv'
  <2>1. t \in Threads /\ UNCHANGED <<cpc, ci, kpc, victim>> /\ OthersStay(t)
    BY <1>4, CounterMoves, Ranges
  <2>2. \/ Ended(t)
        \/ pc'[t] \in {"look", "linger", "hook", "ready", "timer", "finish"} /\ SameSigns(t)
        \/ (pc[t] \in {"look", "linger"} /\ pc'[t] = "clear" /\ stop'[t] = stop[t] /\ (stop[t] \/ self'[t]))
    BY <1>4, CounterMoves DEF Moves
  <2> QED BY <2>1, <2>2 DEF StopInv, OthersStay, SameSigns, Ended
<1> QED BY <1>1, <1>2, <1>3, <1>4, StopCmdStep DEF Next
-----------------------------------------------------------------------------
(* From the first kthread_create to the last wake_up_process the pointers  *)
(* of the directions name threads that never ran, or nothing.              *)

Building == {"create", "created", "reset", "stopcomp", "compute", "wakecomp"}

NotYetWoken(p) == p = NULL \/ (p \in Threads /\ pc[p] = "new")

WakeInv ==
  /\ cpc \in Building => \A i \in Dirs : NotYetWoken(task[i])
  /\ cpc = "wake" => \A i \in Dirs : i >= ci => NotYetWoken(task[i])
  /\ cpc \in {"create", "created"} /\ ~flag => \A i \in Dirs : task[i] = NULL
  /\ cpc \in {"compute", "wakecomp"} => ci = 0
  /\ cpc = "wakecomp" => task[Comp] \in Threads /\ pc[task[Comp]] = "new"
  /\ \A t \in Counters : pc[t] = "new" => cpc = "wakecomp"
  /\ \A t \in Senders : pc[t] = "new" =>
       \/ cpc \in Building \/ (cpc = "wake" /\ Slot(t) >= ci)
       \/ \E s \in Slots : task[s] = ERR

\* A pointer changes only when the thread it names clears it, and no thread
\* becomes, or ceases to be, one that never ran.
LEMMA ThreadPointers ==
  ASSUME SInv, (\E t \in Senders : SenderStep(t)) \/ (\E t \in Counters : CounterStep(t))
  PROVE  /\ \A u \in Threads : pc[u] = "new" <=> pc'[u] = "new"
         /\ \A s \in Slots : \/ task'[s] = task[s]
                             \/ task'[s] = NULL /\ task[s] \in Threads /\ pc[task[s]] = "clear"
         /\ UNCHANGED <<cpc, ci, kpc, victim, flag, fault>>
<1>1. ASSUME NEW t \in Threads, pc[t] = "clear", task' = [task EXCEPT ![Slot(t)] = NULL], NEW s \in Slots
      PROVE  task'[s] = task[s] \/ (task'[s] = NULL /\ task[s] \in Threads /\ pc[task[s]] = "clear")
  <2>1. task[Slot(t)] = t /\ Slot(t) \in Slots
    BY <1>1, Ranges DEF SInv, Owner
  <2> QED BY <1>1, <2>1 DEF SInv, TypeOK
<1>2. ASSUME NEW t \in Senders, SenderStep(t)
      PROVE  /\ t \in Threads /\ OthersStay(t) /\ pc[t] # "new" /\ pc'[t] # "new"
             /\ UNCHANGED <<cpc, ci, kpc, victim, flag, fault>>
             /\ task' = task \/ (pc[t] = "clear" /\ task' = [task EXCEPT ![Slot(t)] = NULL])
  BY <1>2, SenderMoves, Ranges DEF Moves, Ended, command
<1>3. ASSUME NEW t \in Counters, CounterStep(t)
      PROVE  /\ t \in Threads /\ OthersStay(t) /\ pc[t] # "new" /\ pc'[t] # "new"
             /\ UNCHANGED <<cpc, ci, kpc, victim, flag, fault>>
             /\ task' = task \/ (pc[t] = "clear" /\ task' = [task EXCEPT ![Slot(t)] = NULL])
  BY <1>3, CounterMoves, Ranges DEF Moves, Ended, command
<1> QED BY <1>1, <1>2, <1>3 DEF OthersStay

LEMMA WakeCmdStep ==
  ASSUME SInv, SInv', StopInv, WakeInv, CmdStep
  PROVE  WakeInv'
<1> USE DEF threads, shared, command
<1>0. Comp \in Slots /\ \A i \in Dirs : i \in Slots /\ i # Comp
  BY Ranges
<1>1. ASSUME StopNext PROVE WakeInv'
  <2>1. PICK l \in DOMAIN After :
          /\ cpc = l
          /\ IF ci = Last[l] THEN cpc' = After[l] /\ ci' = 0 ELSE cpc' = l /\ ci' = ci + 1
    BY <1>1 DEF StopNext, StopNextIf, At
  <2>2. UNCHANGED <<pc, task>>
    BY <1>1 DEF StopNext, StopNextIf
  <2>3. CASE l \in {"stop", "undo"}
    <3>1. cpc' \in {"stop", "undo", "idle"} \/ (cpc' = "create" /\ ci' = 0)
      BY <2>1, <2>3 DEF After
    <3>2. cpc' = "create" => \A i \in Dirs : task'[i] = NULL
      <4>1. \A i \in Dirs : i >= 0
        BY DEF Dirs
      <4> QED BY <3>1, <4>1 DEF SInv, CmdInv
    <3> QED BY <2>1, <2>2, <2>3, <3>1, <3>2 DEF WakeInv, Building, NotYetWoken
  <2>4. CASE l = "stopcomp"
    <3>1. cpc = "stopcomp" /\ (cpc' = "stopcomp" \/ (cpc' = "compute" /\ ci' = 0))
      BY <2>1, <2>4 DEF After
    <3> QED BY <2>2, <3>1 DEF WakeInv, Building, NotYetWoken
  <2> QED BY <2>1, <2>3, <2>4 DEF After
<1>2. ASSUME StopTest \/ StopBadPointer \/ StopReturns \/ WakeNobody PROVE WakeInv'
  BY <1>2 DEF StopTest, StopBadPointer, StopReturns, WakeNobody, WakeInv, NotYetWoken
<1>3. ASSUME StopCall PROVE WakeInv'
  <2>1. cpc \in {"stop", "undo", "stopcomp"} /\ ci \in Slots /\ task[ci] \in Threads
    BY <1>3 DEF StopCall, StopInv, After, SInv, TypeOK
  <2>2. UNCHANGED <<cpc, ci, task>>
    BY <1>3 DEF StopCall
  <2>3. \A u \in Threads : pc'[u] = pc[u] \/ (u = task[ci] /\ pc[u] = "new" /\ pc'[u] = "gone")
    BY <1>3 DEF StopCall, Goto, SInv, TypeOK
  <2>4. CASE cpc = "stopcomp"
    <3>1. task[ci] \in Counters
      BY <2>1, <2>4 DEF SInv, CmdInv, OwnSlot, Counters
    <3>2. \A u \in Threads : pc'[u] = pc[u]
      BY <2>3, <2>4, <3>1 DEF WakeInv
    <3> QED BY <2>2, <2>4, <3>2, Ranges DEF WakeInv, NotYetWoken
  <2>5. CASE cpc # "stopcomp"
    <3>1. cpc \in {"stop", "undo"} /\ \A u \in Threads : pc'[u] = "new" => pc[u] = "new"
      BY <2>1, <2>3, <2>5
    <3> QED BY <2>2, <3>1, Ranges DEF WakeInv, Building
  <2> QED BY <2>4, <2>5
<1>4. ASSUME SkipSender PROVE WakeInv'
  <2>1. cpc = "create" /\ cpc' \in {"create", "created"} /\ UNCHANGED <<pc, task, flag>>
    BY <1>4 DEF SkipSender, At, NextDir
  <2> QED BY <2>1 DEF WakeInv, Building, NotYetWoken
<1>5. ASSUME CreateSender PROVE WakeInv'
  <2>1. cpc = "create" /\ cpc' \in {"create", "created"} /\ ci \in Dirs /\ flag'
    BY <1>5 DEF CreateSender, At, NextDir, SInv, CmdInv
  <2>2. PICK t \in Threads : Create(ci, t)
    BY <1>5 DEF CreateSender
  <2>3. t \notin Counters
    BY <2>1, <2>2, <1>0, Ranges DEF Create
  <2>4. \A i \in Dirs : task'[i] = IF i = ci THEN t ELSE task[i]
    BY <1>0, <2>1, <2>2 DEF Create, SInv, TypeOK
  <2>5. \A u \in Threads : pc'[u] = IF u = t THEN "new" ELSE pc[u]
    BY <2>2 DEF Create, Goto, SInv, TypeOK
  <2>6. \A i \in Dirs : NotYetWoken(task[i]) /\ \A u \in Counters : pc[u] # "new"
    BY <2>1 DEF WakeInv, Building
  <2> QED BY <2>1, <2>3, <2>4, <2>5, <2>6, Ranges DEF WakeInv, Building, NotYetWoken
<1>6. ASSUME CreateSenderFails \/ CreateCounterFails PROVE WakeInv'
  <2>1. PICK s \in Slots : task' = [task EXCEPT ![s] = ERR]
    BY <1>0, <1>6 DEF CreateSenderFails, CreateCounterFails, CreateFails, At, SInv, CmdInv
  <2>2. task'[s] = ERR
    BY <2>1 DEF SInv, TypeOK
  <2>3. cpc \in {"create", "compute"} /\ cpc' \in {"idle", "undo"} /\ pc' = pc
    BY <1>6 DEF CreateSenderFails, CreateCounterFails, CreateFails, At
  <2> QED BY <2>2, <2>3 DEF WakeInv, Building
<1>7. ASSUME HookFast \/ ResetReady PROVE WakeInv'
  <2>1. /\ cpc \in {"created", "reset"} /\ cpc' \in {"reset", "stopcomp", "idle"} /\ UNCHANGED <<pc, task>>
        /\ cpc' = "idle" => flag = FALSE /\ cpc = "created"
    BY <1>7 DEF HookFast, ResetReady, ResetReadyTo, At, SInv, TypeOK
  <2>2. cpc' = "idle" => \A t \in Senders : pc[t] # "new"
    <3> SUFFICES ASSUME cpc' = "idle", NEW t \in Senders, pc[t] = "new" PROVE FALSE
      OBVIOUS
    <3>1. task[Slot(t)] = t /\ Slot(t) \in Dirs
      BY Ranges DEF SInv, Owner, Live
    <3> QED BY <2>1, <3>1, NotThreads, Ranges DEF WakeInv
  <2> QED BY <2>1, <2>2 DEF WakeInv, Building, NotYetWoken
<1>8. ASSUME CreateCounter PROVE WakeInv'
  <2>1. cpc = "compute" /\ cpc' = "wakecomp" /\ ci' = 0
    BY <1>8 DEF CreateCounter, At, WakeInv
  <2>2. PICK t \in Threads : Create(Comp, t)
    BY <1>8 DEF CreateCounter
  <2>3. task'[Comp] = t /\ \A i \in Dirs : task'[i] = task[i]
    BY <1>0, <2>2 DEF Create, SInv, TypeOK
  <2>4. \A u \in Threads : pc'[u] = IF u = t THEN "new" ELSE pc[u]
    BY <2>2 DEF Create, Goto, SInv, TypeOK
  <2> QED BY <2>1, <2>3, <2>4 DEF WakeInv, Building, NotYetWoken
<1>9. ASSUME WakeCounter PROVE WakeInv'
  <2>1. cpc = "wakecomp" /\ cpc' = "wake" /\ UNCHANGED <<task, ci>> /\ task[Comp] \in Threads
    BY <1>9 DEF WakeCounter, At, WakeInv
  <2>2. Slot(task[Comp]) = Comp
    BY <1>0, <2>1 DEF SInv, OwnSlot
  <2>3. \A u \in Threads : pc'[u] = IF u = task[Comp] THEN "look" ELSE pc[u]
    BY <1>9, <2>1 DEF WakeCounter, Goto, SInv, TypeOK
  <2>4. \A u \in Counters : pc'[u] # "new"
    <3> SUFFICES ASSUME NEW u \in Counters, pc[u] = "new" PROVE u = task[Comp]
      BY <2>3, Ranges
    <3> QED BY Ranges DEF SInv, Owner, Live
  <2>5. \A i \in Dirs : NotYetWoken(task[i]) /\ task[i] # task[Comp]
    <3> TAKE i \in Dirs
    <3>1. task[i] \in Threads => Slot(task[i]) = i
      BY <1>0 DEF SInv, OwnSlot
    <3> QED BY <1>0, <2>1, <2>2, <3>1 DEF WakeInv, Building
  <2>6. \A i \in Dirs : NotYetWoken(task[i])'
    BY <2>1, <2>3, <2>5 DEF NotYetWoken
  <2>7. \A t \in Senders : Slot(t) >= ci'
    <3>1. ci' = 0
      BY <2>1 DEF WakeInv
    <3> QED BY <3>1, Ranges DEF Dirs
  <2> QED BY <2>1, <2>4, <2>6, <2>7 DEF WakeInv, Building
<1>10. ASSUME WakeSender PROVE WakeInv'
  <2>1. /\ cpc = "wake" /\ ci \in Dirs /\ task[ci] # NULL /\ UNCHANGED task
        /\ (cpc' = "idle" /\ ci = N - 1) \/ (cpc' = "wake" /\ ci' = ci + 1)
    BY <1>10 DEF WakeSender, WakeSenderUpTo, At, SInv, CmdInv
  <2>2. task[ci] \in Threads /\ pc[task[ci]] = "new"
    BY <2>1, Ranges DEF WakeInv, NotYetWoken, Dirs
  <2>3. \A u \in Threads : pc'[u] = IF u = task[ci] THEN "make" ELSE pc[u]
    BY <1>10 DEF WakeSender, WakeSenderUpTo, Goto, SInv, TypeOK
  <2>4. \A u \in Senders : pc[u] = "new" /\ Slot(u) = ci => u = task[ci]
    BY Ranges DEF SInv, Owner, Live
  <2>5. \A u \in Senders : pc[u] = "new" /\ u # task[ci] /\ Slot(u) >= ci =>
          Slot(u) >= ci + 1 /\ ci # N - 1
    BY <2>1, <2>4, Ranges DEF Dirs
  <2>6. \A u \in Senders : pc'[u] = "new" => pc[u] = "new" /\ u # task[ci]
    BY <2>3, Ranges
  <2>7. \A i \in Dirs : i >= ci + 1 => i >= ci /\ i # ci /\ task[i] # task[ci]
    <3>1. \A i \in Dirs : task[i] \in Threads => Slot(task[i]) = i
      BY <1>0 DEF SInv, OwnSlot
    <3> QED BY <2>1, <2>2, <3>1 DEF Dirs
  <2>8. cpc' = "wake" => \A i \in Dirs : i >= ci' => NotYetWoken(task[i])'
    BY <2>1, <2>3, <2>7 DEF WakeInv, NotYetWoken
  <2>9. \A u \in Senders : pc'[u] = "new" =>
          (cpc' = "wake" /\ Slot(u) >= ci') \/ \E s \in Slots : task'[s] = ERR
    BY <2>1, <2>5, <2>6 DEF WakeInv, Building
  <2>10. \A u \in Counters : pc'[u] # "new"
    BY <2>1, <2>3, Ranges DEF WakeInv
  <2> QED BY <2>1, <2>8, <2>9, <2>10 DEF WakeInv, Building
<1> QED BY <1>1, <1>2, <1>3, <1>4, <1>5, <1>6, <1>7, <1>8, <1>9, <1>10 DEF CmdStep

LEMMA WakeStep ==
  ASSUME SInv, SInv', StopInv, WakeInv, [Next]_vars
  PROVE  WakeInv'
<1> USE DEF threads, shared, command
<1>1. ASSUME NEW e \in Enables, NEW l \in Loops, CmdParse(e, l) PROVE WakeInv'
  <2>1. cpc = "idle" /\ cpc' = "stop" /\ UNCHANGED <<pc, task>>
    BY <1>1 DEF CmdParse, At
  <2> QED BY <2>1 DEF WakeInv, Building
<1>2. ASSUME (\E e \in Enables : CmdRejected(e)) \/ UNCHANGED vars PROVE WakeInv'
  BY <1>2 DEF CmdRejected, vars, WakeInv, NotYetWoken
<1>3. ASSUME (\E t \in Senders : SenderStep(t)) \/ (\E t \in Counters : CounterStep(t)) PROVE WakeInv'
  <2>1. /\ \A u \in Threads : pc[u] = "new" <=> pc'[u] = "new"
        /\ \A s \in Slots : \/ task'[s] = task[s]
                            \/ task'[s] = NULL /\ task[s] \in Threads /\ pc[task[s]] = "clear"
        /\ UNCHANGED <<cpc, ci, flag>>
    BY <1>3, ThreadPointers
  <2>2. \A i \in Dirs : i \in Slots /\ (NotYetWoken(task[i]) => NotYetWoken(task[i])')
    BY <2>1, Ranges DEF NotYetWoken
  <2>3. \A s \in Slots : task[s] = ERR => task'[s] = ERR
    BY <2>1, NotThreads
  <2>4. \A i \in Dirs : task[i] = NULL => task'[i] = NULL
    BY <2>1, Ranges
  <2>5. cpc = "wakecomp" => task'[Comp] \in Threads /\ pc'[task'[Comp]] = "new"
    BY <2>1, Ranges DEF WakeInv
  <2> QED BY <2>1, <2>2, <2>3, <2>4, <2>5, Ranges DEF WakeInv
<1> QED BY <1>1, <1>2, <1>3, WakeCmdStep DEF Next
-----------------------------------------------------------------------------
(* A test that runs, and the handler that counts its packets, have a       *)
(* compute thread that will put both back.                                 *)

Sends  == {"make", "send", "clear"}
AtWork == {"look", "linger"}

CountInv ==
  /\ (\E t \in Senders : pc[t] \in Sends \/ (pc[t] = "new" /\ cpc = "wake")) =>
       \E c \in Counters : pc[c] \in AtWork
  /\ (\E i \in Dirs : state[i] = "RUNNING") => \E c \in Counters : pc[c] # "gone"
  /\ rx = "fast" =>
       \/ cpc \in {"reset", "stopcomp", "compute"} \/ task[Comp] = ERR
       \/ \E c \in Counters : pc[c] \in Live \cup {"clear", "hook"}

\* A step after which the command wakes nobody, no more senders start, and
\* no compute thread ends that has run.
LEMMA CountsOn ==
  ASSUME CountInv, cpc # "wake" => cpc' # "wake",
         \A t \in Senders : pc'[t] \in Sends => pc[t] \in Sends,
         cpc = "wake" => \A t \in Senders : pc'[t] = "new" => pc[t] = "new",
         \A c \in Counters : pc[c] # "gone" => pc'[c] = pc[c],
         \A i \in Dirs : state'[i] = "RUNNING" => state[i] = "RUNNING",
         rx' = rx, task[Comp] = ERR => task'[Comp] = ERR,
         cpc \in {"reset", "stopcomp", "compute"} =>
           \/ cpc' \in {"reset", "stopcomp", "compute"} \/ task'[Comp] = ERR
           \/ \E c \in Counters : pc'[c] = "new"
  PROVE  CountInv'
BY DEF CountInv, Sends, AtWork, Live

LEMMA CountCmdStep ==
  ASSUME SInv, SInv', StopInv, WakeInv, CountInv, CmdStep
  PROVE  CountInv'
<1> USE DEF threads, shared, command
<1>0. Comp \in Slots /\ \A i \in Dirs : i \in Slots /\ i # Comp
  BY Ranges
<1>1. ASSUME StopNext PROVE CountInv'
  <2>1. PICK l \in DOMAIN After : cpc = l /\ (cpc' = After[l] \/ cpc' = l)
    BY <1>1 DEF StopNext, StopNextIf, At
  <2>2. cpc # "wake" /\ cpc' # "wake" /\ cpc # "reset" /\ cpc # "compute" /\ cpc \in DOMAIN After
        /\ (cpc = "stopcomp" => cpc' \in {"stopcomp", "compute"})
    BY <2>1 DEF After
  <2>3. UNCHANGED <<pc, task, state, rx>>
    BY <1>1 DEF StopNext, StopNextIf
  <2> QED BY <2>2, <2>3, CountsOn
<1>2. ASSUME StopTest \/ StopBadPointer \/ StopReturns \/ WakeNobody \/ SkipSender PROVE CountInv'
  <2>1. UNCHANGED <<pc, task, state, rx>> /\ (cpc' = cpc \/ (cpc = "create" /\ cpc' = "created"))
    BY <1>2 DEF StopTest, StopBadPointer, StopReturns, WakeNobody, SkipSender, At, NextDir
  <2> QED BY <2>1, CountsOn
<1>3. ASSUME StopCall PROVE CountInv'
  <2>1. cpc \in {"stop", "undo", "stopcomp"} /\ task[ci] \in Threads /\ UNCHANGED <<cpc, task, state, rx>>
    BY <1>3 DEF StopCall, StopInv, After
  <2>2. \A u \in Threads : pc'[u] = pc[u] \/ (pc[u] = "new" /\ pc'[u] = "gone")
    BY <1>3 DEF StopCall, Goto, SInv, TypeOK
  <2>3. \A c \in Counters : pc[c] # "new"
    BY <2>1 DEF WakeInv
  <2> QED BY <2>1, <2>2, <2>3, CountsOn, Ranges DEF Sends
<1>4. ASSUME CreateSender PROVE CountInv'
  <2>1. cpc = "create" /\ cpc' \in {"create", "created"} /\ ci \in Dirs /\ rx' = rx
        /\ state' = [state EXCEPT ![ci] = "IDLE"]
    BY <1>4 DEF CreateSender, At, NextDir, SInv, CmdInv
  <2>2. PICK t \in Threads : Create(ci, t)
    BY <1>4 DEF CreateSender
  <2>3. task'[Comp] = task[Comp] /\ pc[t] = "gone" /\ \A u \in Threads : pc'[u] = IF u = t THEN "new" ELSE pc[u]
    BY <1>0, <2>1, <2>2 DEF Create, Goto, SInv, TypeOK
  <2>4. \A i \in Dirs : state'[i] = "RUNNING" => state[i] = "RUNNING"
    BY <2>1 DEF SInv, TypeOK
  <2> QED BY <2>1, <2>3, <2>4, CountsOn, Ranges DEF Sends
<1>5. ASSUME CreateSenderFails \/ CreateCounterFails PROVE CountInv'
  <2>1. /\ cpc \in {"create", "compute"} /\ cpc' \in {"idle", "undo"} /\ UNCHANGED <<pc, rx>>
        /\ (cpc = "compute" => task' = [task EXCEPT ![Comp] = ERR])
        /\ (cpc = "create" => ci \in Dirs /\ task' = [task EXCEPT ![ci] = ERR])
        /\ state' = state \/ state' = [state EXCEPT ![ci] = "IDLE"]
    BY <1>5 DEF CreateSenderFails, CreateCounterFails, CreateFails, At, SInv, CmdInv
  <2>2. (cpc = "compute" => task'[Comp] = ERR) /\ (task[Comp] = ERR => task'[Comp] = ERR)
    BY <1>0, <2>1 DEF SInv, TypeOK
  <2>3. \A i \in Dirs : state'[i] = "RUNNING" => state[i] = "RUNNING"
    BY <2>1 DEF SInv, TypeOK
  <2> QED BY <2>1, <2>2, <2>3, CountsOn
<1>6. ASSUME HookFast \/ ResetReady PROVE CountInv'
  <2>1. /\ cpc \in {"created", "reset"} /\ UNCHANGED <<pc, task, state>>
        /\ cpc' \in {"reset", "stopcomp"} \/ (rx' = rx /\ cpc = "created" /\ cpc' = "idle")
    BY <1>6 DEF HookFast, ResetReady, ResetReadyTo, At
  <2> QED BY <2>1 DEF CountInv
<1>7. ASSUME CreateCounter PROVE CountInv'
  <2>1. cpc = "compute" /\ cpc' = "wakecomp" /\ UNCHANGED <<state, rx>>
    BY <1>7 DEF CreateCounter, At
  <2>2. PICK t \in Threads : Create(Comp, t)
    BY <1>7 DEF CreateCounter
  <2>3. pc[t] = "gone" /\ t \in Counters /\ \A u \in Threads : pc'[u] = IF u = t THEN "new" ELSE pc[u]
    BY <2>2 DEF Create, Goto, SInv, TypeOK, Counters
  <2>4. task[Comp] # ERR
    BY <2>1, NotThreads DEF SInv, CmdInv
  <2> QED BY <2>1, <2>3, <2>4, CountsOn, Ranges
<1>8. ASSUME WakeCounter PROVE CountInv'
  <2>1. cpc = "wakecomp" /\ cpc' = "wake" /\ UNCHANGED <<task, state, rx>>
        /\ task[Comp] \in Threads /\ pc[task[Comp]] = "new"
    BY <1>8 DEF WakeCounter, At, WakeInv
  <2>2. task[Comp] \in Counters
    BY <1>0, <2>1 DEF SInv, OwnSlot, Counters
  <2>3. \A u \in Threads : pc'[u] = IF u = task[Comp] THEN "look" ELSE pc[u]
    BY <1>8, <2>1 DEF WakeCounter, Goto, SInv, TypeOK
  <2> QED BY <2>1, <2>2, <2>3 DEF CountInv, Sends, AtWork, Live
<1>9. ASSUME WakeSender PROVE CountInv'
  <2>1. cpc = "wake" /\ cpc' \in {"idle", "wake"} /\ ci \in Dirs /\ task[ci] # NULL /\ UNCHANGED <<task, state, rx>>
    BY <1>9 DEF WakeSender, WakeSenderUpTo, At, SInv, CmdInv
  <2>2. task[ci] \in Threads /\ pc[task[ci]] = "new"
    BY <2>1, Ranges DEF WakeInv, NotYetWoken, Dirs
  <2>3. task[ci] \in Senders
    BY <1>0, <2>1, <2>2 DEF SInv, OwnSlot, Senders
  <2>4. \A u \in Threads : pc'[u] = IF u = task[ci] THEN "make" ELSE pc[u]
    BY <1>9 DEF WakeSender, WakeSenderUpTo, Goto, SInv, TypeOK
  <2>5. \A c \in Counters : pc'[c] = pc[c]
    BY <2>3, <2>4, Ranges
  <2>6. \E c \in Counters : pc[c] \in AtWork
    BY <2>1, <2>2, <2>3 DEF CountInv, Sends, AtWork
  <2> QED BY <2>1, <2>5, <2>6 DEF CountInv, Sends, AtWork
<1> QED BY <1>1, <1>2, <1>3, <1>4, <1>5, <1>6, <1>7, <1>8, <1>9 DEF CmdStep

LEMMA CountStep ==
  ASSUME SInv, SInv', StopInv, WakeInv, CountInv, [Next]_vars
  PROVE  CountInv'
<1> USE DEF threads, shared, command
<1>0. Comp \in Slots /\ \A i \in Dirs : i \in Slots /\ i # Comp
  BY Ranges
<1>1. ASSUME NEW e \in Enables, NEW l \in Loops, CmdParse(e, l) PROVE CountInv'
  BY <1>1, CountsOn DEF CmdParse, At
<1>2. ASSUME (\E e \in Enables : CmdRejected(e)) \/ UNCHANGED vars PROVE CountInv'
  BY <1>2, CountsOn DEF CmdRejected, vars
<1>3. ASSUME NEW t \in Senders, SenderStep(t) PROVE CountInv'
  <2>1. t \in Threads /\ t \notin Counters /\ Slot(t) \in Dirs /\ OthersStay(t) /\ UNCHANGED <<cpc, rx>>
    BY <1>3, SenderMoves, Ranges
  <2>2. \A c \in Counters : pc'[c] = pc[c]
    BY <2>1, Ranges DEF OthersStay
  <2>3. task'[Comp] = task[Comp] /\ pc'[t] # "new" /\ (pc'[t] \in Sends => pc[t] \in Sends)
    BY <1>0, <1>3, <2>1, SenderMoves DEF SInv, TypeOK, Moves, Ended, Sends
  <2>4. CASE \A i \in Dirs : state'[i] = "RUNNING" => state[i] = "RUNNING"
    BY <2>1, <2>2, <2>3, <2>4, CountsOn, Ranges DEF OthersStay, Sends
  <2>5. CASE pc[t] = "make"
    <3>1. \E c \in Counters : pc'[c] \in AtWork
      BY <2>2, <2>5 DEF CountInv, Sends, AtWork
    <3> QED BY <2>1, <2>2, <2>3, <3>1 DEF CountInv, Sends, AtWork
  <2>6. pc[t] = "make" \/ state' = state
    BY <1>3, SenderMoves DEF Moves
  <2> QED BY <2>4, <2>5, <2>6
<1>4. ASSUME NEW t \in Counters, CounterStep(t) PROVE CountInv'
  <2>1. t \in Threads /\ t \notin Senders /\ OthersStay(t) /\ cpc' = cpc
    BY <1>4, CounterMoves, Ranges
  <2>2. \A u \in Senders : pc'[u] = pc[u]
    BY <2>1, Ranges DEF OthersStay
  <2>3. \A c \in Counters : c # t => pc'[c] = pc[c]
    BY <2>1, Ranges DEF OthersStay
  <2>4. task[Comp] = ERR => task'[Comp] = ERR
    BY <1>0, <1>4, ThreadPointers, NotThreads
  <2>5. CASE pc[t] \in {"look", "linger"} /\ pc'[t] = "clear"
    <3>1. ASSUME NEW u \in Senders, pc[u] \in Sends \/ (pc[u] = "new" /\ cpc = "wake") PROVE FALSE
      <4>1. task[Slot(u)] = u /\ Slot(u) \in Dirs /\ u \in Threads
        BY <3>1, Ranges DEF SInv, Owner, Live, Sends
      <4>2. Running
        BY <4>1, NotThreads DEF Running
      <4>3. stop[t]
        BY <1>4, <2>5, <4>2, CounterMoves DEF Moves, Ended
      <4>4. cpc \in {"stop", "undo", "stopcomp"} /\ ci = Comp
        BY <2>1, <4>3, Ranges DEF StopInv, After
      <4>5. cpc = "stopcomp"
        BY <4>4, <1>0 DEF SInv, CmdInv
      <4>6. pc[u] = "new"
        BY <4>1, <4>5, NotThreads DEF WakeInv, Building, NotYetWoken
      <4> QED BY <3>1, <4>5, <4>6 DEF Sends
    <3>2. UNCHANGED <<state, rx>>
      BY <1>4, <2>5, CounterMoves DEF Moves, Ended
    <3> QED BY <2>1, <2>2, <2>3, <2>4, <2>5, <3>1, <3>2 DEF CountInv, Sends, AtWork, Live
  <2>6. CASE pc[t] = "hook"
    <3>1. pc'[t] = "ready" /\ state' = state /\ rx' = "probe"
      BY <1>4, <2>6, CounterMoves DEF Moves, Ended
    <3> QED BY <2>1, <2>2, <2>3, <2>6, <3>1 DEF CountInv, Sends, AtWork
  <2>7. CASE pc[t] = "finish"
    <3>1. rx' = rx /\ \A i \in Dirs : state'[i] = "FINISHED"
      BY <1>4, <2>7, CounterMoves DEF Moves
    <3> QED BY <2>1, <2>2, <2>3, <2>4, <2>7, <3>1 DEF CountInv, Sends, AtWork, Live
  <2>8. CASE \/ pc[t] \in {"look", "linger"} /\ pc'[t] \in {"look", "linger"}
             \/ pc[t] = "clear" /\ pc'[t] = "hook"
             \/ pc[t] \in {"ready", "timer"} /\ pc'[t] \in {"timer", "finish"}
    <3>1. UNCHANGED <<state, rx>>
      BY <1>4, <2>8, CounterMoves DEF Moves, Ended
    <3> QED BY <2>1, <2>2, <2>3, <2>4, <2>8, <3>1 DEF CountInv, Sends, AtWork, Live
  <2> QED BY <1>4, <2>5, <2>6, <2>7, <2>8, CounterMoves DEF Moves
<1> QED BY <1>1, <1>2, <1>3, <1>4, CountCmdStep DEF Next
-----------------------------------------------------------------------------
(* A command nothing comes between: it has stopped all directions or found *)
(* none, creates all or none, and every pointer it reads is good.          *)

PointersGood ==
  \A s \in Slots : task[s] = NULL \/ (task[s] \in Threads /\ pc[task[s]] \in Live \cup {"clear"})

\* Either there is nothing to stop, or each direction is stopped and with it
\* disabled, one after the other.
StopsAll ==
  \/ kpc = "test" /\ \A i \in Dirs : task[i] = NULL /\ enable[i] = enable[0]
  \/ \A i \in Dirs :
       /\ i < ci => enable[i] = 0
       /\ i > ci => task[i] # NULL
       /\ i = ci => task[i] # NULL \/ enable[i] = 0 \/ (kpc = "wait" /\ pc[victim] = "off")

CreatesAll ==
  /\ cpc = "stop" => StopsAll /\ ~flag
  /\ cpc \in {"create", "created"} => \A i \in Dirs : enable[i] = enable[0] /\ (flag => enable[i] # 0)
  /\ cpc = "create" => \A i \in Dirs : i < ci /\ enable[i] # 0 => task[i] # NULL
  /\ cpc = "created" => \A i \in Dirs : enable[i] # 0 => task[i] # NULL
  /\ cpc \in {"reset", "stopcomp", "compute", "wakecomp", "wake"} => \A i \in Dirs : task[i] # NULL

CalmInv ==
  calm =>
    /\ fault = "none" /\ cpc # "undo"
    /\ kpc = "call" => task[ci] # NULL
    /\ cpc # "idle" => PointersGood /\ CreatesAll

LEMMA CalmStopSteps ==
  ASSUME SInv, SInv', StopInv, WakeInv, CalmInv,
         StopNext \/ StopTest \/ StopBadPointer \/ StopCall \/ StopReturns
  PROVE  CalmInv'
<1> USE DEF threads, shared, command
<1> SUFFICES ASSUME calm' PROVE CalmInv'
  BY DEF CalmInv
<1>0. /\ calm /\ fault = "none" /\ cpc \in {"stop", "stopcomp"} /\ PointersGood /\ CreatesAll
      /\ kpc = "call" => task[ci] # NULL
      /\ ci \in Slots /\ (cpc = "stop" => ci \in Dirs) /\ UNCHANGED enable
  <2>1. calm /\ UNCHANGED enable
    BY DEF StopNext, StopNextIf, StopTest, StopBadPointer, StopCall, StopReturns
  <2>2. cpc \in DOMAIN After
    BY DEF StopNext, StopNextIf, StopTest, StopBadPointer, StopCall, StopReturns, At, StopInv
  <2> QED BY <2>1, <2>2 DEF After, CalmInv, SInv, TypeOK, CmdInv
<1>1. CASE StopNext
  <2>0. UNCHANGED <<pc, task, kpc, flag, fault>> /\ kpc = "test" /\ task[ci] = NULL
    BY <1>1 DEF StopNext, StopNextIf
  <2>1. \/ cpc = "stop" /\ cpc' = "stop" /\ ci' = ci + 1
        \/ cpc = "stop" /\ cpc' = "create" /\ ci' = 0 /\ ci = N - 1
        \/ cpc = "stopcomp" /\ cpc' \in {"stopcomp", "compute"}
    <3>1. PICK l \in DOMAIN After :
            /\ cpc = l
            /\ IF ci = Last[l] THEN cpc' = After[l] /\ ci' = 0 ELSE cpc' = l /\ ci' = ci + 1
      BY <1>1 DEF StopNext, StopNextIf, At
    <3>2. CASE l = "stop"
      BY <3>1, <3>2 DEF After, Last
    <3>3. CASE l = "stopcomp"
      BY <3>1, <3>3 DEF After
    <3> QED BY <1>0, <3>1, <3>2, <3>3
  <2>2. PointersGood'
    BY <1>0, <2>0, <2>1 DEF PointersGood
  <2>3. CASE cpc = "stop"
    <3>1. \A i \in Dirs : i < ci + 1 => i < ci \/ i = ci
      BY <1>0, <2>3, Ranges DEF Dirs
    <3>2. \A i \in Dirs : (i = ci + 1 \/ i > ci + 1) => i > ci
      BY <1>0, <2>3, Ranges DEF Dirs
    <3>3. /\ ~flag
          /\ \/ \A i \in Dirs : task[i] = NULL /\ enable[i] = enable[0]
             \/ \A i \in Dirs : (i < ci \/ i = ci => enable[i] = 0) /\ (i > ci => task[i] # NULL)
      BY <1>0, <2>0, <2>1, <2>3 DEF CreatesAll, StopsAll
    <3>4. ASSUME cpc' = "stop" PROVE CreatesAll'
      <4>1. ci' = ci + 1 /\ UNCHANGED <<task, enable, kpc, flag>> /\ kpc = "test"
        BY <1>0, <2>0, <2>1, <2>3, <3>4
      <4>2. StopsAll'
        BY <3>1, <3>2, <3>3, <4>1 DEF StopsAll
      <4>3. ~flag'
        BY <3>3, <4>1
      <4> QED BY <3>4, <4>2, <4>3 DEF CreatesAll
    <3>5. ASSUME cpc' = "create", ci' = 0, ci = N - 1 PROVE CreatesAll'
      <4>1. \A i \in Dirs : (i < ci \/ i = ci) /\ ~(i < 0)
        BY <3>5, Ranges DEF Dirs
      <4>2. \A i, j \in Dirs : enable[i] = enable[j]
        BY <3>3, <4>1
      <4>3. UNCHANGED <<task, enable, flag>> /\ ~flag'
        BY <1>0, <2>0, <3>3
      <4> QED BY <3>5, <4>1, <4>2, <4>3, Ranges DEF CreatesAll
    <3> QED BY <1>0, <2>0, <2>1, <2>2, <2>3, <3>4, <3>5 DEF CalmInv
  <2>4. CASE cpc = "stopcomp"
    BY <1>0, <2>0, <2>1, <2>2, <2>4 DEF CalmInv, CreatesAll
  <2> QED BY <1>0, <2>3, <2>4
<1>2. CASE StopTest
  <2>1. kpc = "test" /\ kpc' = "call" /\ task[ci] # NULL /\ UNCHANGED <<pc, task, cpc, ci, victim, flag, fault>>
    BY <1>2 DEF StopTest
  <2>2. cpc = "stop" => StopsAll'
    BY <1>0, <2>1 DEF CreatesAll, StopsAll
  <2> QED BY <1>0, <2>1, <2>2 DEF CalmInv, CreatesAll, PointersGood
<1>3. CASE StopBadPointer
  <2>1. kpc = "call" /\ (task[ci] \in Threads => pc[task[ci]] = "gone")
    BY <1>3 DEF StopBadPointer
  <2> QED BY <1>0, <2>1 DEF PointersGood, Live
<1>4. CASE StopCall
  <2>1. /\ kpc = "call" /\ kpc' = "wait" /\ task[ci] \in Threads
        /\ UNCHANGED <<task, cpc, ci, flag, fault>>
    BY <1>4 DEF StopCall
  <2>2. Slot(task[ci]) = ci
    BY <1>0, <2>1 DEF SInv, OwnSlot
  <2>3. pc[task[ci]] # "new"
    <3>1. CASE cpc = "stop"
      <4>1. task[ci] \in Senders
        BY <1>0, <2>1, <2>2, <3>1 DEF Senders
      <4> QED BY <1>0, <3>1, <4>1, NotThreads DEF WakeInv, Building, PointersGood
    <3>2. CASE cpc = "stopcomp"
      <4>1. task[ci] \in Counters
        BY <1>0, <2>1, <2>2, <3>2 DEF Counters, SInv, CmdInv
      <4> QED BY <3>2, <4>1 DEF WakeInv
    <3> QED BY <1>0, <3>1, <3>2
  <2>4. pc' = pc
    BY <1>4, <2>3 DEF StopCall
  <2>5. cpc = "stop" => StopsAll'
    BY <1>0, <2>1, <2>4 DEF CreatesAll, StopsAll
  <2> QED BY <1>0, <2>1, <2>4, <2>5 DEF CalmInv, CreatesAll, PointersGood
<1>5. CASE StopReturns
  <2>1. kpc = "wait" /\ pc[victim] = "gone" /\ kpc' = "test" /\ UNCHANGED <<pc, task, cpc, ci, flag, fault>>
    BY <1>5 DEF StopReturns
  <2>2. cpc = "stop" => StopsAll'
    BY <1>0, <2>1 DEF CreatesAll, StopsAll
  <2> QED BY <1>0, <2>1, <2>2 DEF CalmInv, CreatesAll, PointersGood
<1> QED BY <1>1, <1>2, <1>3, <1>4, <1>5

LEMMA CalmBuildSteps ==
  ASSUME SInv, SInv', StopInv, WakeInv, CalmInv,
         \/ SkipSender \/ CreateSender \/ CreateSenderFails \/ HookFast \/ ResetReady
         \/ CreateCounter \/ CreateCounterFails \/ WakeCounter \/ WakeSender \/ WakeNobody
  PROVE  CalmInv'
<1> USE DEF threads, shared, command
<1> SUFFICES ASSUME calm' PROVE CalmInv'
  BY DEF CalmInv
<1>0. Comp \in Slots /\ \A i \in Dirs : i \in Slots /\ i # Comp
  BY Ranges
<1>1. ~CreateSenderFails /\ ~CreateCounterFails
  BY DEF CreateSenderFails, CreateCounterFails, CreateFails
<1>2. /\ calm /\ fault = "none" /\ cpc \in Building \cup {"wake"} /\ UNCHANGED <<enable, kpc>>
      /\ kpc = "test" /\ ci \in Slots /\ (cpc \in {"create", "wake"} => ci \in Dirs)
  <2>1. calm /\ cpc \in Building \cup {"wake"} /\ UNCHANGED <<enable, kpc>> /\ cpc # "stopcomp"
    BY <1>1 DEF SkipSender, CreateSender, HookFast, ResetReady, ResetReadyTo, CreateCounter,
                WakeCounter, WakeSender, WakeSenderUpTo, WakeNobody, At, Building
  <2>2. cpc \notin DOMAIN After
    BY <2>1 DEF After, Building
  <2> QED BY <2>1, <2>2 DEF StopInv, CalmInv, SInv, TypeOK, CmdInv
<1>3. PointersGood /\ CreatesAll
  BY <1>2 DEF CalmInv, Building
<1>4. CASE SkipSender
  <2>1. /\ cpc = "create" /\ enable[ci] = 0 /\ UNCHANGED <<pc, task, flag, fault>>
        /\ (cpc' = "created" /\ ci = N - 1) \/ (cpc' = "create" /\ ci' = ci + 1)
    BY <1>4 DEF SkipSender, At, NextDir
  <2>2. \A i \in Dirs : (i < ci + 1 => i < ci \/ i = ci) /\ (ci = N - 1 => i < ci \/ i = ci)
    BY <1>2, <2>1, Ranges DEF Dirs
  <2> QED BY <1>2, <1>3, <2>1, <2>2 DEF CalmInv, CreatesAll, PointersGood
<1>5. CASE CreateSender
  <2>1. /\ cpc = "create" /\ enable[ci] # 0 /\ flag' = TRUE /\ fault' = fault
        /\ (cpc' = "created" /\ ci = N - 1) \/ (cpc' = "create" /\ ci' = ci + 1)
    BY <1>5 DEF CreateSender, At, NextDir
  <2>2. PICK t \in Threads : Create(ci, t)
    BY <1>5 DEF CreateSender
  <2>3. \A s \in Slots : task'[s] = IF s = ci THEN t ELSE task[s]
    BY <2>2 DEF Create, SInv, TypeOK
  <2>4. \A u \in Threads : pc'[u] = IF u = t THEN "new" ELSE pc[u]
    BY <2>2 DEF Create, Goto, SInv, TypeOK
  <2>5. PointersGood'
    BY <1>3, <2>3, <2>4 DEF PointersGood, Live
  <2>6. \A i \in Dirs : (i < ci + 1 => i < ci \/ i = ci) /\ (ci = N - 1 => i < ci \/ i = ci)
    BY <1>2, <2>1, Ranges DEF Dirs
  <2>7. \A i \in Dirs : i < ci \/ i = ci => (enable[i] # 0 => task'[i] # NULL)
    BY <1>0, <1>3, <2>1, <2>3, NotThreads DEF CreatesAll
  <2>8. \A i \in Dirs : enable[i] = enable[0] /\ enable[i] # 0
    BY <1>2, <1>3, <2>1 DEF CreatesAll
  <2> QED BY <1>2, <2>1, <2>5, <2>6, <2>7, <2>8 DEF CalmInv, CreatesAll
<1>6. CASE HookFast
  <2>1. cpc = "created" /\ UNCHANGED <<pc, task, fault>> /\ (cpc' = "idle" \/ (flag /\ cpc' = "reset"))
    BY <1>6 DEF HookFast, At
  <2> QED BY <1>2, <1>3, <2>1 DEF CalmInv, CreatesAll, PointersGood
<1>7. CASE ResetReady
  <2>1. cpc = "reset" /\ cpc' = "stopcomp" /\ UNCHANGED <<pc, task, fault>>
    BY <1>7 DEF ResetReady, ResetReadyTo, At
  <2> QED BY <1>2, <1>3, <2>1 DEF CalmInv, CreatesAll, PointersGood
<1>8. CASE CreateCounter
  <2>1. cpc = "compute" /\ cpc' = "wakecomp" /\ fault' = fault
    BY <1>8 DEF CreateCounter, At
  <2>2. PICK t \in Threads : Create(Comp, t)
    BY <1>8 DEF CreateCounter
  <2>3. \A s \in Slots : task'[s] = IF s = Comp THEN t ELSE task[s]
    BY <2>2 DEF Create, SInv, TypeOK
  <2>4. \A u \in Threads : pc'[u] = IF u = t THEN "new" ELSE pc[u]
    BY <2>2 DEF Create, Goto, SInv, TypeOK
  <2>5. PointersGood'
    BY <1>3, <2>3, <2>4 DEF PointersGood, Live
  <2> QED BY <1>0, <1>2, <1>3, <2>1, <2>3, <2>5 DEF CalmInv, CreatesAll
<1>9. CASE WakeCounter \/ WakeSender
  <2>1. PICK l \in {"look", "make"} : \E s \in Slots : Goto(task[s], l)
    BY <1>0, <1>2, <1>9 DEF WakeCounter, WakeSender, WakeSenderUpTo, At
  <2>2. \A u \in Threads : pc'[u] = pc[u] \/ pc'[u] \in Live
    BY <2>1 DEF Goto, SInv, TypeOK, Live
  <2>3. cpc \in {"wakecomp", "wake"} /\ cpc' \in {"wake", "idle"} /\ UNCHANGED <<task, fault>>
    BY <1>9 DEF WakeCounter, WakeSender, WakeSenderUpTo, At
  <2>4. PointersGood'
    BY <1>3, <2>2, <2>3 DEF PointersGood
  <2> QED BY <1>2, <1>3, <2>3, <2>4 DEF CalmInv, CreatesAll
<1>10. CASE WakeNobody
  BY <1>2, <1>3, <1>10 DEF WakeNobody, At, CreatesAll
<1> QED BY <1>1, <1>4, <1>5, <1>6, <1>7, <1>8, <1>9, <1>10

\* A thread ends a calm command's calm unless kthread_stop waits for it, or
\* leaves alone what the command reads.
LEMMA CalmThreads ==
  ASSUME SInv, SInv', StopInv, CalmInv,
         (\E t \in Senders : SenderStep(t)) \/ (\E t \in Counters : CounterStep(t))
  PROVE  CalmInv'
<1> USE DEF threads, shared, command
<1> SUFFICES ASSUME calm' PROVE CalmInv'
  BY DEF CalmInv
<1>1. UNCHANGED <<cpc, ci, kpc, victim, flag, fault>>
  BY ThreadPointers
<1>2. calm
  BY SenderMoves, CounterMoves DEF Disturb
<1>3. CASE cpc = "idle"
  BY <1>1, <1>2, <1>3 DEF CalmInv, StopInv, After
<1>4. CASE cpc # "idle"
  <2>0. PointersGood /\ CreatesAll /\ cpc # "undo" /\ fault = "none" /\ (kpc = "call" => task[ci] # NULL)
    BY <1>2, <1>4 DEF CalmInv
  <2>1. ASSUME NEW t \in Threads, pc[t] \in {"clear", "off"}, Disturb(t)
        PROVE  kpc = "wait" /\ victim = t /\ Slot(t) = ci /\ cpc \in {"stop", "stopcomp"}
               /\ (Slot(t) \in Dirs <=> cpc = "stop")
    <3>1. ~self[t]
      BY <1>4, <2>1 DEF Disturb
    <3>2. kpc = "wait" /\ victim = t /\ Slot(t) = ci
      BY <2>1, <3>1 DEF StopInv
    <3>3. cpc \in {"stop", "stopcomp"}
      BY <2>0, <3>2 DEF StopInv, After
    <3> QED BY <3>2, <3>3, Ranges DEF SInv, CmdInv
  <2>2. ASSUME UNCHANGED <<task, enable>>, NEW t \in Threads, OthersStay(t), pc[t] # "off",
               pc[t] \in Live \cup {"clear"} => pc'[t] \in Live \cup {"clear"}
        PROVE  CalmInv'
    <3>1. PointersGood'
      BY <2>0, <2>2 DEF PointersGood, OthersStay
    <3>2. kpc = "wait" /\ pc[victim] = "off" => pc'[victim] = "off"
      BY <2>2 DEF OthersStay, StopInv
    <3>3. CreatesAll'
      BY <1>1, <2>0, <2>2, <3>2 DEF CreatesAll, StopsAll
    <3> QED BY <1>1, <2>0, <2>2, <3>1, <3>3 DEF CalmInv
  <2>3. ASSUME NEW t \in Threads, pc[t] = "clear", Disturb(t), OthersStay(t), enable' = enable,
               pc'[t] \in {"off", "hook"}, t \in Senders => pc'[t] = "off",
               task' = [task EXCEPT ![Slot(t)] = NULL]
        PROVE  CalmInv'
    <3>1. /\ kpc = "wait" /\ victim = t /\ Slot(t) = ci /\ cpc \in {"stop", "stopcomp"}
          /\ (Slot(t) \in Dirs <=> cpc = "stop")
      BY <2>1, <2>3
    <3>2. Slot(t) \in Slots /\ (cpc = "stop" => t \in Senders)
      BY <2>3, <3>1, Ranges DEF Senders
    <3>3. \A s \in Slots : task'[s] = IF s = ci THEN NULL ELSE task[s]
      BY <2>3, <3>1, <3>2 DEF SInv, TypeOK
    <3>4. \A s \in Slots : task[s] = t => s = ci
      BY <2>3, <3>1, Ranges DEF SInv, OwnSlot
    <3>5. PointersGood'
      BY <2>0, <2>3, <3>3, <3>4 DEF PointersGood, OthersStay
    <3>6. CASE cpc = "stop"
      <4>1. kpc' = "wait" /\ pc'[victim'] = "off"
        BY <1>1, <2>3, <3>1, <3>2, <3>6
      <4>2. StopsAll'
        BY <1>1, <2>0, <2>3, <3>1, <3>3, <3>6, <4>1, Ranges DEF CreatesAll, StopsAll, Dirs
      <4> QED BY <1>1, <2>0, <3>1, <3>5, <3>6, <4>2 DEF CalmInv, CreatesAll
    <3>7. CASE cpc = "stopcomp"
      <4>1. \A i \in Dirs : task'[i] = task[i]
        BY <3>1, <3>3, <3>7, Ranges
      <4> QED BY <1>1, <2>0, <3>1, <3>5, <3>7, <4>1 DEF CalmInv, CreatesAll
    <3> QED BY <3>1, <3>6, <3>7
  <2>4. ASSUME NEW t \in Senders, pc[t] = "off", pc'[t] = "end", Disturb(t), OthersStay(t),
               task' = task, enable' = [enable EXCEPT ![Slot(t)] = 0]
        PROVE  CalmInv'
    <3>1. t \in Threads /\ Slot(t) \in Dirs /\ kpc = "wait" /\ Slot(t) = ci /\ cpc = "stop"
      BY <2>1, <2>4, Ranges
    <3>2. \A i \in Dirs : enable'[i] = IF i = ci THEN 0 ELSE enable[i]
      BY <2>4, <3>1 DEF SInv, TypeOK
    <3>3. StopsAll'
      BY <1>1, <2>0, <2>4, <3>1, <3>2 DEF CreatesAll, StopsAll
    <3>4. PointersGood'
      BY <2>0, <2>4, <3>1 DEF PointersGood, OthersStay, Live
    <3> QED BY <1>1, <2>0, <3>1, <3>3, <3>4 DEF CalmInv, CreatesAll
  <2>5. ASSUME NEW t \in Senders, SenderStep(t) PROVE CalmInv'
    <3>1. t \in Threads /\ OthersStay(t)
      BY <2>5, SenderMoves, Ranges
    <3>2. CASE pc[t] = "clear"
      BY <2>3, <2>5, <3>1, <3>2, SenderMoves DEF Moves
    <3>3. CASE pc[t] = "off"
      BY <2>4, <2>5, <3>1, <3>3, SenderMoves DEF Moves
    <3>4. CASE pc[t] \notin {"clear", "off"}
      <4>1. UNCHANGED <<task, enable>> /\ (pc[t] \in Live => pc'[t] \in Live \cup {"clear"})
        BY <2>5, <3>4, SenderMoves DEF Moves, Live
      <4> QED BY <2>2, <3>1, <3>4, <4>1
    <3> QED BY <3>2, <3>3, <3>4
  <2>6. ASSUME NEW t \in Counters, CounterStep(t) PROVE CalmInv'
    <3>1. t \in Threads /\ OthersStay(t) /\ Slot(t) = Comp /\ t \notin Senders /\ enable' = enable
      BY <2>6, CounterMoves, Ranges
    <3>2. CASE pc[t] = "clear"
      BY <2>3, <2>6, <3>1, <3>2, CounterMoves DEF Moves
    <3>3. CASE pc[t] # "clear"
      <4>1. task' = task /\ pc[t] # "off" /\ (pc[t] \in Live => pc'[t] \in Live \cup {"clear"})
        BY <2>6, <3>3, CounterMoves DEF Moves, Live
      <4> QED BY <2>2, <3>1, <3>3, <4>1
    <3> QED BY <3>2, <3>3
  <2> QED BY <2>5, <2>6
<1> QED BY <1>3, <1>4

LEMMA CalmStep ==
  ASSUME SInv, SInv', StopInv, WakeInv, CalmInv, [Next]_vars
  PROVE  CalmInv'
<1> USE DEF threads, shared, command
<1>1. ASSUME NEW e \in Enables, NEW l \in Loops, CmdParse(e, l) PROVE CalmInv'
  <2> SUFFICES ASSUME calm' PROVE CalmInv'
    BY DEF CalmInv
  <2>1. Calm /\ cpc' = "stop" /\ ci' = 0 /\ flag' = FALSE /\ fault' = "none" /\ kpc' = "test"
        /\ UNCHANGED <<pc, task>> /\ \A i \in Dirs : enable'[i] = enable'[0]
    <3>1. Calm
      BY <1>1 DEF CmdParse
    <3>2. kpc = "test"
      BY <1>1 DEF CmdParse, At, StopInv, After
    <3> QED BY <1>1, <3>1, <3>2, Ranges DEF CmdParse, At
  <2>2. PointersGood'
    BY <2>1, Ranges, NotThreads DEF Calm, PointersGood
  <2>3. StopsAll'
    <3>1. CASE \A i \in Dirs : task[i] = NULL
      BY <2>1, <3>1 DEF StopsAll
    <3>2. CASE \A i \in Dirs : task[i] \in Threads
      <4>1. \A i \in Dirs : task'[i] # NULL /\ ~(i < 0)
        BY <2>1, <3>2, NotThreads DEF Dirs
      <4> QED BY <2>1, <4>1 DEF StopsAll
    <3> QED BY <2>1, <3>1, <3>2 DEF Calm
  <2> QED BY <2>1, <2>2, <2>3 DEF CalmInv, CreatesAll
<1>2. ASSUME NEW e \in Enables, CmdRejected(e) PROVE CalmInv'
  BY <1>2 DEF CmdRejected, At, CalmInv
<1>3. CASE UNCHANGED vars
  BY <1>3 DEF vars, CalmInv, PointersGood, CreatesAll, StopsAll
<1>4. CASE CmdStep
  BY <1>4, CalmStopSteps, CalmBuildSteps DEF CmdStep
<1> QED BY <1>1, <1>2, <1>3, <1>4, CalmThreads DEF Next
-----------------------------------------------------------------------------
(* The threads, for modules that extend SpeedTest.                         *)

Base == SInv /\ StopInv /\ WakeInv /\ CountInv

Creates(i) == cpc = "create" /\ ci = i /\ i \in Dirs /\ enable[i] # 0 /\ task[i] = NULL

\* What a step of a command does to threads and states.
LEMMA CmdMoves ==
  ASSUME Base, CmdStep
  PROVE  /\ \A c \in Counters : pc'[c] = pc[c] \/ Moves(c, "gone", "new") \/ Moves(c, "new", "look")
         /\ \A s \in Senders : \/ pc'[s] = pc[s]
                               \/ Moves(s, "new", "gone") \/ Moves(s, "new", "make")
                               \/ Moves(s, "gone", "new") /\ Creates(Slot(s))
         /\ \A s, u \in Senders : Moves(s, "gone", "new") /\ Moves(u, "gone", "new") => s = u
         /\ \/ state' = state
            \/ Creates(ci) /\ state' = [state EXCEPT ![ci] = "IDLE"]
         /\ Creates(ci) => CreateSender \/ CreateSenderFails
<1> USE DEF threads, shared, command, Base, Moves
<1>0. /\ Comp \in Slots /\ \A i \in Dirs : i \in Slots /\ i # Comp
      /\ cpc = "create" => ci \in Dirs /\ task[ci] = NULL
  BY Ranges DEF SInv, CmdInv, Dirs
<1>creates. Creates(ci) => CreateSender \/ CreateSenderFails
  BY DEF CmdStep, Creates, StopNext, StopNextIf, StopTest, StopBadPointer, StopCall, StopReturns,
         SkipSender, HookFast, ResetReady, ResetReadyTo, CreateCounter, CreateCounterFails,
         WakeCounter, WakeSender, WakeSenderUpTo, WakeNobody, At, After, StopInv
<1>1. CASE \/ StopNext \/ StopTest \/ StopBadPointer \/ StopReturns \/ SkipSender \/ HookFast
           \/ ResetReady \/ CreateCounterFails \/ WakeNobody
  BY <1>1, <1>creates DEF StopNext, StopNextIf, StopTest, StopBadPointer, StopReturns, SkipSender, HookFast,
              ResetReady, ResetReadyTo, CreateCounterFails, CreateFails, WakeNobody
<1>2. CASE StopCall
  <2>1. cpc # "wakecomp" /\ ci \in Slots /\ task[ci] \in Threads /\ state' = state
    BY <1>2 DEF StopCall, StopInv, After, SInv, TypeOK
  <2>2. \A u \in Threads : pc'[u] = pc[u] \/ Moves(u, "new", "gone")
    BY <1>2, <2>1 DEF StopCall, Goto, SInv, TypeOK
  <2>3. \A u \in Counters : pc[u] # "new"
    BY <2>1 DEF WakeInv
  <2> QED BY <1>creates, <2>1, <2>2, <2>3, Ranges
<1>3. CASE CreateSender
  <2>1. Creates(ci) /\ state' = [state EXCEPT ![ci] = "IDLE"]
    BY <1>0, <1>3 DEF CreateSender, At, Creates
  <2>2. PICK t \in Threads : Create(ci, t)
    BY <1>3 DEF CreateSender
  <2>3. Slot(t) = ci /\ t \notin Counters
    BY <1>0, <2>1, <2>2, Ranges DEF Create, Creates
  <2>4. \A u \in Threads : IF u = t THEN Moves(u, "gone", "new") ELSE pc'[u] = pc[u]
    BY <2>2 DEF Create, Goto, SInv, TypeOK
  <2> QED BY <1>creates, <2>1, <2>3, <2>4, Ranges
<1>4. CASE CreateSenderFails
  BY <1>0, <1>4, <1>creates DEF CreateSenderFails, CreateFails, At, Creates
<1>5. CASE CreateCounter
  <2>1. PICK t \in Threads : Create(Comp, t)
    BY <1>5 DEF CreateCounter
  <2>2. t \notin Senders
    BY <1>0, <2>1, Ranges DEF Create
  <2>3. \A u \in Threads : IF u = t THEN Moves(u, "gone", "new") ELSE pc'[u] = pc[u]
    BY <2>1 DEF Create, Goto, SInv, TypeOK
  <2> QED BY <1>creates, <1>5, <2>2, <2>3, Ranges DEF CreateCounter
<1>6. CASE WakeCounter
  <2>1. task[Comp] \in Threads /\ pc[task[Comp]] = "new" /\ Slot(task[Comp]) = Comp /\ state' = state
    BY <1>0, <1>6 DEF WakeCounter, At, WakeInv, SInv, OwnSlot
  <2>2. task[Comp] \notin Senders
    BY <1>0, <2>1, Ranges
  <2>3. \A u \in Threads : IF u = task[Comp] THEN Moves(u, "new", "look") ELSE pc'[u] = pc[u]
    BY <1>6, <2>1 DEF WakeCounter, Goto, SInv, TypeOK
  <2> QED BY <1>creates, <2>1, <2>2, <2>3, Ranges
<1>7. CASE WakeSender
  <2>1. cpc = "wake" /\ ci \in Dirs /\ task[ci] # NULL /\ state' = state
    BY <1>7 DEF WakeSender, WakeSenderUpTo, At, SInv, CmdInv
  <2>2. task[ci] \in Threads /\ pc[task[ci]] = "new" /\ Slot(task[ci]) = ci
    BY <1>0, <2>1, Ranges DEF WakeInv, NotYetWoken, Dirs, SInv, OwnSlot
  <2>3. task[ci] \notin Counters
    BY <1>0, <2>1, <2>2, Ranges
  <2>4. \A u \in Threads : IF u = task[ci] THEN Moves(u, "new", "make") ELSE pc'[u] = pc[u]
    BY <1>7, <2>2 DEF WakeSender, WakeSenderUpTo, Goto, SInv, TypeOK
  <2> QED BY <1>creates, <2>1, <2>3, <2>4, Ranges
<1> QED BY <1>1, <1>2, <1>3, <1>4, <1>5, <1>6, <1>7, <1>creates DEF CmdStep

\* A compute thread leaves its loop only when no sender sends: it is told to
\* stop before the senders are woken, or has found all of them gone.
LEMMA LeavesInSilence ==
  ASSUME Base, NEW c \in Counters, CountStopped(c) \/ CountOver(c), NEW s \in Senders
  PROVE  pc[s] \notin Sends
<1> SUFFICES ASSUME pc[s] \in Sends PROVE FALSE
  OBVIOUS
<1> USE DEF Base
<1>1. task[Slot(s)] = s /\ Slot(s) \in Dirs /\ s \in Threads /\ c \in Threads /\ Slot(c) = Comp /\ Comp \notin Dirs
  BY Ranges DEF SInv, Owner, Live, Sends
<1>2. CASE CountStopped(c)
  <2>1. kpc = "wait" /\ victim = c /\ cpc \in {"stop", "undo", "stopcomp"} /\ ci = Comp
    BY <1>1, <1>2 DEF CountStopped, CountStoppedIf, StopInv, After
  <2>2. cpc = "stopcomp"
    BY <1>1, <2>1 DEF SInv, CmdInv
  <2>3. NotYetWoken(task[Slot(s)])
    BY <1>1, <2>2 DEF WakeInv, Building
  <2> QED BY <1>1, <2>3, NotThreads DEF NotYetWoken, Sends
<1>3. CASE CountOver(c)
  BY <1>1, <1>3, NotThreads DEF CountOver, Running
<1> QED BY <1>2, <1>3
-----------------------------------------------------------------------------
\* A module that is in has a receive hook.
HookInv == rx # "null"

LEMMA HookStep ==
  ASSUME SInv, HookInv, [Next]_vars
  PROVE  HookInv'
<1> USE DEF HookInv, shared
<1>1. CASE CmdStep
  BY <1>1 DEF CmdStep, StopNext, StopNextIf, StopTest, StopBadPointer, StopCall, StopReturns, SkipSender,
              CreateSender, CreateSenderFails, HookFast, ResetReady, ResetReadyTo, CreateCounter,
              CreateCounterFails, WakeCounter, WakeSender, WakeSenderUpTo, WakeNobody
<1>2. CASE UNCHANGED vars \/ \E e \in Enables : CmdRejected(e) \/ \E l \in Loops : CmdParse(e, l)
  BY <1>2 DEF vars, CmdRejected, CmdParse
<1>3. ASSUME NEW t \in Senders, SenderStep(t) PROVE HookInv'
  BY <1>3, SenderMoves
<1>4. ASSUME NEW t \in Counters, CounterStep(t) PROVE HookInv'
  BY <1>4, CounterMoves
<1> QED BY <1>1, <1>2, <1>3, <1>4 DEF Next

LEMMA CmdInvAlways == Spec => [](SInv /\ HookInv /\ StopInv /\ WakeInv /\ CountInv /\ CalmInv)
<1>1. Init => HookInv /\ StopInv /\ WakeInv /\ CountInv /\ CalmInv
  BY Ranges DEF Init, Start, HookInv, StopInv, WakeInv, CountInv, CalmInv, Building, After, Sends
<1>2. SInv /\ [Next]_vars => SInv'
  BY TypeStep, PtrStep DEF SInv, PtrInv
<1>3. SInv /\ HookInv /\ StopInv /\ WakeInv /\ CountInv /\ CalmInv /\ [Next]_vars =>
        SInv' /\ HookInv' /\ StopInv' /\ WakeInv' /\ CountInv' /\ CalmInv'
  BY <1>2, HookStep, StopStep, WakeStep, CountStep, CalmStep
<1> QED BY InitSInv, <1>1, <1>3, PTL DEF Spec

\* However many directions there are: a command stumbles over no pointer as
\* long as nothing failed and no test has ended by itself during it, or in
\* some directions only before it (run_speedtest_by_cmd reads each pointer
\* twice, and the thread functions clear them).
THEOREM CalmIsSafe == Spec => []SafeWhenCalm
<1>1. CalmInv => SafeWhenCalm
  BY DEF CalmInv, SafeWhenCalm
<1> QED BY CmdInvAlways, <1>1, PTL

\* speedtest_compute_func puts the receive hook and the states back, and the
\* compute thread that does it outlives the test: no test is left without.
THEOREM TestsArePutBack == Spec => []QuietAtRest
<1>1. SInv /\ HookInv /\ CountInv => QuietAtRest
  BY Ranges, NotThreads DEF SInv, TypeOK, Hooks, HookInv, CountInv, QuietAtRest, Live
<1> QED BY CmdInvAlways, <1>1, PTL
=============================================================================
