------------------------ MODULE SpeedTestDetectProofs ------------------------
(***************************************************************************)
(* Theorems about SpeedTestDetect for any number of directions and threads *)
(* and any times: READY_<n> shows what was heard, the probing goes on, a   *)
(* patient user never corrupts the timer, a test has the wire for itself,  *)
(* and what rmmod leaves behind.                                           *)
(***************************************************************************)
EXTENDS SpeedTestDetect, SpeedTestProofs

Counting == \E c \in Counters : pc[c] # "gone"

-----------------------------------------------------------------------------
(* What the module's life says of threads and commands.                    *)

AllGone == \A t \in Threads : pc[t] = "gone"

NoSender == \A i \in Dirs : task[i] = NULL

\* Before insmod is through, and from rmmod on.
LifeInv ==
  /\ life \in {"new", "failed", "hooked", "loaded", "deltimer", "stopping", "counter", "gone"}
  /\ tx = (IF life \in {"new", "failed", "gone"} THEN "null" ELSE "xmit")
  /\ life \in {"new", "failed", "hooked"} =>
       /\ cpc = "idle" /\ AllGone /\ \A s \in Slots : task[s] = NULL
       /\ timer = "idle" /\ cb = "idle"
  /\ life = "deltimer" => cpc = "idle"
  /\ life = "stopping" => cpc \in {"undo", "idle"}
  /\ life = "stopping" /\ cpc = "undo" => \A i \in Dirs : i < ci => task[i] = NULL
  /\ life = "stopping" /\ cpc = "idle" => NoSender
  /\ life = "counter" => cpc \in {"stopcomp", "compute"} /\ NoSender
  /\ life = "gone" => cpc = "compute" /\ NoSender

Unloading == life \in {"stopping", "counter", "gone"}

\* The timer is set again, or about to be, only by a compute thread that the
\* unloading met.
DeletedInv ==
  Unloading => counted \/ (timer = "idle" /\ cb = "idle" /\ ~Counting)
-----------------------------------------------------------------------------
(* What the hook will store was heard, and st_ready grows under its hands. *)

ReadyInv == ~torn => ready \subseteq heard /\ (hk = "store" => got \subseteq heard)

HkInv ==
  /\ got \subseteq Dirs
  /\ hk = "store" => ready \subseteq got
  /\ hk = "del" /\ ~erased => ready = Dirs
-----------------------------------------------------------------------------
(* The probing rests only while somebody is there who will decide on it.   *)

\* A pointer names a thread with work to do, or one that is gone.
PointersInv ==
  \A s \in Slots : task[s] \in Threads => pc[task[s]] \in Live \cup {"clear", "gone"}

\* A pointer that no thread will clear.
Dangles(s) == task[s] = ERR \/ (task[s] \in Threads /\ pc[task[s]] = "gone")

Deciding ==
  \/ \E c \in Counters : pc[c] \notin {"gone", "finish"}
  \/ \E s \in Slots : Dangles(s)
  \/ cpc \in {"create", "created"} /\ flag
  \/ cpc \in {"reset", "stopcomp", "compute", "wakecomp"}

ProbingInv ==
  Alive /\ life = "loaded" /\ detecting /\ ~erased /\ ready # Dirs /\ timer = "idle" /\ cb = "idle" => Deciding
-----------------------------------------------------------------------------
(* A patient user.                                                         *)

TimeTypes ==
  /\ due \in Nat /\ left \in Nat /\ due <= PERIOD
  /\ cb \in {"idle", "test", "send", "look", "clear", "mod"}

Ending == {"clear", "hook", "ready", "timer"}

\* A command that may start a test.
Starting ==
  \/ cpc \in {"stop", "create"} /\ \E i \in Dirs : enable[i] # 0
  \/ cpc \in {"stop", "create", "created"} /\ flag
  \/ cpc \in {"reset", "stopcomp", "compute"} /\ life = "loaded"

OneCounter == \A c, d \in Counters : pc[c] # "gone" /\ pc[d] # "gone" => c = d

\* The callback comes to the test that is ending before the test is over.
CallbackFirst ==
  /\ timer = "pending" => due < left
  /\ cb = "test" => left > 0
  /\ cb \notin {"idle", "test"} => left = LINGER

Quiet == timer = "idle" /\ cb = "idle"

TestsApart == OneCounter /\ (Starting => ~Counting)

TimerFree ==
  /\ timer # "corrupt"
  /\ (\E c \in Counters : pc[c] \in Ending) => Quiet
  /\ (\E c \in Counters : pc[c] = "linger") => CallbackFirst
  /\ Unloading /\ ~Quiet => \A c \in Counters : pc[c] \in {"finish", "gone"}

PatientInv == patient => TestsApart /\ TimerFree
-----------------------------------------------------------------------------
(* The steps, by what they leave alone.                                    *)

Parts == <<pc, stop, self, task, enable, cpc, ci, kpc, victim, flag>>

\* Steps of the callback, the hook, the wire and the clock.
Aside == CbStep \/ (\E d \in Dirs : Lost(d) \/ RxTake(d)) \/ RxStep \/ Tick \/ UNCHANGED dvars

LEMMA AsideLeaves ==
  ASSUME Aside
  PROVE  UNCHANGED <<Parts, state, rx, loop, calm, life, tx, detecting, patient, counted>>
BY DEF Aside, Parts, CbStep, CbFire, CbTest, CbTestIf, CbSend, CbSendBy, CbSendNothing, CbLook, CbClear,
       CbMod, CbModIf, Lost, RxTake, RxStep, RxLoad, RxStore, RxCheck, RxDel, Tick, dvars, vars,
       threads, shared, command, history, callback, time, hook

DCounter(t) == DCountOn(t) \/ DCountStopped(t) \/ DCountOver(t) \/ DCountEnds(t)

Loading == LoadFails \/ LoadHooks \/ LoadTimer

LEMMA Kinds ==
  ASSUME [DNext]_dvars
  PROVE  \/ Aside \/ Loading \/ Rmmod \/ UnloadStep \/ DCmd
         \/ \E e \in Enables : DRejected(e) \/ \E l \in Loops : DParse(e, l)
         \/ \E t \in Senders : DSender(t)
         \/ \E t \in Counters : DCounter(t)
BY DEF DNext, Aside, Loading, DCounter

LEMMA ModuleLeaves ==
  ASSUME Loading \/ Rmmod
  PROVE  UNCHANGED <<Parts, state, loop, calm, fault>>
BY DEF Loading, LoadFails, LoadHooks, LoadTimer, Rmmod, Parts, vars, threads, shared, command

LEMMA UnloadLeaves ==
  ASSUME UnloadStep
  PROVE  UNCHANGED <<pc, stop, self, task, enable, state, kpc, victim, flag, loop, calm, fault>>
BY DEF UnloadStep, UnloadTimer, UnloadCounter, UnloadCounterBy, UnloadHooks, UnloadHooksAt,
       threads, shared, command

LEMMA CounterIsStep ==
  ASSUME NEW t \in Counters, DCounter(t)
  PROVE  CounterStep(t) /\ Alive /\ UNCHANGED <<life, tx, cb, cbi, armed, hk, got, wire, patient, counted>>
BY DEF DCounter, DCountOn, DCountStopped, DCountOver, DCountEnds, CounterStep,
       callback, hook, history, time

\* A step of SpeedTest itself.
LEMMA OwnSteps ==
  ASSUME \/ DCmd \/ \E e \in Enables : DRejected(e) \/ \E l \in Loops : DParse(e, l)
         \/ \E t \in Senders : DSender(t)
         \/ \E t \in Counters : DCounter(t)
  PROVE  Next /\ Alive /\ UNCHANGED <<life, tx, cb, cbi, armed, hk, got, wire, counted>>
<1>1. CASE \E t \in Counters : DCounter(t)
  BY <1>1, CounterIsStep DEF Next
<1>2. CASE \/ DCmd \/ (\E e \in Enables : DRejected(e) \/ \E l \in Loops : DParse(e, l))
           \/ \E t \in Senders : DSender(t)
  BY <1>2 DEF DCmd, DRejected, DParse, DSender, Next, callback, hook, history
<1> QED BY <1>1, <1>2
-----------------------------------------------------------------------------
(* SpeedTestDetect is SpeedTest, save for what insmod and rmmod do and for *)
(* who else stores to the hook, st_ready and the timer.                    *)

LEMMA BaseStays ==
  ASSUME Base, UNCHANGED <<Parts, state>>, SharedTypes', CommandTypes', rx' = "fast" => rx = "fast"
  PROVE  Base'
<1> USE DEF Base, Parts
<1>1. TypeOK'
  BY TypeParts DEF SInv, TypeOK, ThreadTypes, SharedTypes, CommandTypes
<1>2. SInv'
  BY <1>1 DEF SInv, Owner, OwnSlot, CmdInv
<1>3. StopInv' /\ WakeInv' /\ CountInv'
  BY DEF StopInv, WakeInv, NotYetWoken, CountInv
<1> QED BY <1>2, <1>3

LEMMA BaseStep ==
  ASSUME Base, LifeInv, HkInv, [DNext]_dvars
  PROVE  Base'
<1> USE DEF Base
<1>0. SharedTypes /\ CommandTypes /\ ThreadTypes
  BY TypeParts DEF SInv
<1>1. CASE Next
  BY <1>1, TypeStep, PtrStep, StopStep, WakeStep, CountStep DEF SInv, PtrInv
<1>2. CASE Aside
  <2>1. UNCHANGED <<Parts, state, rx, loop, calm>>
    BY <1>2, AsideLeaves
  <2>2. ready' \subseteq Dirs /\ timer' \in {"idle", "pending", "corrupt"} /\ fault' \in Faults
    BY <1>0, <1>2 DEF Aside, HkInv, SharedTypes, CommandTypes, Faults, dvars, vars, shared,
       CbStep, CbFire, CbTest, CbTestIf, CbSend, CbSendBy, CbSendNothing, CbLook, CbClear, CbMod, CbModIf,
       Lost, RxTake, RxStep, RxLoad, RxStore, RxCheck, RxDel, Tick
  <2> QED BY <1>0, <2>1, <2>2, BaseStays DEF SharedTypes, CommandTypes, Parts
<1>3. CASE Loading \/ Rmmod
  <2>1. UNCHANGED <<Parts, state, loop, calm, fault>>
    BY <1>3, ModuleLeaves
  <2>2. ready' = ready /\ timer' \in {"idle", "pending", "corrupt"} /\ rx' \in {rx, "probe"}
    BY <1>0, <1>3 DEF Loading, LoadFails, LoadHooks, LoadTimer, Rmmod, vars, shared, SharedTypes
  <2> QED BY <1>0, <2>1, <2>2, BaseStays DEF SharedTypes, CommandTypes, Parts, Hooks
<1>4. CASE UnloadStep
  <2>0. UNCHANGED <<pc, stop, self, task, enable, state, kpc, victim, flag, loop, calm, fault>>
    BY <1>4, UnloadLeaves
  <2>1. CASE UnloadHooks
    <3>1. UNCHANGED <<cpc, ci, ready, timer>> /\ rx' = "null"
      BY <2>1 DEF UnloadHooks, UnloadHooksAt, command
    <3> QED BY <1>0, <2>0, <3>1, BaseStays DEF SharedTypes, CommandTypes, Parts, Hooks
  <2>2. CASE UnloadTimer
    <3>1. cpc = "idle" /\ cpc' = "undo" /\ ci' = 0 /\ timer' = "idle" /\ UNCHANGED <<rx, ready>>
      BY <2>2 DEF UnloadTimer, LifeInv
    <3>2. SharedTypes' /\ CommandTypes'
      BY <1>0, <2>0, <3>1, Ranges DEF SharedTypes, CommandTypes
    <3>3. TypeOK'
      BY <1>0, <2>0, <3>2, TypeParts DEF TypeOK, ThreadTypes, SharedTypes, CommandTypes
    <3>4. SInv'
      BY <2>0, <3>1, <3>3, Ranges DEF SInv, Owner, OwnSlot, CmdInv
    <3>5. StopInv'
      BY <2>0, <3>1 DEF StopInv, After
    <3>6. WakeInv'
      BY <2>0, <3>1 DEF WakeInv, Building
    <3>7. CountInv'
      BY <2>0, <3>1 DEF CountInv
    <3> QED BY <3>4, <3>5, <3>6, <3>7
  <2>3. CASE UnloadCounter
    <3>1. cpc = "idle" /\ cpc' = "stopcomp" /\ ci' = Comp /\ UNCHANGED <<rx, ready, timer>> /\ NoSender
      BY <2>3 DEF UnloadCounter, UnloadCounterBy, LifeInv, shared
    <3>2. SharedTypes' /\ CommandTypes'
      BY <1>0, <2>0, <3>1, Ranges DEF SharedTypes, CommandTypes
    <3>3. TypeOK'
      BY <1>0, <2>0, <3>2, TypeParts DEF TypeOK, ThreadTypes, SharedTypes, CommandTypes
    <3>4. SInv'
      BY <2>0, <3>1, <3>3, Ranges DEF SInv, Owner, OwnSlot, CmdInv
    <3>5. StopInv'
      BY <2>0, <3>1 DEF StopInv, After
    <3>6. WakeInv'
      BY <2>0, <3>1 DEF WakeInv, Building, NoSender, NotYetWoken
    <3>7. CountInv'
      BY <2>0, <3>1 DEF CountInv
    <3> QED BY <3>4, <3>5, <3>6, <3>7
  <2> QED BY <1>4, <2>1, <2>2, <2>3 DEF UnloadStep
<1> QED BY <1>1, <1>2, <1>3, <1>4, Kinds, OwnSteps
-----------------------------------------------------------------------------
(* The module's life.                                                      *)

LEMMA AsideQuiet ==
  ASSUME Aside, timer = "idle", cb = "idle"
  PROVE  timer' = "idle" /\ cb' = "idle"
BY DEF Aside, CbStep, CbFire, CbTest, CbTestIf, CbSend, CbSendBy, CbSendNothing, CbLook, CbClear,
       CbMod, CbModIf, Lost, RxTake, RxStep, RxLoad, RxStore, RxCheck, RxDel, Tick, dvars, vars,
       shared, callback

\* What the stopping loops of rmmod do.
LEMMA CmdAt ==
  ASSUME Base, CmdStep
  PROVE  /\ cpc # "idle"
         /\ cpc \in DOMAIN After =>
              /\ UNCHANGED <<task, enable, state, rx, ready, timer, loop, flag>>
              /\ \A t \in Threads : pc'[t] = pc[t] \/ pc'[t] = "gone"
         /\ cpc = "undo" =>
              \/ UNCHANGED <<cpc, ci>>
              \/ task[ci] = NULL /\ (IF ci = N - 1 THEN cpc' = "idle" ELSE cpc' = "undo" /\ ci' = ci + 1)
         /\ cpc = "stopcomp" => cpc' \in {"stopcomp", "compute"}
<1> USE DEF shared, threads, command, Base
<1>1. cpc # "idle"
  BY DEF CmdStep, StopInv, After, StopNext, StopNextIf, StopTest, StopBadPointer, StopCall, StopReturns,
         SkipSender, CreateSender, CreateSenderFails, HookFast, ResetReady, ResetReadyTo,
         CreateCounter, CreateCounterFails, WakeCounter, WakeSender, WakeSenderUpTo, WakeNobody, At
<1>2. ASSUME cpc \in DOMAIN After
      PROVE  StopNext \/ StopTest \/ StopBadPointer \/ StopCall \/ StopReturns
  BY <1>2 DEF CmdStep, After, SkipSender, CreateSender, CreateSenderFails, HookFast, ResetReady,
         ResetReadyTo, CreateCounter, CreateCounterFails, WakeCounter, WakeSender, WakeSenderUpTo,
         WakeNobody, At
<1>3. cpc \in {"undo", "stopcomp"} => cpc \in DOMAIN After
  BY DEF After
<1>4. ASSUME cpc \in DOMAIN After PROVE UNCHANGED <<task, enable, state, rx, ready, timer, loop, flag>>
  BY <1>2, <1>4 DEF StopNext, StopNextIf, StopTest, StopBadPointer, StopCall, StopReturns
<1>9. ASSUME cpc \in DOMAIN After PROVE \A t \in Threads : pc'[t] = pc[t] \/ pc'[t] = "gone"
  BY <1>2, <1>9 DEF StopNext, StopNextIf, StopTest, StopBadPointer, StopCall, StopReturns, Goto, SInv, TypeOK
<1>5. ASSUME cpc \in {"undo", "stopcomp"}, ~UNCHANGED <<cpc, ci>> PROVE StopNext
  BY <1>2, <1>3, <1>5 DEF StopTest, StopBadPointer, StopCall, StopReturns
<1>6. ASSUME cpc \in {"undo", "stopcomp"}, StopNext
      PROVE  /\ task[ci] = NULL
             /\ IF ci = Last[cpc] THEN cpc' = After[cpc] /\ ci' = 0 ELSE cpc' = cpc /\ ci' = ci + 1
  BY <1>6 DEF StopNext, StopNextIf, At
<1>7. ASSUME cpc = "undo", StopNext
      PROVE  task[ci] = NULL /\ (IF ci = N - 1 THEN cpc' = "idle" ELSE cpc' = "undo" /\ ci' = ci + 1)
  BY <1>6, <1>7 DEF Last, After
<1>8. ASSUME cpc = "stopcomp", StopNext PROVE cpc' \in {"stopcomp", "compute"}
  BY <1>6, <1>8 DEF Last, After
<1> QED BY <1>1, <1>4, <1>5, <1>7, <1>8, <1>9

\* Threads set no pointer, and where none is there is none to move.
LEMMA ThreadsClear ==
  ASSUME Base, (\E t \in Senders : DSender(t)) \/ (\E t \in Counters : DCounter(t))
  PROVE  /\ \A s \in Slots : task[s] = NULL => task'[s] = NULL
         /\ UNCHANGED <<cpc, ci, kpc, victim, flag, fault>>
         /\ ~AllGone
<1> USE DEF Base
<1>1. (\E t \in Senders : SenderStep(t)) \/ (\E t \in Counters : CounterStep(t))
  BY CounterIsStep DEF DSender
<1>2. ASSUME NEW t \in Senders, SenderStep(t) PROVE ~AllGone
  BY <1>2, SenderMoves, Ranges DEF AllGone, Moves
<1>3. ASSUME NEW t \in Counters, CounterStep(t) PROVE ~AllGone
  BY <1>3, CounterMoves, Ranges DEF AllGone, Moves
<1> QED BY <1>1, <1>2, <1>3, ThreadPointers

LEMMA LifeStep ==
  ASSUME Base, LifeInv, [DNext]_dvars
  PROVE  LifeInv'
<1> USE DEF Base
<1>0. \A i \in Dirs : i \in Slots
  BY Ranges
<1>1. CASE Aside
  <2>1. UNCHANGED <<pc, task, cpc, ci, life, tx>>
    BY <1>1, AsideLeaves DEF Parts
  <2> QED BY <1>1, <2>1, AsideQuiet DEF LifeInv, AllGone, NoSender
<1>2. CASE Loading
  <2>1. UNCHANGED <<pc, task, cpc, ci>>
    BY <1>2, ModuleLeaves DEF Parts
  <2>2. CASE LoadFails
    BY <2>1, <2>2 DEF LoadFails, LifeInv, AllGone, NoSender, vars, shared, callback
  <2>3. CASE LoadHooks
    BY <2>1, <2>3 DEF LoadHooks, LifeInv, AllGone, NoSender, callback
  <2>4. CASE LoadTimer
    BY <2>4 DEF LoadTimer, LifeInv
  <2> QED BY <1>2, <2>2, <2>3, <2>4 DEF Loading
<1>3. CASE Rmmod
  BY <1>3 DEF Rmmod, LifeInv, vars, command
<1>4. CASE UnloadStep
  <2>1. UNCHANGED task
    BY <1>4, UnloadLeaves
  <2>2. CASE UnloadTimer
    <3>1. cpc' = "undo" /\ ci' = 0 /\ life = "deltimer" /\ life' = "stopping" /\ tx' = tx
      BY <2>2 DEF UnloadTimer
    <3>2. \A i \in Dirs : ~(i < 0)
      BY Ranges DEF Dirs
    <3> QED BY <3>1, <3>2 DEF LifeInv
  <2>3. CASE UnloadCounter
    BY <2>1, <2>3 DEF UnloadCounter, UnloadCounterBy, LifeInv, NoSender
  <2>4. CASE UnloadHooks
    BY <2>1, <2>4 DEF UnloadHooks, UnloadHooksAt, LifeInv, NoSender, command
  <2> QED BY <1>4, <2>2, <2>3, <2>4 DEF UnloadStep
<1>5. CASE \E e \in Enables : DRejected(e) \/ \E l \in Loops : DParse(e, l)
  <2>1. life = "loaded" /\ UNCHANGED <<life, tx>>
    BY <1>5 DEF DRejected, DParse
  <2> QED BY <2>1 DEF LifeInv
<1>6. CASE DCmd
  <2>1. CmdStep /\ Alive /\ UNCHANGED <<life, tx>> /\ (cpc = "compute" => life = "loaded")
    BY <1>6 DEF DCmd
  <2>2. cpc # "idle"
    BY <2>1, CmdAt
  <2>3. CASE life = "loaded"
    BY <2>1, <2>3 DEF LifeInv
  <2>4. CASE life = "stopping"
    <3>1. cpc = "undo" /\ ci \in Dirs /\ task' = task
      BY <2>1, <2>2, <2>4, CmdAt DEF LifeInv, After, SInv, CmdInv
    <3>2. CASE UNCHANGED <<cpc, ci>>
      BY <2>1, <2>4, <3>1, <3>2 DEF LifeInv
    <3>3. CASE task[ci] = NULL /\ IF ci = N - 1 THEN cpc' = "idle" ELSE cpc' = "undo" /\ ci' = ci + 1
      <4>1. \A i \in Dirs : i < ci + 1 => i < ci \/ i = ci
        BY <3>1, Ranges DEF Dirs
      <4>2. ci = N - 1 => \A i \in Dirs : i < ci + 1
        BY <3>1, Ranges DEF Dirs
      <4>3. \A i \in Dirs : i < ci + 1 => task'[i] = NULL
        BY <2>4, <3>1, <3>3, <4>1 DEF LifeInv
      <4>4. CASE ci = N - 1
        BY <2>1, <2>4, <3>3, <4>2, <4>3, <4>4 DEF LifeInv, NoSender
      <4>5. CASE ci # N - 1
        BY <2>1, <2>4, <3>3, <4>3, <4>5 DEF LifeInv
      <4> QED BY <4>4, <4>5
    <3> QED BY <2>1, <3>1, <3>2, <3>3, CmdAt
  <2>5. CASE life = "counter"
    <3>1. cpc = "stopcomp"
      BY <2>1, <2>5 DEF LifeInv
    <3>2. task' = task /\ cpc' \in {"stopcomp", "compute"}
      BY <2>1, <3>1, CmdAt DEF After
    <3> QED BY <2>1, <2>5, <3>2 DEF LifeInv, NoSender
  <2> QED BY <2>1, <2>2, <2>3, <2>4, <2>5 DEF LifeInv, Alive
<1>7. CASE (\E t \in Senders : DSender(t)) \/ (\E t \in Counters : DCounter(t))
  <2>1. UNCHANGED <<life, tx, cpc, ci>> /\ ~AllGone /\ \A i \in Dirs : task[i] = NULL => task'[i] = NULL
    BY <1>0, <1>7, ThreadsClear, OwnSteps
  <2> QED BY <2>1 DEF LifeInv, NoSender
<1> QED BY <1>1, <1>2, <1>3, <1>4, <1>5, <1>6, <1>7, Kinds
-----------------------------------------------------------------------------
(* Who stores to st_ready and to the timer.                                *)

LEMMA CmdStores ==
  ASSUME Base, DCmd
  PROVE  /\ CmdStep /\ Alive /\ UNCHANGED <<timer, loop, due, left, cb, hk, got, life, detecting, patient, counted>>
         /\ cpc = "compute" => life = "loaded"
         /\ cpc = "reset" => ready' = {} /\ Forget
         /\ cpc # "reset" => UNCHANGED <<ready, heard, torn, erased>>
<1> USE DEF shared, Base
<1>1. UNCHANGED <<timer, loop>> /\ (cpc # "reset" => ready' = ready)
  BY DEF DCmd, CmdStep, StopNext, StopNextIf, StopTest, StopBadPointer, StopCall, StopReturns, SkipSender,
         CreateSender, CreateSenderFails, HookFast, ResetReady, ResetReadyTo, CreateCounter,
         CreateCounterFails, WakeCounter, WakeSender, WakeSenderUpTo, WakeNobody, At
<1>2. cpc = "reset" => ready' = {}
  BY DEF DCmd, CmdStep, StopInv, After, StopNext, StopNextIf, StopTest, StopBadPointer, StopCall, StopReturns,
         SkipSender, CreateSender, CreateSenderFails, HookFast, ResetReady, ResetReadyTo, CreateCounter,
         CreateCounterFails, WakeCounter, WakeSender, WakeSenderUpTo, WakeNobody, At
<1> QED BY <1>1, <1>2 DEF DCmd, time, callback, hook

LEMMA SenderStores ==
  ASSUME NEW t \in Senders, DSender(t)
  PROVE  SenderStep(t) /\ Alive
         /\ UNCHANGED <<ready, timer, loop, life, tx, callback, time, hook, wire, history>>
BY DEF DSender, SenderStep, SenderFails, SenderStarts, SenderLeaves, SenderClear, SenderClearTo, SenderOff,
       SenderEnd, shared

LEMMA CounterStores ==
  ASSUME Base, NEW t \in Counters, DCounter(t)
  PROVE  /\ loop' = loop
         /\ \/ /\ UNCHANGED <<ready, timer, due, detecting, heard, torn, erased>>
               /\ pc[t] \notin {"ready", "timer"}
            \/ /\ Moves(t, "ready", "finish") /\ UNCHANGED <<ready, timer, due, left, heard, torn, erased>>
               /\ detecting' = FALSE
            \/ /\ Moves(t, "ready", "timer") /\ UNCHANGED <<timer, due, left>>
               /\ ready' = {} /\ Forget
            \/ /\ Moves(t, "timer", "finish") /\ UNCHANGED <<ready, left, detecting, heard, torn>>
               /\ timer' = (IF timer = "idle" THEN "pending" ELSE "corrupt") /\ Arm
<1> USE DEF shared, Base
<1>0. t \in Threads
  BY Ranges
<1>1. CASE DCountOn(t) \/ DCountStopped(t) \/ DCountOver(t)
  BY <1>1 DEF DCountOn, DCountStopped, DCountOver, CountOn, CountStopped, CountStoppedIf, CountOver, history, time
<1>2. CASE DCountEnds(t)
  <2>1. CASE CounterReady(t)
    <3>1. pc[t] = "ready" /\ stop' = stop /\ self' = self
      BY <2>1 DEF CounterReady
    <3>2. CASE loop = 0
      <4>1. Goto(t, "finish") /\ ready' = ready /\ UNCHANGED <<loop, timer, due, left, heard, torn, erased>>
        BY <1>2, <2>1, <3>1, <3>2 DEF DCountEnds, CounterReady
      <4>2. detecting' = FALSE
        BY <1>2, <3>1, <3>2 DEF DCountEnds
      <4> QED BY <1>0, <3>1, <4>1, <4>2, GotoMoves DEF Moves
    <3>3. CASE loop # 0
      <4>1. Goto(t, "timer") /\ ready' = {} /\ Forget /\ UNCHANGED <<loop, timer, due, left>>
        BY <1>2, <2>1, <3>1, <3>3 DEF DCountEnds, CounterReady
      <4> QED BY <1>0, <3>1, <4>1, GotoMoves DEF Moves
    <3> QED BY <3>2, <3>3
  <2>2. CASE CounterTimer(t)
    <3>1. /\ pc[t] = "timer" /\ Goto(t, "finish") /\ UNCHANGED <<loop, ready, left, detecting, heard, torn>>
          /\ timer' = (IF timer = "idle" THEN "pending" ELSE "corrupt") /\ Arm
      BY <1>2, <2>2 DEF DCountEnds, CounterTimer
    <3> QED BY <1>0, <3>1, GotoMoves DEF Moves
  <2>3. CASE CounterClear(t) \/ CounterHook(t) \/ CounterFinish(t)
    <3>1. pc[t] \in {"clear", "hook", "finish"} /\ UNCHANGED <<ready, timer, loop>>
      BY <2>3 DEF CounterClear, CounterHook, CounterHookTo, CounterFinish
    <3> QED BY <1>2, <3>1 DEF DCountEnds
  <2> QED BY <1>2, <2>1, <2>2, <2>3 DEF DCountEnds, CounterEnds
<1> QED BY <1>1, <1>2 DEF DCounter
-----------------------------------------------------------------------------
(* What is left of the timer, and what the hook has heard.                 *)

LEMMA DeletedStep ==
  ASSUME Base, LifeInv, DeletedInv, [DNext]_dvars
  PROVE  DeletedInv'
<1> USE DEF Unloading
<1>1. CASE Aside
  <2>1. UNCHANGED <<pc, life, counted>>
    BY <1>1, AsideLeaves DEF Parts
  <2> QED BY <1>1, <2>1, AsideQuiet DEF DeletedInv, Counting
<1>2. CASE Loading \/ Rmmod
  BY <1>2 DEF DeletedInv, Loading, LoadFails, LoadHooks, LoadTimer, Rmmod
<1>3. CASE UnloadStep
  <2>1. pc' = pc
    BY <1>3, UnloadLeaves
  <2> QED BY <1>3, <2>1 DEF UnloadStep, UnloadTimer, UnloadCounter, UnloadCounterBy, UnloadHooks,
                            UnloadHooksAt, DeletedInv, Counting, shared, callback, history
<1>4. CASE \E e \in Enables : DRejected(e) \/ \E l \in Loops : DParse(e, l)
  BY <1>4 DEF DRejected, DParse, DeletedInv
<1>5. CASE DCmd
  <2> SUFFICES ASSUME Unloading PROVE DeletedInv'
    BY <1>5, CmdStores DEF DeletedInv
  <2>1. cpc \in DOMAIN After
    BY <1>5, CmdStores, CmdAt DEF LifeInv, After, Alive
  <2>2. \A c \in Counters : pc[c] = "gone" => pc'[c] = "gone"
    BY <1>5, <2>1, CmdStores, CmdAt, Ranges
  <2> QED BY <1>5, <2>2, CmdStores DEF DeletedInv, Counting
<1>6. ASSUME NEW t \in Senders, DSender(t) PROVE DeletedInv'
  <2>1. \A c \in Counters : pc'[c] = pc[c]
    BY <1>6, SenderStores, SenderMoves, Ranges DEF OthersStay, Base
  <2> QED BY <1>6, <2>1, SenderStores DEF DeletedInv, Counting, callback, history
<1>7. ASSUME NEW t \in Counters, DCounter(t) PROVE DeletedInv'
  <2>1. pc[t] # "gone" /\ UNCHANGED <<life, counted>>
    BY <1>7, CounterIsStep, CounterMoves DEF Base, Moves
  <2> QED BY <2>1 DEF DeletedInv, Counting
<1> QED BY <1>1, <1>2, <1>3, <1>4, <1>5, <1>6, <1>7, Kinds

LEMMA HeardStep ==
  ASSUME Base, HkInv, ReadyInv, [DNext]_dvars
  PROVE  HkInv' /\ ReadyInv'
<1> USE DEF HkInv, ReadyInv
<1>1. ASSUME UNCHANGED <<ready, hk, got, heard, torn, erased>> PROVE HkInv' /\ ReadyInv'
  BY <1>1
<1>2. ASSUME ready' = {}, Forget, UNCHANGED <<hk, got>> PROVE HkInv' /\ ReadyInv'
  BY <1>2 DEF Forget, Erase
<1>3. ASSUME UNCHANGED <<ready, hk, got, heard, torn>>, Arm PROVE HkInv' /\ ReadyInv'
  BY <1>3 DEF Arm
<1>4. CASE Aside
  <2>1. CASE CbFire \/ CbTest \/ CbSend \/ CbSendNothing \/ CbLook \/ Tick \/ \E d \in Dirs : Lost(d)
    BY <1>1, <2>1 DEF CbFire, CbTest, CbTestIf, CbSend, CbSendBy, CbSendNothing, CbLook, Tick, Lost,
                      vars, shared, hook, history
  <2>2. CASE CbClear
    <3>1. (ready' = ready /\ erased' = erased) \/ (ready' = {} /\ erased' = (erased \/ hk = "del"))
      BY <2>2 DEF CbClear, Erase
    <3>2. UNCHANGED <<hk, got, heard, torn>>
      BY <2>2 DEF CbClear, hook
    <3> QED BY <3>1, <3>2
  <2>3. CASE CbMod
    BY <1>3, <2>3 DEF CbMod, CbModIf, hook
  <2>4. ASSUME NEW d \in Dirs, RxTake(d) PROVE HkInv' /\ ReadyInv'
    BY <2>4 DEF RxTake, vars, shared, history
  <2>5. CASE RxLoad
    BY <2>5 DEF RxLoad, vars, shared, Base, SInv, TypeOK
  <2>6. CASE RxStore
    BY <2>6 DEF RxStore, history
  <2>7. CASE RxCheck
    BY <2>7 DEF RxCheck, vars, shared, history
  <2>8. CASE RxDel
    BY <2>8 DEF RxDel, history
  <2>9. CASE UNCHANGED dvars
    BY <1>1, <2>9 DEF dvars, vars, shared, hook, history
  <2> QED BY <1>4, <2>1, <2>2, <2>3, <2>4, <2>5, <2>6, <2>7, <2>8, <2>9 DEF Aside, CbStep, RxStep
<1>5. CASE Loading \/ Rmmod
  BY <1>1, <1>3, <1>5 DEF Loading, LoadFails, LoadHooks, LoadTimer, Rmmod, vars, shared, hook, history
<1>6. CASE UnloadStep
  BY <1>1, <1>6 DEF UnloadStep, UnloadTimer, UnloadCounter, UnloadCounterBy, UnloadHooks, UnloadHooksAt,
                    shared, hook, history
<1>7. CASE \E e \in Enables : DRejected(e) \/ \E l \in Loops : DParse(e, l)
  BY <1>1, <1>7 DEF DRejected, DParse, CmdRejected, CmdParse, hook, history
<1>8. CASE DCmd
  BY <1>1, <1>2, <1>8, CmdStores
<1>9. ASSUME NEW t \in Senders, DSender(t) PROVE HkInv' /\ ReadyInv'
  BY <1>1, <1>9, SenderStores DEF hook, history
<1>10. ASSUME NEW t \in Counters, DCounter(t) PROVE HkInv' /\ ReadyInv'
  BY <1>1, <1>2, <1>3, <1>10, CounterStores, CounterIsStep
<1> QED BY <1>4, <1>5, <1>6, <1>7, <1>8, <1>9, <1>10, Kinds
-----------------------------------------------------------------------------
(* Pointers.                                                               *)

LEMMA CmdPointers ==
  ASSUME Base, CmdStep
  PROVE  /\ \A s \in Slots :
              \/ task'[s] = task[s]
              \/ task[s] = NULL /\ (task'[s] = ERR \/ (task'[s] \in Threads /\ pc'[task'[s]] = "new"))
         /\ \A t \in Threads : pc[t] = "gone" /\ pc'[t] # "gone" => task[Slot(t)] = NULL
<1> USE DEF Base, shared, threads, command
<1>0. Comp \in Slots /\ (cpc = "create" => ci \in Slots /\ task[ci] = NULL) /\ (cpc = "compute" => task[Comp] = NULL)
  BY Ranges DEF SInv, CmdInv, Dirs
<1>1. ASSUME NEW s \in Slots, task[s] = NULL, NEW t \in Threads, Create(s, t)
      PROVE  /\ \A r \in Slots : task'[r] = IF r = s THEN t ELSE task[r]
             /\ \A u \in Threads : pc'[u] = IF u = t THEN "new" ELSE pc[u]
             /\ Slot(t) = s
  BY <1>1 DEF Create, Goto, SInv, TypeOK
<1>2. CASE CreateSender
  <2>1. PICK t \in Threads : Create(ci, t)
    BY <1>2 DEF CreateSender
  <2>2. cpc = "create"
    BY <1>2 DEF CreateSender, At
  <2> QED BY <1>0, <1>1, <2>1, <2>2
<1>3. CASE CreateCounter
  <2>1. PICK t \in Threads : Create(Comp, t)
    BY <1>3 DEF CreateCounter
  <2>2. cpc = "compute"
    BY <1>3 DEF CreateCounter, At
  <2> QED BY <1>0, <1>1, <2>1, <2>2
<1>4. CASE CreateSenderFails \/ CreateCounterFails
  <2>1. \E s \in Slots : task[s] = NULL /\ task' = [task EXCEPT ![s] = ERR] /\ pc' = pc
    BY <1>0, <1>4 DEF CreateSenderFails, CreateCounterFails, CreateFails, At
  <2> QED BY <2>1 DEF SInv, TypeOK
<1>5. CASE ~(CreateSender \/ CreateCounter \/ CreateSenderFails \/ CreateCounterFails)
  <2>1. task' = task
    BY <1>5 DEF CmdStep, StopNext, StopNextIf, StopTest, StopBadPointer, StopCall, StopReturns, SkipSender,
                HookFast, ResetReady, ResetReadyTo, WakeCounter, WakeSender, WakeSenderUpTo, WakeNobody
  <2>2. \A t \in Threads : pc[t] = "gone" => pc'[t] = "gone"
    <3> TAKE t \in Threads
    <3> SUFFICES ASSUME pc[t] = "gone", pc'[t] # "gone" PROVE FALSE
      OBVIOUS
    <3>1. Creates(Slot(t)) \/ t \in Counters
      BY CmdMoves, Ranges DEF Moves
    <3>2. CASE Creates(Slot(t))
      BY <1>5, <3>2, CmdMoves DEF Creates
    <3>3. CASE t \in Counters
      <4>1. StopCall \/ WakeCounter \/ WakeSender
        BY <1>5 DEF CmdStep, StopNext, StopNextIf, StopTest, StopBadPointer, StopReturns, SkipSender,
                    HookFast, ResetReady, ResetReadyTo, WakeNobody
      <4>2. CASE StopCall
        BY <4>2 DEF StopCall, Goto, SInv, TypeOK
      <4>3. CASE WakeCounter
        BY <4>3 DEF WakeCounter, Goto, At, WakeInv, SInv, TypeOK
      <4>4. CASE WakeSender
        <5>1. task[ci] \in Threads => Slot(task[ci]) # Comp
          BY <4>4, Ranges DEF WakeSender, WakeSenderUpTo, At, SInv, CmdInv, OwnSlot
        <5> QED BY <3>3, <4>4, <5>1, Ranges DEF WakeSender, WakeSenderUpTo, Goto, SInv, TypeOK
      <4> QED BY <4>1, <4>2, <4>3, <4>4
    <3> QED BY <3>1, <3>2, <3>3
  <2> QED BY <2>1, <2>2
<1> QED BY <1>2, <1>3, <1>4, <1>5

\* Who moves pointers or threads.
LEMMA Movers ==
  ASSUME Base, [DNext]_dvars
  PROVE  \/ UNCHANGED <<pc, task>>
         \/ CmdStep
         \/ \E t \in Senders : DSender(t) /\ SenderStep(t)
         \/ \E t \in Counters : DCounter(t) /\ CounterStep(t)
<1>1. CASE Aside \/ Loading \/ Rmmod \/ UnloadStep
  BY <1>1, AsideLeaves, ModuleLeaves, UnloadLeaves DEF Parts
<1>2. CASE \E e \in Enables : DRejected(e) \/ \E l \in Loops : DParse(e, l)
  BY <1>2 DEF DRejected, DParse, CmdRejected, CmdParse, threads
<1> QED BY <1>1, <1>2, Kinds, CmdStores, SenderStores, CounterIsStep

LEMMA PointersStep ==
  ASSUME Base, PointersInv, [DNext]_dvars
  PROVE  PointersInv'
<1> USE DEF Base
<1>1. CASE UNCHANGED <<pc, task>>
  BY <1>1 DEF PointersInv
<1>2. CASE CmdStep
  <2>1. \A u \in Threads : pc'[u] = pc[u] \/ pc'[u] \in {"gone", "new", "look", "make"}
    BY <1>2, CmdMoves, Ranges DEF Moves
  <2> QED BY <1>2, <2>1, CmdPointers, NotThreads DEF PointersInv, Live
<1>3. ASSUME NEW t \in Threads, OthersStay(t),
             \A s \in Slots : task'[s] = task[s] \/ task'[s] = NULL,
             \/ pc'[t] \in Live \cup {"clear", "gone"}
             \/ pc[t] \notin Live \cup {"clear", "gone"}
             \/ pc[t] = "clear" /\ task'[Slot(t)] = NULL
      PROVE  PointersInv'
  <2> SUFFICES ASSUME NEW s \in Slots, task'[s] \in Threads
               PROVE  pc'[task'[s]] \in Live \cup {"clear", "gone"}
    BY DEF PointersInv
  <2>1. task'[s] = task[s] /\ Slot(task[s]) = s
    BY <1>3, NotThreads DEF SInv, OwnSlot
  <2> QED BY <1>3, <2>1, NotThreads DEF PointersInv, OthersStay
<1>4. ASSUME NEW t \in Threads, pc[t] = "clear", task' = [task EXCEPT ![Slot(t)] = NULL]
      PROVE  task'[Slot(t)] = NULL
  BY <1>4, Ranges DEF SInv, TypeOK
<1>5. ASSUME NEW t \in Senders, SenderStep(t) PROVE PointersInv'
  <2>1. /\ t \in Threads /\ OthersStay(t)
        /\ \A s \in Slots : task'[s] = task[s] \/ task'[s] = NULL
    BY <1>5, SenderMoves, ThreadPointers, Ranges
  <2>2. \/ pc'[t] \in Live \cup {"clear", "gone"}
        \/ pc[t] \notin Live \cup {"clear", "gone"}
        \/ pc[t] = "clear" /\ task'[Slot(t)] = NULL
    BY <1>4, <1>5, <2>1, SenderMoves DEF Moves, Ended, Live
  <2> QED BY <1>3, <2>1, <2>2
<1>6. ASSUME NEW t \in Counters, CounterStep(t) PROVE PointersInv'
  <2>1. /\ t \in Threads /\ OthersStay(t)
        /\ \A s \in Slots : task'[s] = task[s] \/ task'[s] = NULL
    BY <1>6, CounterMoves, ThreadPointers, Ranges
  <2>2. \/ pc'[t] \in Live \cup {"clear", "gone"}
        \/ pc[t] \notin Live \cup {"clear", "gone"}
        \/ pc[t] = "clear" /\ task'[Slot(t)] = NULL
    BY <1>4, <1>6, <2>1, CounterMoves, Ranges DEF Moves, Ended, Live
  <2> QED BY <1>3, <2>1, <2>2
<1> QED BY <1>1, <1>2, <1>5, <1>6, Movers

LEMMA DanglesOn ==
  ASSUME Base, [DNext]_dvars, NEW s \in Slots, Dangles(s)
  PROVE  Dangles(s)'
<1> USE DEF Base, Dangles
<1>1. CASE UNCHANGED <<pc, task>>
  BY <1>1
<1>2. CASE CmdStep
  <2>1. task[s] # NULL /\ (task[s] \in Threads => Slot(task[s]) = s)
    BY NotThreads DEF SInv, OwnSlot
  <2> QED BY <1>2, <2>1, CmdPointers
<1>3. ASSUME NEW t \in Threads, pc[t] # "gone", OthersStay(t),
             \/ task'[s] = task[s]
             \/ task'[s] = NULL /\ task[s] \in Threads /\ pc[task[s]] = "clear"
      PROVE  Dangles(s)'
  BY <1>3, NotThreads DEF OthersStay
<1>4. ASSUME NEW t \in Senders, SenderStep(t) PROVE Dangles(s)'
  BY <1>3, <1>4, SenderMoves, ThreadPointers, Ranges DEF Moves
<1>5. ASSUME NEW t \in Counters, CounterStep(t) PROVE Dangles(s)'
  BY <1>3, <1>5, CounterMoves, ThreadPointers, Ranges DEF Moves
<1> QED BY <1>1, <1>2, <1>4, <1>5, Movers
-----------------------------------------------------------------------------
(* The probing goes on.                                                    *)

\* The callback that meets a test, and leaves the timer, leaves it to somebody.
LEMMA BusyDecides ==
  ASSUME Base, PointersInv, Busy
  PROVE  Deciding
<1> USE DEF Base
<1>1. PICK s \in Slots : task[s] # NULL
  BY Ranges DEF Busy, Running
<1>2. task[s] = ERR \/ task[s] \in Threads
  BY <1>1 DEF SInv, TypeOK, Pointers
<1>3. CASE Dangles(s)
  BY <1>3 DEF Deciding
<1>4. CASE task[s] \in Counters /\ ~Dangles(s)
  <2>1. pc[task[s]] \in CounterPcs /\ pc[task[s]] \in Live \cup {"clear"}
    BY <1>4, Ranges DEF PointersInv, SInv, TypeOK, Dangles
  <2> QED BY <1>4, <2>1 DEF Deciding, Live
<1>5. CASE task[s] \in Senders /\ ~Dangles(s)
  <2>1. pc[task[s]] \in SenderPcs /\ pc[task[s]] \in Live \cup {"clear"} /\ s \in Dirs
    BY <1>5, Ranges DEF PointersInv, SInv, TypeOK, OwnSlot, Dangles
  <2>2. CASE pc[task[s]] # "new"
    <3>1. \E c \in Counters : pc[c] \in AtWork
      BY <1>5, <2>1, <2>2 DEF CountInv, Sends, SenderPcs, Live
    <3> QED BY <3>1 DEF Deciding, AtWork
  <2>3. CASE pc[task[s]] = "new"
    <3>1. cpc \in Building \/ cpc = "wake" \/ \E r \in Slots : task[r] = ERR
      BY <1>5, <2>3 DEF WakeInv
    <3>2. CASE cpc = "wake"
      <4>1. \E c \in Counters : pc[c] \in AtWork
        BY <1>5, <2>3, <3>2 DEF CountInv
      <4> QED BY <4>1 DEF Deciding, AtWork
    <3>3. CASE cpc \in {"create", "created"}
      <4>1. flag
        BY <1>1, <2>1, <3>3 DEF WakeInv
      <4> QED BY <3>3, <4>1 DEF Deciding
    <3> QED BY <3>1, <3>2, <3>3 DEF Deciding, Building, Dangles
  <2> QED BY <2>2, <2>3
<1> QED BY <1>2, <1>3, <1>4, <1>5, Ranges DEF Dangles

\* A command that will start a test goes on until its compute thread is there
\* or could not be created.
LEMMA CmdGoesOn ==
  ASSUME Base, CmdStep, cpc \in Building, flag \/ cpc \notin {"create", "created"}
  PROVE  \/ cpc' \in Building /\ (flag' \/ cpc' \notin {"create", "created"})
         \/ \E s \in Slots : task'[s] = ERR
         \/ \E c \in Counters : pc'[c] = "look"
<1> USE DEF Base, shared, threads, command
<1>0. Comp \in Slots /\ (cpc = "create" => ci \in Slots)
  BY Ranges DEF SInv, CmdInv
<1>1. CASE SkipSender \/ CreateSender
  BY <1>1 DEF SkipSender, CreateSender, At, NextDir, Building
<1>2. CASE CreateSenderFails \/ CreateCounterFails
  BY <1>0, <1>2 DEF CreateSenderFails, CreateCounterFails, CreateFails, At, SInv, TypeOK
<1>3. CASE HookFast \/ ResetReady \/ CreateCounter
  BY <1>3 DEF HookFast, ResetReady, ResetReadyTo, CreateCounter, At, Building
<1>4. CASE WakeCounter
  <2>1. task[Comp] \in Threads /\ Slot(task[Comp]) = Comp
    BY <1>0, <1>4 DEF WakeCounter, At, WakeInv, SInv, OwnSlot
  <2>2. task[Comp] \in Counters /\ pc'[task[Comp]] = "look"
    BY <1>4, <2>1 DEF WakeCounter, Goto, SInv, TypeOK, Counters
  <2> QED BY <2>2
<1>5. CASE WakeSender \/ WakeNobody
  BY <1>5 DEF WakeSender, WakeSenderUpTo, WakeNobody, At, Building
<1>6. CASE StopNext \/ StopTest \/ StopBadPointer \/ StopCall \/ StopReturns
  <2>1. cpc \in DOMAIN After
    BY <1>6 DEF StopNext, StopNextIf, StopTest, StopBadPointer, StopCall, StopReturns, StopInv, At
  <2>2. cpc = "stopcomp" /\ cpc' \in {"stopcomp", "compute"}
    BY <2>1, CmdAt DEF After, Building
  <2> QED BY <2>2 DEF Building
<1> QED BY <1>1, <1>2, <1>3, <1>4, <1>5, <1>6 DEF CmdStep

LEMMA DecidingCmd ==
  ASSUME Base, DCmd, Deciding, [DNext]_dvars
  PROVE  Deciding'
<1> USE DEF Base
<1>0. CmdStep
  BY CmdStores
<1>1. ASSUME NEW c \in Counters, pc[c] \notin {"gone", "finish"} PROVE Deciding'
  <2>1. pc'[c] \notin {"gone", "finish"}
    BY <1>0, <1>1, CmdMoves DEF Moves
  <2> QED BY <2>1 DEF Deciding
<1>2. ASSUME NEW s \in Slots, Dangles(s) PROVE Deciding'
  BY <1>2, DanglesOn DEF Deciding
<1>3. ASSUME cpc \in Building, flag \/ cpc \notin {"create", "created"} PROVE Deciding'
  BY <1>0, <1>3, CmdGoesOn DEF Deciding, Building, Dangles
<1> QED BY <1>1, <1>2, <1>3 DEF Deciding, Building

LEMMA ProbingStep ==
  ASSUME Base, Base', LifeInv, HkInv, PointersInv, ProbingInv, [DNext]_dvars
  PROVE  ProbingInv'
<1> SUFFICES ASSUME Alive', life' = "loaded", detecting', ~erased', ready' # Dirs, timer' = "idle", cb' = "idle"
             PROVE  Deciding'
  BY DEF ProbingInv
<1> USE DEF Base
<1>same. ASSUME UNCHANGED <<pc, task, cpc, flag>>, Deciding PROVE Deciding'
  BY <1>same DEF Deciding, Dangles
<1>1. CASE Aside
  <2>0. UNCHANGED <<pc, task, cpc, flag, life, detecting>>
    BY <1>1, AsideLeaves DEF Parts
  <2> SUFFICES Deciding
    BY <1>same, <2>0
  <2>1. CASE CbTest
    <3>1. Busy
      BY <2>1 DEF CbTest, CbTestIf
    <3> QED BY <3>1, BusyDecides
  <2>2. CASE CbFire \/ CbSend \/ CbSendNothing \/ CbLook \/ CbClear \/ CbMod
    BY <2>2 DEF CbFire, CbSend, CbSendBy, CbSendNothing, CbLook, CbClear, CbMod, CbModIf, Alive
  <2>3. CASE RxStore
    <3>1. hk = "store" /\ ready' = got /\ UNCHANGED <<timer, cb, erased>> /\ Alive
      BY <2>3 DEF RxStore, callback, history
    <3>2. ready # Dirs
      BY <3>1 DEF HkInv
    <3> QED BY <2>0, <3>1, <3>2 DEF ProbingInv
  <2>4. CASE RxDel
    BY <2>4 DEF RxDel, HkInv, history
  <2>5. CASE (\E d \in Dirs : Lost(d) \/ RxTake(d)) \/ RxLoad \/ RxCheck \/ Tick
    <3>1. UNCHANGED <<timer, cb, erased, ready>> /\ Alive
      BY <2>5 DEF Lost, RxTake, RxLoad, RxCheck, Tick, vars, shared, callback, history
    <3> QED BY <2>0, <3>1 DEF ProbingInv
  <2>6. CASE UNCHANGED dvars
    <3>1. UNCHANGED <<timer, cb, erased, ready, life, fault>>
      BY <2>6 DEF dvars, vars, shared, callback, history
    <3> QED BY <2>0, <3>1 DEF ProbingInv, Alive
  <2> QED BY <1>1, <2>1, <2>2, <2>3, <2>4, <2>5, <2>6 DEF Aside, CbStep, RxStep
<1>2. CASE Loading \/ Rmmod \/ UnloadStep
  BY <1>2 DEF Loading, LoadFails, LoadHooks, LoadTimer, Rmmod, UnloadStep, UnloadTimer, UnloadCounter,
              UnloadCounterBy, UnloadHooks, UnloadHooksAt
<1>3. CASE \E e \in Enables : DRejected(e) \/ \E l \in Loops : DParse(e, l)
  <2>1. /\ UNCHANGED <<pc, task, timer, ready, life, detecting, erased, cb>> /\ Alive
        /\ cpc = "idle"
    BY <1>3 DEF DRejected, DParse, CmdRejected, CmdParse, At, threads, callback, history
  <2>2. Deciding
    BY <2>1 DEF ProbingInv
  <2> QED BY <2>1, <2>2 DEF Deciding, Dangles
<1>4. CASE DCmd
  <2>1. UNCHANGED <<timer, cb, life, detecting>> /\ Alive
    BY <1>4, CmdStores
  <2>2. CASE cpc = "reset"
    <3>1. Deciding
      BY <2>2 DEF Deciding
    <3> QED BY <1>4, <3>1, DecidingCmd
  <2>3. CASE cpc # "reset"
    <3>1. UNCHANGED <<ready, erased>>
      BY <1>4, <2>3, CmdStores
    <3>2. Deciding
      BY <2>1, <3>1 DEF ProbingInv
    <3> QED BY <1>4, <3>2, DecidingCmd
  <2> QED BY <2>2, <2>3
<1>5. ASSUME NEW t \in Senders, DSender(t) PROVE Deciding'
  <2>1. UNCHANGED <<timer, cb, life, detecting, ready, erased>> /\ Alive
    BY <1>5, SenderStores DEF callback, history
  <2>2. Deciding
    BY <2>1 DEF ProbingInv
  <2>3. /\ UNCHANGED <<cpc, flag>> /\ \A c \in Counters : pc'[c] = pc[c]
    BY <1>5, SenderStores, SenderMoves, Ranges DEF OthersStay, command
  <2>4. \A s \in Slots : Dangles(s) => Dangles(s)'
    BY DanglesOn
  <2> QED BY <2>2, <2>3, <2>4 DEF Deciding
<1>6. ASSUME NEW t \in Counters, DCounter(t) PROVE Deciding'
  <2>1. UNCHANGED <<cb, life, cpc, flag>> /\ Alive /\ CounterStep(t) /\ t \in Threads
    BY <1>6, CounterIsStep, CounterMoves, Ranges DEF command
  <2>2. \A s \in Slots : Dangles(s) => Dangles(s)'
    BY DanglesOn
  <2>3. CASE pc'[t] \notin {"gone", "finish"}
    BY <2>3 DEF Deciding
  <2>4. CASE Moves(t, "ready", "finish")
    BY <1>6, <2>4, CounterStores DEF Moves
  <2>5. CASE Moves(t, "timer", "finish")
    BY <1>6, <2>5, CounterStores DEF Moves
  <2>6. CASE pc[t] = "finish"
    <3>1. UNCHANGED <<ready, timer, detecting, erased>>
      BY <1>6, <2>6, CounterStores DEF Moves
    <3>2. Deciding
      BY <2>1, <3>1 DEF ProbingInv
    <3>3. \A c \in Counters : c # t => pc'[c] = pc[c]
      BY <2>1, CounterMoves, Ranges DEF OthersStay
    <3> QED BY <2>1, <2>2, <2>6, <3>2, <3>3 DEF Deciding
  <2> QED BY <2>1, <2>3, <2>4, <2>5, <2>6, CounterMoves DEF Moves
<1> QED BY <1>1, <1>2, <1>3, <1>4, <1>5, <1>6, Kinds
-----------------------------------------------------------------------------
(* The time, and a patient user.                                           *)

LEMMA Times == PERIOD \in Nat /\ LINGER \in Nat /\ PERIOD > 0 /\ LINGER > PERIOD /\ LINGER > 0
BY CallbackComesFirst DEF CallbackComesFirst

LEMMA TimeStep ==
  ASSUME Base, TimeTypes, [DNext]_dvars
  PROVE  TimeTypes'
<1> USE Times DEF TimeTypes
<1>1. CASE Aside
  BY <1>1 DEF Aside, CbStep, CbFire, CbTest, CbTestIf, CbSend, CbSendBy, CbSendNothing, CbLook, CbClear,
       CbMod, CbModIf, Arm, Lost, RxTake, RxStep, RxLoad, RxStore, RxCheck, RxDel, Tick, dvars, callback, time
<1>2. CASE Loading \/ Rmmod \/ UnloadStep
  <2>1. cb' = cb /\ left' = left
    BY <1>2 DEF Loading, LoadFails, LoadHooks, LoadTimer, Rmmod, UnloadStep, UnloadTimer, UnloadCounter,
                UnloadCounterBy, UnloadHooks, UnloadHooksAt, callback, time
  <2>2. due' \in {due, PERIOD, 0}
    BY <1>2 DEF Loading, LoadFails, LoadHooks, LoadTimer, Rmmod, UnloadStep, UnloadTimer, UnloadCounter,
                UnloadCounterBy, UnloadHooks, UnloadHooksAt, Arm, time
  <2> QED BY <2>1, <2>2
<1>3. CASE \E e \in Enables : DRejected(e) \/ \E l \in Loops : DParse(e, l)
  BY <1>3 DEF DRejected, DParse, callback, time
<1>4. CASE DCmd
  BY <1>4, CmdStores
<1>5. ASSUME NEW t \in Senders, DSender(t) PROVE TimeTypes'
  BY <1>5, SenderStores DEF callback, time
<1>6. ASSUME NEW t \in Counters, DCounter(t) PROVE TimeTypes'
  <2>1. cb' = cb
    BY <1>6, CounterIsStep
  <2>2. due' \in {due, PERIOD}
    BY <1>6, CounterStores DEF Arm
  <2>3. left' \in {0, LINGER, left}
    BY <1>6 DEF DCounter, DCountOn, DCountStopped, DCountOver, DCountEnds, time
  <2> QED BY <2>1, <2>2, <2>3
<1> QED BY <1>1, <1>2, <1>3, <1>4, <1>5, <1>6, Kinds

\* A command that may start a test could before its step.
LEMMA CmdStarts ==
  ASSUME Base, CmdStep, life' = life, Starting'
  PROVE  Starting
<1> USE DEF Base, shared, threads, command, Starting
<1>1. CASE StopNext
  <2>1. PICK l \in DOMAIN After : cpc = l /\ (cpc' = After[l] \/ cpc' = l) /\ UNCHANGED <<enable, flag>>
    BY <1>1 DEF StopNext, StopNextIf, At
  <2>2. (l = "stop" /\ cpc' \in {"stop", "create"}) \/ (l = "undo" /\ cpc' \in {"undo", "idle"})
        \/ (l = "stopcomp" /\ cpc' \in {"stopcomp", "compute"})
    BY <2>1 DEF After
  <2> QED BY <2>1, <2>2
<1>2. CASE StopTest \/ StopBadPointer \/ StopCall \/ StopReturns \/ WakeNobody
  BY <1>2 DEF StopTest, StopBadPointer, StopCall, StopReturns, WakeNobody
<1>3. CASE SkipSender
  BY <1>3 DEF SkipSender, At, NextDir
<1>4. CASE CreateSender
  BY <1>4 DEF CreateSender, At, SInv, CmdInv
<1>5. CASE CreateSenderFails \/ CreateCounterFails \/ CreateCounter \/ WakeCounter \/ WakeSender
  BY <1>5 DEF CreateSenderFails, CreateCounterFails, CreateCounter, WakeCounter, WakeSender, WakeSenderUpTo, At
<1>6. CASE HookFast \/ ResetReady
  BY <1>6 DEF HookFast, ResetReady, ResetReadyTo, At
<1> QED BY <1>1, <1>2, <1>3, <1>4, <1>5, <1>6 DEF CmdStep

\* A compute thread is created by a command, at one place.
LEMMA CounterComes ==
  ASSUME Base, [DNext]_dvars, NEW c \in Counters, pc[c] = "gone", pc'[c] # "gone"
  PROVE  /\ DCmd /\ cpc = "compute" /\ cpc' = "wakecomp" /\ life = "loaded" /\ pc'[c] = "new"
         /\ \A d \in Counters : d # c => pc'[d] = pc[d]
<1> USE DEF Base
<1>1. ASSUME NEW t \in Senders, SenderStep(t) PROVE FALSE
  BY <1>1, SenderMoves, Ranges DEF OthersStay
<1>2. ASSUME NEW t \in Counters, CounterStep(t) PROVE FALSE
  BY <1>2, CounterMoves, Ranges DEF OthersStay, Moves
<1>3. DCmd
  BY <1>1, <1>2, Kinds, AsideLeaves, ModuleLeaves, UnloadLeaves, SenderStores, CounterIsStep
     DEF Parts, DRejected, DParse, CmdRejected, CmdParse, threads
<1>4. CASE CreateCounter
  <2>1. PICK t \in Threads : Create(Comp, t)
    BY <1>4 DEF CreateCounter
  <2>2. \A u \in Threads : pc'[u] = IF u = t THEN "new" ELSE pc[u]
    BY <2>1 DEF Create, Goto, SInv, TypeOK
  <2>3. cpc = "compute" /\ cpc' = "wakecomp"
    BY <1>4 DEF CreateCounter, At
  <2> QED BY <1>3, <2>2, <2>3, CmdStores, Ranges
<1>5. CASE ~CreateCounter
  <2>0. c \in Threads /\ Slot(c) = Comp /\ \A i \in Dirs : i # Comp
    BY Ranges
  <2>1. StopCall \/ CreateSender \/ WakeCounter \/ WakeSender
    BY <1>3, <1>5, CmdStores DEF CmdStep, StopNext, StopNextIf, StopTest, StopBadPointer, StopReturns, SkipSender,
       CreateSenderFails, CreateCounterFails, CreateFails, HookFast, ResetReady, ResetReadyTo, WakeNobody, threads
  <2>2. CASE StopCall
    BY <2>0, <2>2 DEF StopCall, Goto, SInv, TypeOK
  <2>3. CASE CreateSender
    <3>1. PICK t \in Threads : Create(ci, t) /\ ci \in Dirs
      BY <2>3 DEF CreateSender, At, SInv, CmdInv
    <3> QED BY <2>0, <3>1 DEF Create, Goto, SInv, TypeOK
  <2>4. CASE WakeCounter
    BY <2>0, <2>4 DEF WakeCounter, Goto, At, WakeInv, SInv, TypeOK
  <2>5. CASE WakeSender
    <3>1. task[ci] \in Threads => Slot(task[ci]) # Comp
      BY <2>0, <2>5, Ranges DEF WakeSender, WakeSenderUpTo, At, SInv, CmdInv, OwnSlot
    <3> QED BY <2>0, <2>5, <3>1 DEF WakeSender, WakeSenderUpTo, Goto, SInv, TypeOK
  <2> QED BY <2>1, <2>2, <2>3, <2>4, <2>5
<1> QED BY <1>4, <1>5

LEMMA ApartStep ==
  ASSUME Base, LifeInv, patient => TestsApart, patient', [DNext]_dvars
  PROVE  patient /\ TestsApart'
<1> USE DEF Base
<1>0. patient
  BY Kinds, AsideLeaves, OwnSteps, CmdStores, SenderStores, CounterIsStep
     DEF Loading, LoadFails, LoadHooks, LoadTimer, Rmmod, UnloadStep, UnloadTimer, UnloadCounter,
         UnloadCounterBy, UnloadHooks, UnloadHooksAt, DRejected, DParse, history
<1>1. OneCounter'
  <2>1. CASE \A c \in Counters : pc[c] = "gone" => pc'[c] = "gone"
    BY <1>0, <2>1 DEF TestsApart, OneCounter
  <2>2. ASSUME NEW c \in Counters, pc[c] = "gone", pc'[c] # "gone" PROVE OneCounter'
    <3>1. Starting
      BY <2>2, CounterComes DEF Starting
    <3> QED BY <1>0, <2>2, <3>1, CounterComes DEF TestsApart, Counting, OneCounter
  <2> QED BY <2>1, <2>2
<1>2. ASSUME Starting' PROVE ~Counting'
  <2>1. ASSUME Starting PROVE ~Counting'
    <3>1. \A c \in Counters : pc[c] = "gone"
      BY <1>0, <2>1 DEF TestsApart, Counting
    <3>2. \A c \in Counters : pc'[c] = "gone"
      BY <1>2, <3>1, CounterComes DEF Starting
    <3> QED BY <3>2 DEF Counting
  <2>2. CASE Aside
    BY <1>2, <2>1, <2>2, AsideLeaves DEF Parts, Starting
  <2>3. CASE Loading \/ Rmmod
    <3>1. cpc = "idle" /\ cpc' = cpc
      BY <2>3, ModuleLeaves DEF Parts, LifeInv, Loading, LoadFails, LoadHooks, LoadTimer, Rmmod
    <3> QED BY <1>2, <3>1 DEF Starting
  <2>4. CASE UnloadStep
    BY <1>2, <2>4 DEF UnloadStep, UnloadTimer, UnloadCounter, UnloadCounterBy, UnloadHooks, UnloadHooksAt,
                      Starting, command
  <2>5. ASSUME NEW e \in Enables, DRejected(e) PROVE FALSE
    BY <1>2, <2>5 DEF DRejected, CmdRejected, At, Starting, command
  <2>6. ASSUME NEW e \in Enables, NEW l \in Loops, DParse(e, l) PROVE ~Counting'
    <3>1. cpc' = "stop" /\ ~flag' /\ pc' = pc /\ \A i \in Dirs : enable'[i] = e
      BY <2>6 DEF DParse, CmdParse, threads
    <3>2. e # 0
      BY <1>2, <3>1 DEF Starting
    <3>3. \A t \in Threads : pc[t] = "gone"
      BY <2>6, <3>2 DEF DParse
    <3> QED BY <3>1, <3>3, Ranges DEF Counting
  <2>7. CASE DCmd
    BY <1>2, <2>1, <2>7, CmdStarts, CmdStores
  <2>8. ASSUME NEW t \in Senders, DSender(t) PROVE ~Counting'
    <3>1. UNCHANGED <<cpc, flag, life>>
      BY <2>8, SenderStores, SenderMoves DEF command
    <3>2. \A i \in Dirs : enable'[i] # 0 => enable[i] # 0
      <4>1. enable' = enable \/ enable' = [enable EXCEPT ![Slot(t)] = 0]
        BY <2>8, SenderStores, SenderMoves
      <4> QED BY <4>1 DEF SInv, TypeOK
    <3> QED BY <1>2, <2>1, <3>1, <3>2 DEF Starting
  <2>9. ASSUME NEW t \in Counters, DCounter(t) PROVE ~Counting'
    <3>1. UNCHANGED <<cpc, flag, life, enable>>
      BY <2>9, CounterIsStep, CounterMoves DEF command
    <3> QED BY <1>2, <2>1, <3>1 DEF Starting
  <2> QED BY <2>2, <2>3, <2>4, <2>5, <2>6, <2>7, <2>8, <2>9, Kinds
<1> QED BY <1>0, <1>1, <1>2 DEF TestsApart

\* When and how a compute thread leaves its loop.
LEMMA CounterLeaves ==
  ASSUME Base, [DNext]_dvars, NEW c \in Counters, pc'[c] \in Ending, pc[c] \notin Ending
  PROVE  /\ DCountStopped(c) \/ DCountOver(c)
         /\ UNCHANGED <<timer, cb, life>>
<1> USE DEF Base
<1>0. c \in Threads
  BY Ranges
<1>1. ASSUME UNCHANGED pc PROVE FALSE
  BY <1>1
<1>2. ASSUME CmdStep PROVE FALSE
  BY <1>2, CmdMoves DEF Moves, Ending
<1>3. ASSUME NEW t \in Senders, SenderStep(t) PROVE FALSE
  BY <1>0, <1>3, SenderMoves, Ranges DEF OthersStay
<1>4. ASSUME NEW t \in Counters, DCounter(t), CounterStep(t)
      PROVE  (DCountStopped(c) \/ DCountOver(c)) /\ UNCHANGED <<timer, cb, life>>
  <2>1. t = c
    BY <1>0, <1>4, CounterMoves DEF OthersStay
  <2>2. pc[c] \in AtWork
    BY <1>4, <2>1, CounterMoves DEF Moves, Ended, Ending, AtWork
  <2>3. ~CounterEnds(c)
    BY <2>2 DEF CounterEnds, CounterClear, CounterHook, CounterHookTo, CounterReady, CounterTimer,
                CounterFinish, AtWork
  <2>4. ~CountOn(c)
    <3> SUFFICES ASSUME CountOn(c) PROVE FALSE
      OBVIOUS
    <3>1. \E l \in AtWork : Goto(c, l) /\ UNCHANGED <<stop, self>>
      BY DEF CountOn, AtWork
    <3> QED BY <1>0, <3>1, GotoMoves DEF AtWork, Ending
  <2>5. DCountStopped(c) \/ DCountOver(c)
    BY <1>4, <2>1, <2>3, <2>4 DEF DCounter, DCountOn, DCountEnds
  <2>6. timer' = timer
    BY <1>4, <2>1, <2>2, CounterStores DEF Moves, AtWork
  <2> QED BY <1>4, <2>1, <2>5, <2>6, CounterIsStep
<1> QED BY <1>1, <1>2, <1>3, <1>4, Movers

\* And when it starts, or goes on, to wait for the end.
LEMMA CounterLingers ==
  ASSUME Base, [DNext]_dvars, NEW c \in Counters, pc'[c] = "linger"
  PROVE  \/ /\ pc[c] = "linger"
            /\ \A t \in Counters : DCounter(t) => t # c \/ (left' = left /\ UNCHANGED <<timer, cb, due>>)
         \/ pc[c] = "look" /\ left' = LINGER /\ UNCHANGED <<timer, cb, due>>
<1> USE DEF Base
<1>0. c \in Threads
  BY Ranges
<1>1. ASSUME NEW t \in Counters, DCounter(t), t = c
      PROVE  /\ pc[c] \in AtWork /\ UNCHANGED <<timer, cb, due>>
             /\ left' = IF pc[c] = "look" THEN LINGER ELSE left
  <2>1. pc[c] \in AtWork
    BY <1>1, CounterIsStep, CounterMoves DEF Moves, Ended, AtWork
  <2>2. ~CounterEnds(c)
    BY <2>1 DEF CounterEnds, CounterClear, CounterHook, CounterHookTo, CounterReady, CounterTimer,
                CounterFinish, AtWork
  <2>3. ASSUME Goto(c, "clear") PROVE FALSE
    BY <1>0, <2>3 DEF Goto, SInv, TypeOK
  <2>4. DCountOn(c)
    BY <1>1, <2>2, <2>3 DEF DCounter, DCountStopped, DCountOver, DCountEnds, CountStopped, CountStoppedIf, CountOver
  <2>5. ~Running
    BY <1>0, <2>4 DEF DCountOn, CountOn, Goto, SInv, TypeOK
  <2> QED BY <2>1, <2>4, <2>5 DEF DCountOn, CountOn, shared, callback
<1>2. ASSUME pc[c] # "linger" PROVE \E t \in Counters : DCounter(t) /\ t = c
  <2>1. ASSUME CmdStep PROVE FALSE
    BY <1>2, <2>1, CmdMoves DEF Moves
  <2>2. ASSUME NEW t \in Senders, SenderStep(t) PROVE FALSE
    BY <1>0, <1>2, <2>2, SenderMoves, Ranges DEF OthersStay
  <2>3. ASSUME NEW t \in Counters, DCounter(t), CounterStep(t) PROVE t = c
    BY <1>0, <1>2, <2>3, CounterMoves DEF OthersStay
  <2> QED BY <1>2, <2>1, <2>2, <2>3, Movers
<1>3. CASE pc[c] = "linger"
  BY <1>1, <1>3
<1>4. CASE pc[c] # "linger"
  BY <1>1, <1>2, <1>4 DEF AtWork
<1> QED BY <1>3, <1>4

\* kthread_stop waits for a compute thread that a patient user's test left
\* only while the module is unloaded.
LEMMA StoppedByUnload ==
  ASSUME Base, LifeInv, TestsApart, NEW c \in Counters, DCountStopped(c)
  PROVE  life = "counter" /\ pc[c] \in AtWork
<1> USE DEF Base
<1>1. pc[c] \in AtWork /\ stop[c] /\ c \in Threads /\ Slot(c) = Comp
  BY Ranges DEF DCountStopped, CountStopped, CountStoppedIf, AtWork
<1>2. cpc \in {"stop", "undo", "stopcomp"} /\ ci = Comp
  BY <1>1 DEF StopInv, After
<1>3. cpc = "stopcomp"
  BY <1>2, Ranges DEF SInv, CmdInv
<1>4. life # "loaded"
  BY <1>1, <1>3 DEF TestsApart, Starting, Counting, AtWork
<1> QED BY <1>1, <1>3, <1>4 DEF LifeInv

\* The callback, while a compute thread waits for the end.
LEMMA CallbackStep ==
  ASSUME Base, TimeTypes, NEW c \in Counters, pc[c] = "linger", CallbackFirst, Aside
  PROVE  CallbackFirst'
<1> USE Times DEF CallbackFirst, TimeTypes
<1>1. Busy
  <2>1. task[Comp] = c /\ c \in Threads
    BY Ranges DEF Base, SInv, Owner, Live
  <2> QED BY <2>1, NotThreads DEF Busy
<1>2. CASE CbFire
  BY <1>2 DEF CbFire, time
<1>3. CASE CbTest
  BY <1>1, <1>3 DEF CbTest, CbTestIf, vars, shared, time
<1>4. CASE CbSend \/ CbSendNothing \/ CbLook \/ CbClear
  BY <1>4 DEF CbSend, CbSendBy, CbSendNothing, CbLook, CbClear, vars, shared, time, callback
<1>5. CASE CbMod
  BY <1>5 DEF CbMod, CbModIf, Arm
<1>6. CASE (\E d \in Dirs : Lost(d) \/ RxTake(d)) \/ RxLoad \/ RxStore \/ RxCheck
  BY <1>6 DEF Lost, RxTake, RxLoad, RxStore, RxCheck, vars, shared, time, callback
<1>7. CASE RxDel
  BY <1>7 DEF RxDel, callback
<1>8. CASE Tick
  <2>1. cb = "idle" /\ cb' = cb /\ timer' = timer /\ (timer = "pending" => due > 0)
    BY <1>8 DEF Tick, vars, shared, callback
  <2>2. due' = (IF due = 0 THEN 0 ELSE due - 1) /\ left' = (IF left = 0 THEN 0 ELSE left - 1)
    BY <1>8 DEF Tick
  <2> QED BY <2>1, <2>2
<1>9. CASE UNCHANGED dvars
  BY <1>9 DEF dvars, vars, shared, time, callback
<1> QED BY <1>2, <1>3, <1>4, <1>5, <1>6, <1>7, <1>8, <1>9 DEF Aside, CbStep, RxStep

LEMMA TimerWrites ==
  ASSUME Base, [DNext]_dvars
  PROVE  \/ UNCHANGED <<timer, cb>>
         \/ timer' = "idle" /\ cb' = cb
         \/ Aside /\ (timer' = "corrupt" => timer = "corrupt")
         \/ LoadTimer
         \/ \E t \in Counters : /\ DCounter(t) /\ Moves(t, "timer", "finish") /\ cb' = cb
                                /\ timer' = (IF timer = "idle" THEN "pending" ELSE "corrupt")
<1>1. CASE Aside
  BY <1>1 DEF Aside, CbStep, CbFire, CbTest, CbTestIf, CbSend, CbSendBy, CbSendNothing, CbLook, CbClear,
       CbMod, CbModIf, Lost, RxTake, RxStep, RxLoad, RxStore, RxCheck, RxDel, Tick, dvars, vars, shared
<1>2. CASE Loading \/ Rmmod \/ UnloadStep
  BY <1>2 DEF Loading, LoadFails, LoadHooks, Rmmod, UnloadStep, UnloadTimer, UnloadCounter,
              UnloadCounterBy, UnloadHooks, UnloadHooksAt, vars, shared, callback
<1>3. CASE \E e \in Enables : DRejected(e) \/ \E l \in Loops : DParse(e, l)
  BY <1>3 DEF DRejected, DParse, CmdRejected, CmdParse, callback
<1>4. ASSUME NEW t \in Counters, DCounter(t)
      PROVE  \/ UNCHANGED <<timer, cb>>
             \/ /\ Moves(t, "timer", "finish") /\ cb' = cb
                /\ timer' = (IF timer = "idle" THEN "pending" ELSE "corrupt")
  BY <1>4, CounterStores, CounterIsStep
<1>5. CASE DCmd \/ \E t \in Senders : DSender(t)
  BY <1>5, CmdStores, SenderStores DEF callback
<1> QED BY <1>1, <1>2, <1>3, <1>4, <1>5, Kinds

LEMMA FreeStep ==
  ASSUME Base, Base', LifeInv, TimeTypes, TestsApart, TimerFree, [DNext]_dvars
  PROVE  TimerFree'
<1> USE DEF Base
<1>0. /\ timer \in {"idle", "pending"} /\ \A c \in Counters : c \in Threads
      /\ timer' \in {"idle", "pending", "corrupt"}
  BY Ranges DEF TimerFree, SInv, TypeOK
\* A compute thread that sets the timer is the only one and finds it idle.
<1>1. ASSUME NEW t \in Counters, DCounter(t), Moves(t, "timer", "finish"), cb' = cb,
             timer' = (IF timer = "idle" THEN "pending" ELSE "corrupt")
      PROVE  timer' = "pending" /\ \A c \in Counters : pc'[c] \in {"finish", "gone"}
  <2>1. Quiet
    BY <1>1 DEF TimerFree, Moves, Ending
  <2>2. OthersStay(t)
    BY <1>1, CounterIsStep, CounterMoves
  <2>3. \A c \in Counters : c # t => pc'[c] = "gone"
    BY <1>0, <1>1, <2>2 DEF TestsApart, OneCounter, OthersStay, Moves
  <2> QED BY <1>1, <2>1, <2>3 DEF Quiet, Moves
<1>2. ASSUME LoadTimer PROVE \A c \in Counters : pc'[c] = "gone"
  <2>1. pc' = pc /\ life = "hooked"
    BY <1>2, ModuleLeaves DEF Loading, LoadTimer, Parts
  <2> QED BY <1>0, <2>1 DEF LifeInv, AllGone
<1>3. timer' # "corrupt"
  BY <1>0, <1>1, TimerWrites DEF LoadTimer, TimerFree
<1>4. ASSUME NEW c \in Counters, pc'[c] \in Ending PROVE Quiet'
  <2>1. CASE pc[c] \in Ending
    <3>1. Quiet
      BY <2>1 DEF TimerFree
    <3>2. ~LoadTimer
      BY <1>2, <1>4 DEF Ending
    <3>3. ~(\A d \in Counters : pc'[d] \in {"finish", "gone"})
      BY <1>4 DEF Ending
    <3> QED BY <1>1, <3>1, <3>2, <3>3, TimerWrites, AsideQuiet DEF Quiet
  <2>2. CASE pc[c] \notin Ending
    <3>1. (DCountStopped(c) \/ DCountOver(c)) /\ UNCHANGED <<timer, cb, life>>
      BY <1>4, <2>2, CounterLeaves
    <3>2. CASE DCountStopped(c)
      <4>1. life = "counter" /\ pc[c] \in AtWork
        BY <3>2, StoppedByUnload
      <4>2. Quiet
        BY <4>1 DEF TimerFree, Unloading, AtWork
      <4> QED BY <3>1, <4>2 DEF Quiet
    <3>3. CASE DCountOver(c)
      <4>1. pc[c] = "linger" /\ left = 0
        BY <3>3 DEF DCountOver, CountOver
      <4>2. CallbackFirst
        BY <4>1 DEF TimerFree
      <4>3. timer # "pending" /\ cb = "idle"
        BY <4>1, <4>2, Times DEF CallbackFirst, TimeTypes
      <4> QED BY <1>0, <3>1, <4>3 DEF Quiet
    <3> QED BY <3>1, <3>2, <3>3
  <2> QED BY <2>1, <2>2
<1>5. ASSUME NEW c \in Counters, pc'[c] = "linger" PROVE CallbackFirst'
  <2>1. CASE pc[c] = "look" /\ left' = LINGER /\ UNCHANGED <<timer, cb, due>>
    BY <2>1, Times DEF CallbackFirst, TimeTypes
  <2>2. CASE /\ pc[c] = "linger"
             /\ \A t \in Counters : DCounter(t) => t # c \/ (left' = left /\ UNCHANGED <<timer, cb, due>>)
    <3>1. CallbackFirst
      BY <2>2 DEF TimerFree
    <3>2. ASSUME UNCHANGED <<timer, cb, due, left>> PROVE CallbackFirst'
      BY <3>1, <3>2 DEF CallbackFirst
    <3>3. CASE Aside
      BY <2>2, <3>1, <3>3, CallbackStep
    <3>4. CASE Loading \/ Rmmod \/ UnloadStep
      <4>1. pc' = pc
        BY <3>4, ModuleLeaves, UnloadLeaves DEF Parts
      <4>2. ~Loading
        BY <1>0, <1>5, <2>2, <4>1 DEF Loading, LoadFails, LoadHooks, LoadTimer, LifeInv, AllGone
      <4>3. CASE Rmmod \/ UnloadCounter \/ UnloadHooks
        BY <3>2, <4>3 DEF Rmmod, UnloadCounter, UnloadCounterBy, UnloadHooks, UnloadHooksAt, vars, shared,
                          callback, time
      <4>4. CASE UnloadTimer
        BY <4>4 DEF UnloadTimer, CallbackFirst, callback
      <4> QED BY <3>4, <4>2, <4>3, <4>4 DEF UnloadStep
    <3>5. CASE \E e \in Enables : DRejected(e) \/ \E l \in Loops : DParse(e, l)
      BY <3>2, <3>5 DEF DRejected, DParse, CmdRejected, CmdParse, callback, time
    <3>6. CASE DCmd \/ \E t \in Senders : DSender(t)
      BY <3>2, <3>6, CmdStores, SenderStores DEF callback, time
    <3>7. ASSUME NEW t \in Counters, DCounter(t) PROVE CallbackFirst'
      <4>1. pc[t] # "gone"
        BY <3>7, CounterIsStep, CounterMoves DEF Moves
      <4>2. t = c
        BY <2>2, <4>1 DEF TestsApart, OneCounter
      <4> QED BY <2>2, <3>2, <3>7, <4>2
    <3> QED BY <3>3, <3>4, <3>5, <3>6, <3>7, Kinds
  <2> QED BY <1>5, <2>1, <2>2, CounterLingers
<1>6. ASSUME Unloading', ~Quiet' PROVE \A c \in Counters : pc'[c] \in {"finish", "gone"}
  <2>1. CASE \E t \in Counters : /\ DCounter(t) /\ Moves(t, "timer", "finish") /\ cb' = cb
                                 /\ timer' = (IF timer = "idle" THEN "pending" ELSE "corrupt")
    BY <1>1, <2>1
  <2>2. CASE LoadTimer
    BY <1>6, <2>2 DEF LoadTimer, Unloading
  <2>3. ASSUME ~Quiet, Unloading PROVE \A c \in Counters : pc'[c] \in {"finish", "gone"}
    <3>1. \A c \in Counters : pc[c] \in {"finish", "gone"}
      BY <2>3 DEF TimerFree
    <3>2. ASSUME NEW c \in Counters PROVE pc'[c] \in {"finish", "gone"}
      <4>1. CASE pc[c] = "gone"
        BY <2>3, <4>1, CounterComes DEF Unloading
      <4>2. CASE pc[c] = "finish"
        <5>1. CASE CmdStep
          BY <4>2, <5>1, CmdMoves DEF Moves
        <5>2. ASSUME NEW t \in Senders, SenderStep(t) PROVE pc'[c] = pc[c]
          BY <5>2, SenderMoves, Ranges DEF OthersStay
        <5>3. ASSUME NEW t \in Counters, CounterStep(t) PROVE pc'[c] \in {"finish", "gone"}
          BY <1>0, <4>2, <5>3, CounterMoves DEF OthersStay, Moves, Ended
        <5> QED BY <4>2, <5>1, <5>2, <5>3, Movers
      <4> QED BY <3>1, <4>1, <4>2
    <3> QED BY <3>2
  <2>4. ASSUME Quiet, UNCHANGED <<timer, cb>> \/ (timer' = "idle" /\ cb' = cb) \/ Aside PROVE FALSE
    BY <1>6, <2>4, AsideQuiet DEF Quiet
  <2>5. ASSUME ~Quiet, ~Unloading PROVE FALSE
    <3>1. UnloadStep
      BY <1>6, <2>5, Kinds, AsideLeaves, OwnSteps DEF Unloading, Loading, LoadFails, LoadHooks, LoadTimer, Rmmod
    <3> QED BY <1>6, <2>5, <3>1 DEF UnloadStep, UnloadTimer, UnloadCounter, UnloadCounterBy, UnloadHooks,
                                    UnloadHooksAt, Unloading, Quiet, callback
  <2> QED BY <2>1, <2>2, <2>3, <2>4, <2>5, TimerWrites
<1> QED BY <1>3, <1>4, <1>5, <1>6 DEF TimerFree
-----------------------------------------------------------------------------
(* All of it, always.                                                      *)

ModuleInv == Base /\ LifeInv /\ DeletedInv /\ HkInv /\ ReadyInv

DetectInv == ModuleInv /\ PointersInv /\ ProbingInv /\ TimeTypes /\ PatientInv

LEMMA InitBase == DInit => Base
<1> SUFFICES ASSUME DInit PROVE Base
  OBVIOUS
<1> USE DEF DInit, Start
<1>1. ThreadTypes
  BY DEF ThreadTypes, SenderPcs, CounterPcs, Senders, Counters
<1>2. SharedTypes
  BY DEF SharedTypes, Pointers, Hooks
<1>3. CommandTypes
  BY Ranges DEF CommandTypes, Faults
<1>4. Owner /\ OwnSlot /\ CmdInv
  BY NotThreads DEF Owner, OwnSlot, CmdInv, Live
<1>5. StopInv /\ WakeInv /\ CountInv
  BY Ranges DEF StopInv, WakeInv, CountInv, Building, Sends
<1> QED BY <1>1, <1>2, <1>3, <1>4, <1>5, TypeParts DEF SInv, Base

LEMMA InitDetect == DInit => DetectInv
<1> SUFFICES ASSUME DInit PROVE DetectInv
  OBVIOUS
<1>1. LifeInv /\ DeletedInv /\ HkInv /\ ReadyInv
  BY DEF DInit, Start, LifeInv, AllGone, DeletedInv, Unloading, HkInv, ReadyInv
<1>2. PointersInv /\ ProbingInv
  BY NotThreads DEF DInit, Start, PointersInv, ProbingInv
<1>3. TimeTypes /\ PatientInv
  BY Ranges, Times DEF DInit, Start, TimeTypes, PatientInv, TestsApart, OneCounter, Starting, Counting,
                       TimerFree, Quiet, Unloading, Ending
<1> QED BY <1>1, <1>2, <1>3, InitBase DEF DetectInv, ModuleInv

LEMMA DetectAlways == DSpec => []DetectInv
<1>1. ASSUME DetectInv, [DNext]_dvars PROVE DetectInv'
  <2>1. ModuleInv'
    BY <1>1, BaseStep, LifeStep, DeletedStep, HeardStep DEF DetectInv, ModuleInv
  <2>2. PointersInv' /\ ProbingInv'
    BY <1>1, <2>1, PointersStep, ProbingStep DEF DetectInv, ModuleInv
  <2>3. TimeTypes'
    BY <1>1, TimeStep DEF DetectInv, ModuleInv
  <2>4. ASSUME patient' PROVE (TestsApart /\ TimerFree)'
    <3>1. patient /\ TestsApart'
      BY <1>1, <2>4, ApartStep DEF DetectInv, ModuleInv, PatientInv
    <3>2. TimerFree'
      BY <1>1, <2>1, <3>1, FreeStep DEF DetectInv, ModuleInv, PatientInv
    <3> QED BY <3>1, <3>2
  <2>5. PatientInv'
    BY <2>4 DEF PatientInv
  <2> QED BY <2>1, <2>2, <2>3, <2>5 DEF DetectInv
<1> QED BY InitDetect, <1>1, PTL DEF DSpec
-----------------------------------------------------------------------------
(* What follows.                                                           *)

\* rcv_speedtest_probe_pkt loads st_ready and stores it again; unless a test
\* cleared it in between, READY_<n> shows only probes that came since then.
THEOREM ShownWasHeard == DSpec => []ReadinessIsHeard
<1>1. DetectInv => ReadinessIsHeard
  BY DEF DetectInv, ModuleInv, ReadyInv, ReadinessIsHeard
<1> QED BY DetectAlways, <1>1, PTL

\* speedtest_loop_detect_cb leaves its timer alone when a test runs, and
\* counts on the compute thread to set it: whichever way that test was
\* started, stopped or undone, somebody did.
THEOREM ProbingNeverStops == DSpec => []ProbingGoesOn
<1>1. ASSUME DetectInv, Rest, detecting, ready # Dirs, ~erased PROVE timer = "pending"
  <2>1. \A s \in Slots : task[s] = NULL
    BY <1>1, Ranges DEF Rest, Busy, Running
  <2>2. ~Deciding
    BY <1>1, <2>1, NotThreads, Ranges DEF Rest, Deciding, Dangles
  <2>3. timer # "idle"
    BY <1>1, <2>2 DEF DetectInv, ProbingInv, Rest
  <2> QED BY <1>1, <2>3 DEF DetectInv, ModuleInv, Base, SInv, TypeOK, Rest, Alive
<1> QED BY DetectAlways, <1>1, PTL DEF ProbingGoesOn

\* init_timer at the end of speedtest_compute_func finds the timer at rest:
\* it fired while the thread was waiting for its last packets, the callback
\* saw that thread's pointer, and no other thread has set it since.
THEOREM PatientIsSafe == DSpec => []TimerInitSafe
<1>1. DetectInv => TimerInitSafe
  BY DEF DetectInv, PatientInv, TimerFree, TimerInitSafe
<1> QED BY DetectAlways, <1>1, PTL

\* speedtest_xmit_hook asks is_speedtest_task_running: the pointer of a thread
\* that sends is still there, and so is the hook, for speedtest_exit_module
\* waits for that thread before it takes the hook away.
THEOREM WireIsItsOwn == DSpec => []TestHasTheWire
<1>1. ASSUME DetectInv, NEW t \in Senders, pc[t] = "send" PROVE tx = "xmit" /\ Busy
  <2>1. t \in Threads /\ Slot(t) \in Dirs /\ task[Slot(t)] = t
    BY <1>1, Ranges DEF DetectInv, ModuleInv, Base, SInv, Owner, Live
  <2>2. Busy /\ ~NoSender
    BY <2>1, NotThreads DEF Busy, Running, NoSender
  <2>3. life \notin {"new", "failed", "gone"}
    BY <1>1, <2>1, <2>2 DEF DetectInv, ModuleInv, LifeInv, AllGone
  <2> QED BY <1>1, <2>2, <2>3 DEF DetectInv, ModuleInv, LifeInv
<1>2. DetectInv => TestHasTheWire
  BY <1>1 DEF TestHasTheWire, Passes
<1> QED BY DetectAlways, <1>2, PTL

\* speedtest_exit_module stops every thread whose pointer it finds.  What is
\* left has cleared its pointer already; the timer it deleted first is set
\* again only by a compute thread that was there then.
THEOREM LeavesOnlyEnds == DSpec => []UnloadStops
<1>1. ASSUME DetectInv, life = "gone" PROVE UnloadStops
  <2> USE DEF DetectInv, ModuleInv, Base, SInv
  <2>1. \A s \in Slots : task[s] = NULL
    BY <1>1, Ranges DEF LifeInv, NoSender, CmdInv
  <2>2. ASSUME NEW t \in Threads
        PROVE  pc[t] \in {"gone", "hook", "ready", "timer", "finish", "off", "end"}
    <3>1. pc[t] \notin Live \cup {"clear"}
      BY <1>1, <2>1, NotThreads, Ranges DEF Owner
    <3>2. pc[t] \in SenderPcs \cup CounterPcs
      BY <1>1 DEF TypeOK
    <3> QED BY <3>1, <3>2 DEF Live, SenderPcs, CounterPcs
  <2>3. timer = "pending" => counted
    BY <1>1 DEF DeletedInv, Unloading
  <2> QED BY <2>2, <2>3 DEF UnloadStops
<1>2. DetectInv => UnloadStops
  BY <1>1 DEF UnloadStops
<1> QED BY DetectAlways, <1>2, PTL
=============================================================================
