------------------------ MODULE MacLimitModuleProofs ------------------------
(***************************************************************************)
(* Theorems about MacLimitModule, for any number of CPUs and terminals:    *)
(* what nf_init and nf_cleanup guarantee of the hooks and of the thread at *)
(* each of their steps, and that the mailbox of MacLimit works as well     *)
(* while the module comes and goes.                                        *)
(***************************************************************************)
EXTENDS MacLimitModule, MacLimitProofs

-----------------------------------------------------------------------------
(* What holds at each stage of nf_init and nf_cleanup.                     *)

Lives == {"begin", "proc", "hooked", "created", "locked", "loaded", "undo_hook", "undo_wait",
          "undo_proc", "failed", "stopping", "stopped", "unproc", "draining", "drained", "gone"}

\* The hooks are off the chain and the last of them has returned.
Quiet ==
  \/ life \in {"begin", "proc", "undo_proc", "failed", "drained", "gone"}
  \/ life = "loaded" /\ task = "err"

ChainInv ==
  /\ hooked => life \in {"hooked", "created", "locked", "loaded", "undo_hook", "stopping",
                         "stopped", "unproc"}
  /\ Quiet => ~hooked /\ \A c \in Cpus : pc[c] = "idle"

ProcInv == proc => life \notin {"begin", "failed", "unproc", "draining", "drained", "gone"}

\* limit_check_task, and what it says of the thread: without a task the
\* thread has exited or was never there, and then nobody can wake it; it has
\* to stop only when nf_cleanup says so.
TaskInv ==
  /\ life \in Lives /\ task \in {"null", "err", "task"}
  /\ life \in {"begin", "proc", "hooked"} => task = "null"
  /\ life \in {"created", "locked", "stopping"} => task = "task"
  /\ life = "loaded" => task # "null"
  /\ task = "task" => life \in {"created", "locked", "loaded", "stopping"}

ThreadInv ==
  /\ task # "task" => tpc = "exited" \/ (tpc = "unborn" /\ tstate = "D")
  /\ should_stop \/ tpc = "exited" => should_stop /\ life \in Leaving \cup {"gone"}

LifeInv == ChainInv /\ ProcInv /\ TaskInv /\ ThreadInv /\ WakeSafeWhileLoaded

LEMMA LifeInit == MInit => LifeInv
BY DEF MInit, Start, LifeInv, ChainInv, ProcInv, TaskInv, ThreadInv, WakeSafeWhileLoaded, Quiet,
   Lives, Leaving

\* The steps of nf_init and nf_cleanup.
LEMMA LifeModule ==
  ASSUME LifeInv, InitStep \/ Rmmod \/ CleanupStep
  PROVE  LifeInv'
<1> USE DEF LifeInv, ChainInv, ProcInv, TaskInv, ThreadInv, WakeSafeWhileLoaded, Quiet, Lives,
            Leaving, At, Alive, Enter,
            vars, tableVars, cfgVars, mailVars, hookVars, thVars, histVars
<1>1. CASE ProcCreate
  BY <1>1 DEF ProcCreate
<1>2. CASE RegisterHooks
  BY <1>2 DEF RegisterHooks
<1>3. CASE KthreadCreate
  BY <1>3 DEF KthreadCreate, KthreadCreateElse
<1>4. CASE RwlockInit
  BY <1>4 DEF RwlockInit
<1>5. CASE FirstWake
  BY <1>5 DEF FirstWake
<1>6. CASE InitFails
  <2>1. CASE Unhook("undo_hook", "undo_wait")
    BY <2>1 DEF Unhook
  <2>2. CASE Drained("undo_wait", "undo_proc")
    BY <2>2 DEF Drained
  <2>3. CASE RemoveProc("undo_proc", IF task = "err" THEN "loaded" ELSE "failed")
    BY <2>3 DEF RemoveProc
  <2> QED BY <1>6, <2>1, <2>2, <2>3 DEF InitFails
<1>7. CASE Stop
  BY <1>7 DEF Stop
<1>8. CASE SkipStop
  BY <1>8 DEF SkipStop
<1>9. CASE Stopped
  BY <1>9 DEF Stopped
<1>10. CASE RemoveProc("stopped", "unproc")
  BY <1>10 DEF RemoveProc
<1>11. CASE Unhook("unproc", "draining")
  BY <1>11 DEF Unhook
<1>12. CASE Drained("draining", "drained")
  BY <1>12 DEF Drained
<1>13. CASE FreeList
  BY <1>13 DEF FreeList, FreeListIf
<1> QED
  BY <1>1, <1>2, <1>3, <1>4, <1>5, <1>6, <1>7, <1>8, <1>9, <1>10, <1>11, <1>12, <1>13
     DEF InitStep, Rmmod, CleanupStep

\* What the hooks change of it: a CPU whose hook runs is not idle before it,
\* and only WakeThread touches the thread, when there is one.
LEMMA LifeHook ==
  ASSUME LifeInv, NEW c \in Cpus, pc \in [Cpus -> HookPcs], HookInModule(c)
  PROVE  LifeInv'
<1>1. pc[c] # "idle" /\ UNCHANGED <<life, proc, hooked, task>>
  BY DEF HookInModule, HookRuns, HookStep, ScanHit, ScanMiss, Decide, DecideAs, PostFree, PostBusy,
     StoreField, SetFlag, ArpMatch, ArpOther, ArpCredit, ReadUnlockReset, WakeThread, Wake, WakeAs,
     WakeNobody, WakeDead, modVars
<1>2. ChainInv' /\ ProcInv' /\ TaskInv'
  BY <1>1 DEF LifeInv, ChainInv, ProcInv, TaskInv, Quiet
<1>3. UNCHANGED <<tpc, should_stop>> /\ (task # "task" => UNCHANGED tstate)
  BY DEF HookInModule, HookRuns, HookStep, ScanHit, ScanMiss, Decide, DecideAs, PostFree, Claim,
     PostBusy, StoreField, SetFlag, ArpMatch, ArpOther, ArpCredit, ReadUnlockReset, WakeThread,
     Wake, WakeAs, WakeNobody, WakeDead, vars, thVars
<1>4. ThreadInv'
  BY <1>1, <1>3 DEF LifeInv, ThreadInv
<1>5. fault' = "wake" => fault = "wake" \/ task # "task" \/ tpc = "exited"
  BY DEF HookInModule, HookRuns, ReadUnlockReset, WakeThread, WakeNobody, WakeDead, modVars, Alive
<1>6. WakeSafeWhileLoaded'
  BY <1>1, <1>5 DEF LifeInv, ChainInv, TaskInv, ThreadInv, Quiet, Lives, Leaving,
     WakeSafeWhileLoaded
<1> QED
  BY <1>2, <1>4, <1>6 DEF LifeInv

\* The thread is born once somebody has woken it, and it exits when told to.
LEMMA LifeThread ==
  ASSUME LifeInv, ThreadInModule \/ TimerFires
  PROVE  LifeInv'
<1>1. /\ UNCHANGED <<life, proc, hooked, task, should_stop, pc>>
      /\ fault' = "wake" => fault = "wake"
  BY DEF ThreadInModule, ThreadBorn, ThreadRuns, WriteUnlockReset, ThreadExit, TimerFires,
     ProbeTimeout, ThreadStep, ReadFlag, ReadFlagIf, ArmFlag, ArmMac, SendProbe, SendProbeIf,
     ProbePark, ProbeNext, ProbesOver, VerdictSilent, VerdictNext, CreateNode, WriteLock,
     WriteLockIf, Insert, Release, Park, Resume, vars, thVars, hookVars, modVars
<1>2. ChainInv' /\ ProcInv' /\ TaskInv' /\ WakeSafeWhileLoaded'
  BY <1>1 DEF LifeInv, ChainInv, ProcInv, TaskInv, Quiet, WakeSafeWhileLoaded
<1>3. \/ UNCHANGED <<tpc, tstate>>
      \/ ~(tpc = "exited" \/ (tpc = "unborn" /\ tstate = "D")) /\ (tpc' = "exited" => should_stop)
  BY DEF ThreadInModule, ThreadBorn, ThreadRuns, WriteUnlockReset, ThreadExit, TimerFires,
     ProbeTimeout, ThreadStep, ReadFlag, ReadFlagIf, ArmFlag, ArmMac, SendProbe, SendProbeIf,
     ProbePark, ProbeNext, ProbesOver, VerdictSilent, VerdictNext, CreateNode, WriteLock,
     WriteLockIf, Insert, Release, Park, Resume, TGoto, vars, thVars
<1>4. ThreadInv'
  BY <1>1, <1>3 DEF LifeInv, ThreadInv
<1> QED
  BY <1>2, <1>4 DEF LifeInv

\* A packet enters only while the hooks are registered.
LEMMA LifeInput ==
  ASSUME LifeInv, ProcWrite \/ \E c \in Cpus, t \in Terminals : PacketIn(c, t)
  PROVE  LifeInv'
<1>1. UNCHANGED <<life, proc, hooked, task, fault, tpc, tstate, should_stop>>
  BY DEF ProcWrite, SetLimit, SetEnable, PacketIn, NetIn, ArpIn, thVars, modVars
<1>2. hooked \/ UNCHANGED pc
  BY DEF ProcWrite, SetLimit, SetEnable, PacketIn, hookVars
<1> QED
  BY <1>1, <1>2 DEF LifeInv, ChainInv, ProcInv, TaskInv, ThreadInv, WakeSafeWhileLoaded, Quiet

-----------------------------------------------------------------------------
(* Types.  The cursor of the thread is 0 outside a check and an insertion, *)
(* so the list that nf_cleanup frees is under nobody's cursor.             *)

CursorHome == pos # 0 => tpc \in CheckPcs \cup {"check", "alloc", "lock", "insert"}

MTypeInv == TypeInv /\ CursorHome

LEMMA MTypeStep ==
  ASSUME MTypeInv, LifeInv, [MNext]_mvars
  PROVE  MTypeInv'
<1> USE DEF MTypeInv, CursorHome, tableVars, cfgVars, mailVars, hookVars, thVars, histVars
<1>1. CASE UNCHANGED vars
  BY <1>1, TypeOther DEF vars
<1>2. CASE RwlockInit
  BY <1>2 DEF RwlockInit, TypeInv, TypeOK, CursorOK, PacketOK
<1>3. CASE FirstWake \/ Stop
  BY <1>3 DEF FirstWake, Stop, TypeInv, TypeOK, CursorOK, PacketOK
<1>4. CASE FreeList
  <2>1. pos = 0
    BY <1>4 DEF FreeList, FreeListIf, At, LifeInv, TaskInv, ThreadInv, CheckPcs
  <2>2. <<>> \in Seq(Nodes) /\ Len(<<>>) = 0
    OBVIOUS
  <2> QED BY <1>4, <2>1, <2>2 DEF FreeList, FreeListIf, TypeInv, TypeOK, CursorOK, PacketOK
<1>5. CASE ThreadExit \/ ThreadBorn
  BY <1>5 DEF ThreadExit, ThreadBorn, TGoto, TypeInv, TypeOK, CursorOK, PacketOK, CheckPcs, ThreadPcs
<1>6. ASSUME NEW c \in Cpus, HookStep(c) \/ Wake(c) \/ WakeDead(c) PROVE MTypeInv'
  <2>1. UNCHANGED <<pos, tpc>>
    BY <1>6 DEF HookStep, ScanHit, ScanMiss, Decide, DecideAs, PostFree, Claim, PostBusy,
       StoreField, SetFlag, ArpMatch, ArpOther, ArpCredit, Wake, WakeAs, WakeDead
  <2>2. CASE HookStep(c) \/ Wake(c)
    BY <2>1, <2>2, TypeHook
  <2>3. CASE WakeDead(c)
    BY <2>1, <2>3 DEF WakeDead, Return, Goto, TypeInv, TypeOK, CursorOK, PacketOK, HookPcs
  <2> QED BY <1>6, <2>2, <2>3
<1>7. CASE ThreadStep
  <2>1. CursorHome'
    BY <1>7 DEF ThreadStep, ReadFlag, ReadFlagIf, ArmFlag, ArmMac, SendProbe, SendProbeIf,
       ProbePark, ProbeNext, ProbesOver, VerdictSilent, VerdictNext, CreateNode, WriteLock,
       WriteLockIf, Insert, Release, Park, Resume, TGoto, CheckPcs
  <2> QED BY <1>7, <2>1, TypeThread
<1>8. CASE \/ \E c \in Cpus, t \in Terminals : NetIn(c, t) \/ ArpIn(c, t)
           \/ ProbeTimeout
           \/ \E l \in Limits : SetLimit(l)
           \/ \E e \in BOOLEAN : SetEnable(e)
  <2>1. UNCHANGED <<pos, tpc>>
    BY <1>8 DEF NetIn, ArpIn, ProbeTimeout, SetLimit, SetEnable
  <2> QED BY <1>8, <2>1, TypeOther
<1> QED
  BY <1>1, <1>2, <1>3, <1>4, <1>5, <1>6, <1>7, <1>8
     DEF MNext, InitStep, Rmmod, CleanupStep, ProcCreate, RegisterHooks, KthreadCreate,
         KthreadCreateElse, InitFails, Unhook, Drained, RemoveProc, SkipStop, Stopped, PacketIn,
         ProcWrite, HookInModule, HookRuns, ReadUnlockReset, WakeThread, WakeNobody,
         ThreadInModule, ThreadRuns, WriteUnlockReset, TimerFires, mvars

LEMMA LifeStep ==
  ASSUME MTypeInv, LifeInv, [MNext]_mvars
  PROVE  LifeInv'
<1>1. CASE UNCHANGED mvars
  BY <1>1 DEF mvars, modVars, vars, hookVars, thVars, LifeInv, ChainInv, ProcInv, TaskInv,
     ThreadInv, WakeSafeWhileLoaded, Quiet
<1>2. pc \in [Cpus -> HookPcs]
  BY DEF MTypeInv, TypeInv, TypeOK
<1> QED
  BY <1>1, <1>2, LifeModule, LifeHook, LifeThread, LifeInput DEF MNext

LEMMA LifeAlways == MSpec => [](MTypeInv /\ LifeInv)
<1>1. MInit => MTypeInv
  <2> SUFFICES ASSUME MInit PROVE MTypeInv
    OBVIOUS
  <2>1. NoNode \in Nodes /\ <<>> \in Seq(Nodes) /\ Len(<<>>) = 0
    BY DEF NoNode, Nodes
  <2>2. /\ list = <<>> /\ readers = {} /\ ~writer /\ ~enable /\ limit = 1
        /\ flag = "NO_ADD_TASK" /\ node = NoNode /\ cmp = None /\ answered = {} /\ ~early
        /\ tpc = "unborn" /\ tstate = "D" /\ ~should_stop /\ pos = 0 /\ tries = 0 /\ new = NoNode
        /\ writer \in BOOLEAN /\ enable \in BOOLEAN /\ early \in BOOLEAN /\ should_stop \in BOOLEAN
    BY DEF MInit, Start
  <2>3. /\ pc \in [Cpus -> HookPcs] /\ pkt \in [Cpus -> Terminals \cup {None}]
        /\ seen \in [Cpus -> Nat] /\ mode \in [Cpus -> AddModes \cup {"NO_ADD_TASK"}]
        /\ todo \in [Cpus -> SUBSET Fields]
    BY DEF MInit, Start, HookPcs
  <2>4. /\ tpc \in ThreadPcs /\ tstate \in {"R", "D"} /\ should_stop \in BOOLEAN
        /\ pos \in Nat /\ tries \in 0..PROBES /\ new \in Nodes
    BY <2>1, <2>2, ProbesNat DEF ProbesNat, ThreadPcs
  <2>5. /\ list \in Seq(Nodes) /\ readers \subseteq Cpus /\ writer \in BOOLEAN
        /\ enable \in BOOLEAN /\ limit \in 0..MaxLimit
        /\ flag \in Flags /\ node \in Nodes /\ cmp \in Terminals \cup {None}
        /\ answered \subseteq Terminals /\ early \in BOOLEAN
    BY <2>1, <2>2, LimitsBounded DEF LimitsBounded, Flags
  <2>6. CursorOK /\ PacketOK /\ CursorHome
    BY <2>1 DEF MInit, Start, CursorOK, PacketOK, CursorHome, CheckPcs
  <2> QED BY <2>3, <2>4, <2>5, <2>6 DEF MTypeInv, TypeInv, TypeOK
<1>2. (MTypeInv /\ LifeInv) /\ [MNext]_mvars => (MTypeInv /\ LifeInv)'
  BY MTypeStep, LifeStep
<1> QED
  BY LifeInit, <1>1, <1>2, PTL DEF MSpec

\* wake_up_process meets no task only before nf_init has created the thread
\* or after nf_cleanup has stopped it, on any number of CPUs: once insmod has
\* returned, also after a failure half-way, a hook may wake the thread.
THEOREM WakesATask == MSpec => []WakeSafeWhileLoaded
<1>1. MTypeInv /\ LifeInv => WakeSafeWhileLoaded
  BY DEF LifeInv
<1> QED
  BY LifeAlways, <1>1, PTL

\* When insmod has failed or rmmod has returned, no hook runs or can start,
\* the proc file is gone and so is the thread.
THEOREM LeavesNothing == MSpec => []NothingOutlivesModule
<1>1. MTypeInv /\ LifeInv => NothingOutlivesModule
  BY DEF LifeInv, ChainInv, ProcInv, TaskInv, ThreadInv, Quiet, NothingOutlivesModule
<1> QED
  BY LifeAlways, <1>1, PTL

-----------------------------------------------------------------------------
(* The mailbox with one CPU, as in MacLimitProofs: the thread may not exist*)
(* yet, the lock may be initialised late, and nf_cleanup frees the list.   *)

LEMMA MMailStep ==
  ASSUME MTypeInv, MailInv, NEW c \in Cpus, Cpus = {c}, [MNext]_mvars
  PROVE  MailInv'
<1> USE DEF MTypeInv, tableVars, cfgVars, mailVars, hookVars, thVars, histVars
<1>1. CASE UNCHANGED <<list, mailVars, hookVars, tpc, new>>
  BY <1>1 DEF MailInv
<1>2. CASE FreeList
  BY <1>2 DEF FreeList, FreeListIf, MailInv
<1>3. CASE ThreadExit \/ ThreadBorn
  BY <1>3 DEF ThreadExit, ThreadBorn, TGoto, MailInv, Owned, CheckPcs
<1>4. CASE HookStep(c) \/ Wake(c)
  BY <1>4, MailHook
<1>5. CASE WakeDead(c)
  <2>1. /\ UNCHANGED <<list, flag, node, todo, tpc, new>>
        /\ pc[c] # "store" /\ pc'[c] # "store"
    BY <1>5 DEF WakeDead, Return, Goto, TypeInv, TypeOK
  <2> QED BY <2>1 DEF MailInv
<1>6. CASE ThreadStep
  BY <1>6, MailThread
<1>7. ASSUME NEW t \in Terminals, NetIn(c, t) \/ ArpIn(c, t) PROVE MailInv'
  <2>1. /\ UNCHANGED <<list, flag, node, todo, tpc, new>>
        /\ pc[c] # "store" /\ pc'[c] # "store"
    BY <1>7 DEF NetIn, ArpIn, Goto, TypeInv, TypeOK
  <2> QED BY <2>1 DEF MailInv
<1> QED
  BY <1>1, <1>2, <1>3, <1>4, <1>5, <1>6, <1>7
     DEF MNext, InitStep, Rmmod, CleanupStep, ProcCreate, RegisterHooks, KthreadCreate,
         KthreadCreateElse, RwlockInit, FirstWake, InitFails, Unhook, Drained, RemoveProc, Stop,
         SkipStop, Stopped, PacketIn, ProcWrite, SetLimit, SetEnable, HookInModule, HookRuns,
         ReadUnlockReset, WakeThread, WakeNobody, ThreadInModule, ThreadRuns, WriteUnlockReset,
         TimerFires, ProbeTimeout, mvars, vars

\* With one CPU in the hooks every node on the list carries the IP and the
\* MAC of one terminal, from insmod to rmmod.
THEOREM HandoffInModule == MSpec => []NodesIntact
<1> DEFINE Solo == Cardinality(Cpus) = 1
           SoloInv == Solo => MailInv
<1>1. MInit => SoloInv
  BY DEF MInit, Start, MailInv, NoNode, Fields, Intact, Owned, CheckPcs
<1>2. MTypeInv /\ SoloInv /\ [MNext]_mvars => SoloInv'
  <2> SUFFICES ASSUME MTypeInv, MailInv, [MNext]_mvars, Solo PROVE MailInv'
    OBVIOUS
  <2>1. PICK c : Cpus = {c}
    BY CpusFinite, FS_Singleton DEF CpusFinite
  <2> QED BY MMailStep, <2>1
<1>3. SoloInv => NodesIntact
  BY DEF MailInv, NodesIntact, Intact
<1> QED
  BY LifeAlways, <1>1, <1>2, <1>3, PTL DEF MSpec
=============================================================================
