--------------------------- MODULE MacLimitProofs ---------------------------
(***************************************************************************)
(* Theorems about MacLimit, for any number of CPUs, terminals and probes   *)
(* and any limit: its safety properties, that it implements                *)
(* AdmissionTable, and that the list therefore outgrows the limit by at    *)
(* most one node per CPU.                                                  *)
(***************************************************************************)
EXTENDS MacLimitTable, SequenceTheorems, FiniteSetTheorems, TLAPS

-----------------------------------------------------------------------------
(* Types.  The cursor pos points into the list from the arming of the ARP  *)
(* hook to the replacement, a probe is sent only below the maximum, and a  *)
(* hook that runs has a packet.                                            *)

CursorOK ==
  /\ pos <= Len(list)
  /\ tpc \in CheckPcs \cup {"check"} => pos > 0
  /\ tpc \in {"sent", "nap"} => tries < PROBES

PacketOK == \A c \in Cpus : pc[c] # "idle" => pkt[c] \in Terminals

TypeInv == TypeOK /\ CursorOK /\ PacketOK

LEMMA TypeInit == Init => TypeInv
<1> USE LimitsBounded, ProbesNat DEF LimitsBounded, ProbesNat, Init, Start
<1> SUFFICES ASSUME Init PROVE TypeInv
  OBVIOUS
<1>1. NoNode \in Nodes
  BY DEF NoNode, Nodes
<1>2. list \in Seq(Nodes) /\ Len(list) = 0
  OBVIOUS
<1>3. limit \in 0..MaxLimit
  OBVIOUS
<1>4. /\ pc \in [Cpus -> HookPcs] /\ pkt \in [Cpus -> Terminals \cup {None}]
      /\ seen \in [Cpus -> Nat] /\ mode \in [Cpus -> AddModes \cup {"NO_ADD_TASK"}]
      /\ todo \in [Cpus -> SUBSET Fields]
  BY DEF HookPcs
<1>5. TypeOK
  <2>1. flag \in Flags /\ node \in Nodes /\ cmp \in Terminals \cup {None}
    BY <1>1 DEF Flags
  <2>2. tpc \in ThreadPcs /\ tries \in 0..PROBES /\ pos \in Nat /\ new \in Nodes
    BY <1>1 DEF ThreadPcs
  <2>3. /\ readers \subseteq Cpus /\ answered \subseteq Terminals
        /\ writer \in BOOLEAN /\ enable \in BOOLEAN /\ early \in BOOLEAN
        /\ tstate \in {"R", "D"} /\ should_stop \in BOOLEAN
    OBVIOUS
  <2> QED BY <1>2, <1>3, <1>4, <2>1, <2>2, <2>3 DEF TypeOK
<1>6. CursorOK /\ PacketOK
  BY <1>2 DEF CursorOK, PacketOK, CheckPcs
<1> QED
  BY <1>5, <1>6 DEF TypeInv

\* What the steps of one hook leave well-typed.
LEMMA TypeHook ==
  ASSUME TypeInv, NEW c \in Cpus, HookStep(c) \/ Wake(c)
  PROVE  TypeInv'
<1> USE DEF TypeInv, TypeOK, CursorOK, PacketOK, Goto, Return, CheckPcs, HookPcs, AddModes,
            tableVars, cfgVars, mailVars, hookVars, thVars, histVars
<1>1. CASE ScanHit(c)
  BY <1>1 DEF ScanHit
<1>2. CASE ScanMiss(c)
  <2>1. Len(list) \in Nat
    OBVIOUS
  <2> QED BY <1>2, <2>1 DEF ScanMiss
<1>3. CASE Decide(c)
  BY <1>3 DEF Decide, DecideAs
<1>4. CASE PostFree(c)
  BY <1>4 DEF PostFree, Claim
<1>5. CASE PostBusy(c)
  BY <1>5 DEF PostBusy
<1>6. CASE \E f \in Fields : StoreField(c, f)
  <2> PICK f \in Fields : StoreField(c, f)
    BY <1>6
  <2>1. node' \in Nodes
    BY DEF StoreField, Nodes
  <2> QED BY <2>1 DEF StoreField
<1>7. CASE SetFlag(c)
  BY <1>7 DEF SetFlag, Flags
<1>8. CASE ArpMatch(c)
  BY <1>8 DEF ArpMatch
<1>9. CASE ArpOther(c)
  BY <1>9 DEF ArpOther
<1>10. CASE ArpCredit(c)
  BY <1>10 DEF ArpCredit, Flags
<1>11. CASE Wake(c)
  BY <1>11 DEF Wake, WakeAs
<1> QED
  BY <1>1, <1>2, <1>3, <1>4, <1>5, <1>6, <1>7, <1>8, <1>9, <1>10, <1>11 DEF HookStep

\* What the steps of the thread leave well-typed.
LEMMA TypeThread == ASSUME TypeInv, ThreadStep PROVE TypeInv'
<1> USE ProbesNat DEF ProbesNat, TypeInv, TypeOK, CursorOK, PacketOK, TGoto, CheckPcs, ThreadPcs, Flags,
            tableVars, cfgVars, mailVars, hookVars, thVars, histVars
<1>1. CASE ReadFlag
  <2>1. list # <<>> => Len(list) >= 1
    BY EmptySeq
  <2> QED BY <1>1, <2>1 DEF ReadFlag, ReadFlagIf
<1>2. CASE ArmFlag
  BY <1>2 DEF ArmFlag
<1>3. CASE ArmMac
  <2>1. list[pos] \in Nodes
    BY <1>3, ElementOfSeq DEF ArmMac
  <2>2. list[pos]["mac"] \in Terminals \cup {None}
    BY <2>1 DEF Nodes, Fields
  <2> QED BY <1>3, <2>2 DEF ArmMac
<1>4. CASE SendProbe
  BY <1>4 DEF SendProbe, SendProbeIf
<1>5. CASE ProbePark
  BY <1>5 DEF ProbePark
<1>6. CASE ProbeNext
  BY <1>6 DEF ProbeNext
<1>7. CASE ProbesOver
  BY <1>7 DEF ProbesOver
<1>8. CASE VerdictSilent
  BY <1>8 DEF VerdictSilent
<1>9. CASE VerdictNext
  <2>1. Len(list) \in Nat
    OBVIOUS
  <2> QED BY <1>9, <2>1 DEF VerdictNext
<1>10. CASE CreateNode
  BY <1>10 DEF CreateNode
<1>11. CASE WriteLock
  BY <1>11 DEF WriteLock, WriteLockIf
<1>12. CASE Insert
  <2>1. list' \in Seq(Nodes)
    BY <1>12 DEF Insert
  <2>2. NoNode \in Nodes
    BY DEF NoNode, Nodes
  <2>3. Len(list') \in Nat
    BY <2>1, LenProperties
  <2>4. CursorOK' /\ PacketOK'
    BY <1>12, <2>3 DEF Insert
  <2> QED BY <1>12, <2>1, <2>2, <2>4 DEF Insert
<1>13. CASE Release
  BY <1>13 DEF Release
<1>14. CASE Park
  BY <1>14 DEF Park
<1>15. CASE Resume
  BY <1>15 DEF Resume
<1> QED
  BY <1>1, <1>2, <1>3, <1>4, <1>5, <1>6, <1>7, <1>8, <1>9, <1>10, <1>11, <1>12, <1>13,
     <1>14, <1>15 DEF ThreadStep

\* The packets, the timer and the proc file.
LEMMA TypeOther ==
  ASSUME TypeInv,
         \/ \E c \in Cpus, t \in Terminals : NetIn(c, t) \/ ArpIn(c, t)
         \/ ProbeTimeout
         \/ \E l \in Limits : SetLimit(l)
         \/ \E e \in BOOLEAN : SetEnable(e)
         \/ UNCHANGED vars
  PROVE  TypeInv'
<1> USE DEF TypeInv, TypeOK, CursorOK, PacketOK, Goto, CheckPcs, HookPcs,
            tableVars, cfgVars, mailVars, hookVars, thVars, histVars
<1>1. CASE \E c \in Cpus, t \in Terminals : NetIn(c, t) \/ ArpIn(c, t)
  <2> PICK c \in Cpus, t \in Terminals : NetIn(c, t) \/ ArpIn(c, t)
    BY <1>1
  <2>1. CASE NetIn(c, t)
    BY <2>1 DEF NetIn
  <2>2. CASE ArpIn(c, t)
    BY <2>2 DEF ArpIn
  <2> QED BY <2>1, <2>2
<1>2. CASE ProbeTimeout
  BY <1>2 DEF ProbeTimeout
<1>3. CASE \E l \in Limits : SetLimit(l)
  BY <1>3, LimitsBounded DEF SetLimit, LimitsBounded
<1>4. CASE \E e \in BOOLEAN : SetEnable(e)
  BY <1>4 DEF SetEnable
<1>5. CASE UNCHANGED vars
  BY <1>5 DEF vars
<1> QED
  BY <1>1, <1>2, <1>3, <1>4, <1>5

LEMMA TypeStep == ASSUME TypeInv, [Next]_vars PROVE TypeInv'
BY TypeHook, TypeThread, TypeOther DEF Next

\* Every variable keeps its range; the thread never sends more than
\* CHECK_ARP_PACKET_NUM probes and never follows a cursor off the list.
THEOREM Typing == Spec => []TypeOK
<1>1. TypeInv /\ [Next]_vars => TypeInv'
  BY TypeStep
<1>2. TypeInv => TypeOK
  BY DEF TypeInv
<1> QED
  BY TypeInit, <1>1, <1>2, PTL DEF Spec

\* Every step of the specification is one of these.
LEMMA Steps ==
  ASSUME [Next]_vars
  PROVE  \/ \E c \in Cpus : HookStep(c) \/ Wake(c)
         \/ \E c \in Cpus, t \in Terminals : NetIn(c, t) \/ ArpIn(c, t)
         \/ ThreadStep
         \/ UNCHANGED <<tableVars, mailVars, hookVars, histVars, tpc, should_stop, pos, tries, new>>
BY DEF Next, ProbeTimeout, SetLimit, SetEnable, vars, tableVars, mailVars, hookVars, thVars, histVars

-----------------------------------------------------------------------------
(* The lock.  A CPU holds it for reading exactly while it walks the list,  *)
(* the thread for writing exactly while it changes the list, and never     *)
(* both.                                                                   *)

LockInv ==
  /\ readers = {c \in Cpus : pc[c] = "scan"}
  /\ writer <=> tpc = "insert"
  /\ writer => readers = {}

LEMMA LockStep == ASSUME TypeInv, LockInv, [Next]_vars PROVE LockInv'
<1> USE DEF LockInv, TypeInv, TypeOK, tableVars, cfgVars, mailVars, hookVars, thVars, histVars
<1>1. ASSUME NEW c \in Cpus, HookStep(c) \/ Wake(c) PROVE LockInv'
  <2>1. CASE ScanHit(c) \/ ScanMiss(c)
    <3>1. /\ UNCHANGED <<writer, tpc>> /\ pc[c] = "scan" /\ readers' = readers \ {c}
          /\ \E l \in HookPcs \ {"scan"} : pc' = [pc EXCEPT ![c] = l]
      BY <2>1 DEF ScanHit, ScanMiss, Goto, Return, HookPcs
    <3>2. readers' = {d \in Cpus : pc'[d] = "scan"}
      BY <3>1
    <3> QED BY <3>1, <3>2
  <2>2. CASE ~(ScanHit(c) \/ ScanMiss(c))
    <3>1. /\ UNCHANGED <<readers, writer, tpc>>
          /\ pc[c] # "scan"
          /\ \E l \in HookPcs \ {"scan"} : pc' = [pc EXCEPT ![c] = l]
      BY <1>1, <2>2 DEF HookStep, Decide, DecideAs, PostFree, Claim, PostBusy, StoreField, SetFlag,
         ArpMatch, ArpOther, ArpCredit, Wake, WakeAs, Goto, Return, HookPcs
    <3> QED BY <3>1
  <2> QED BY <2>1, <2>2
<1>2. ASSUME NEW c \in Cpus, NEW t \in Terminals, NetIn(c, t) \/ ArpIn(c, t) PROVE LockInv'
  <2>1. CASE NetIn(c, t)
    BY <2>1 DEF NetIn, Goto
  <2>2. CASE ArpIn(c, t)
    BY <2>2 DEF ArpIn, Goto
  <2> QED BY <1>2, <2>1, <2>2
<1>3. CASE ThreadStep
  <2>1. CASE WriteLock
    BY <2>1 DEF WriteLock, WriteLockIf, TGoto
  <2>2. CASE Insert
    BY <2>2 DEF Insert, TGoto
  <2>3. CASE ~(WriteLock \/ Insert)
    <3>1. UNCHANGED <<readers, writer, pc>> /\ tpc # "insert" /\ tpc' # "insert"
      BY <1>3, <2>3 DEF ThreadStep, ReadFlag, ReadFlagIf, ArmFlag, ArmMac, SendProbe, SendProbeIf,
         ProbePark, ProbeNext, ProbesOver, VerdictSilent, VerdictNext, CreateNode, Release, Park,
         Resume, TGoto
    <3> QED BY <3>1
  <2> QED BY <2>1, <2>2, <2>3
<1>4. CASE UNCHANGED <<tableVars, mailVars, hookVars, histVars, tpc, should_stop, pos, tries, new>>
  BY <1>4
<1> QED
  BY Steps, <1>1, <1>2, <1>3, <1>4

LEMMA Locked == Spec => [](TypeInv /\ LockInv)
<1>1. Init => LockInv
  BY DEF Init, Start, LockInv
<1>2. (TypeInv /\ LockInv) /\ [Next]_vars => (TypeInv /\ LockInv)'
  BY LockStep, TypeStep
<1> QED
  BY TypeInit, <1>1, <1>2, PTL DEF Spec

\* list_add, list_replace and kfree never happen while a hook on some CPU
\* walks the list.
THEOREM ReadersUndisturbed == Spec => NoChangeUnderReader
<1>1. ASSUME LockInv, [Next]_vars, list' # list PROVE \A c \in Cpus : pc[c] # "scan"
  <2>1. tpc = "insert"
    BY <1>1 DEF Next, HookStep, ScanHit, ScanMiss, Decide, DecideAs, PostFree, Claim, PostBusy,
       StoreField, SetFlag, ArpMatch, ArpOther, ArpCredit, Wake, WakeAs, NetIn, ArpIn, ThreadStep,
       ReadFlag, ReadFlagIf, ArmFlag, ArmMac, SendProbe, SendProbeIf, ProbePark, ProbeNext,
       ProbesOver, VerdictSilent, VerdictNext, CreateNode, WriteLock, WriteLockIf, Insert, Release,
       Park, Resume, ProbeTimeout, SetLimit, SetEnable,
       vars, tableVars
  <2> QED BY <1>1, <2>1 DEF LockInv
<1>2. LockInv /\ [Next]_vars
        => [list' # list => \A c \in Cpus : pc[c] # "scan"]_vars
  BY <1>1
<1> QED
  BY Locked, <1>2, PTL DEF Spec, NoChangeUnderReader

-----------------------------------------------------------------------------
(* The check of one node.  From the arming of the ARP hook to the verdict  *)
(* nobody but a credit moves the flag away from ARP_REPLAY_CHECK, and      *)
(* nobody moves it back: a flag that still has this value means that no    *)
(* MAC was credited.                                                       *)

SilentInv == tpc \in CheckPcs /\ flag = "ARP_REPLAY_CHECK" => answered = {}

LEMMA SilentStep == ASSUME TypeInv, SilentInv, [Next]_vars PROVE SilentInv'
<1> USE DEF SilentInv, TypeInv, TypeOK, tableVars, cfgVars, mailVars, hookVars, thVars, histVars
<1>1. ASSUME NEW c \in Cpus, HookStep(c) \/ Wake(c) PROVE SilentInv'
  <2>1. CASE SetFlag(c)
    BY <2>1 DEF SetFlag, AddModes
  <2>2. CASE ArpCredit(c)
    BY <2>2 DEF ArpCredit
  <2>3. CASE ~(SetFlag(c) \/ ArpCredit(c))
    BY <1>1, <2>3 DEF HookStep, ScanHit, ScanMiss, Decide, DecideAs, PostFree, Claim, PostBusy,
       StoreField, ArpMatch, ArpOther, Wake, WakeAs
  <2> QED BY <2>1, <2>2, <2>3
<1>2. ASSUME NEW c \in Cpus, NEW t \in Terminals, NetIn(c, t) \/ ArpIn(c, t) PROVE SilentInv'
  BY <1>2 DEF NetIn, ArpIn
<1>3. CASE ThreadStep
  BY <1>3 DEF ThreadStep, ReadFlag, ReadFlagIf, ArmFlag, ArmMac, SendProbe, SendProbeIf, ProbePark,
     ProbeNext, ProbesOver, VerdictSilent, VerdictNext, CreateNode, WriteLock, WriteLockIf, Insert,
     Release, Park, Resume, TGoto, CheckPcs
<1>4. CASE UNCHANGED <<tableVars, mailVars, hookVars, histVars, tpc, should_stop, pos, tries, new>>
  BY <1>4
<1> QED
  BY Steps, <1>1, <1>2, <1>3, <1>4

\* The thread replaces a node only when no ARP packet of its MAC was
\* credited since the flag was armed for it.
THEOREM EvictionIsJustified == Spec => EvictOnlySilent
<1>1. Init => SilentInv
  BY DEF Init, Start, SilentInv, CheckPcs
<1>2. TypeInv /\ SilentInv /\ [Next]_vars => SilentInv'
  BY SilentStep
<1>3. TypeInv /\ SilentInv /\ [Next]_vars
        => [tpc = "verdict" /\ tpc' = "alloc" => list[pos]["mac"] \notin answered]_vars
  <2> SUFFICES ASSUME SilentInv, [Next]_vars, tpc = "verdict", tpc' = "alloc"
               PROVE  answered = {}
    OBVIOUS
  <2>1. VerdictSilent
    BY DEF Next, HookStep, ScanHit, ScanMiss, Decide, DecideAs, PostFree, Claim, PostBusy,
       StoreField, SetFlag, ArpMatch, ArpOther, ArpCredit, Wake, WakeAs, NetIn, ArpIn, ThreadStep,
       ReadFlag, ReadFlagIf, ArmFlag, ArmMac, SendProbe, SendProbeIf, ProbePark, ProbeNext,
       ProbesOver, VerdictNext, CreateNode, WriteLock, WriteLockIf, Insert, Release,
       Park, Resume, ProbeTimeout, SetLimit, SetEnable, TGoto, vars, thVars
  <2> QED BY <2>1 DEF VerdictSilent, SilentInv, CheckPcs
<1> QED
  BY TypeInit, TypeStep, <1>1, <1>2, <1>3, PTL DEF Spec, EvictOnlySilent

-----------------------------------------------------------------------------
(* The wake-up protocol.  Between the release of the mailbox and the end   *)
(* of schedule() a filled mailbox always comes with a wake-up: one that is *)
(* due, one that made the thread runnable, or one that came too early.     *)

WakeDue == early \/ \E c \in Cpus : pc[c] = "wake"

SleepInv ==
  tpc \in {"unparked", "sched"} /\ flag # "NO_ADD_TASK" =>
    WakeDue \/ (tpc = "sched" /\ tstate = "R")

LEMMA SleepStep == ASSUME TypeInv, SleepInv, [Next]_vars PROVE SleepInv'
<1> USE DEF SleepInv, WakeDue, TypeInv, TypeOK, tableVars, cfgVars, mailVars, hookVars, thVars, histVars
<1>1. ASSUME NEW c \in Cpus, HookStep(c) \/ Wake(c) PROVE SleepInv'
  <2>1. CASE SetFlag(c)
    BY <2>1 DEF SetFlag, Goto
  <2>2. CASE ArpCredit(c)
    BY <2>2 DEF ArpCredit, Goto
  <2>3. CASE Wake(c)
    BY <2>3 DEF Wake, WakeAs
  <2>4. CASE ~(SetFlag(c) \/ ArpCredit(c) \/ Wake(c))
    <3>1. /\ UNCHANGED <<tpc, tstate, flag, early>>
          /\ pc[c] # "wake" /\ \E l \in HookPcs : pc' = [pc EXCEPT ![c] = l]
      BY <1>1, <2>4 DEF HookStep, ScanHit, ScanMiss, Decide, DecideAs, PostFree, Claim, PostBusy,
         StoreField, ArpMatch, ArpOther, Goto, Return, HookPcs
    <3> QED BY <3>1
  <2> QED BY <1>1, <2>1, <2>2, <2>3, <2>4
<1>2. ASSUME NEW c \in Cpus, NEW t \in Terminals, NetIn(c, t) \/ ArpIn(c, t) PROVE SleepInv'
  BY <1>2 DEF NetIn, ArpIn, Goto
<1>3. CASE ThreadStep
  BY <1>3 DEF ThreadStep, ReadFlag, ReadFlagIf, ArmFlag, ArmMac, SendProbe, SendProbeIf, ProbePark,
     ProbeNext, ProbesOver, VerdictSilent, VerdictNext, CreateNode, WriteLock, WriteLockIf, Insert,
     Release, Park, Resume, TGoto
<1>4. ASSUME ProbeTimeout PROVE SleepInv'
  BY <1>4 DEF ProbeTimeout
<1>5. ASSUME UNCHANGED <<flag, early, pc, tpc, tstate>> PROVE SleepInv'
  BY <1>5
<1> QED
  BY <1>1, <1>2, <1>3, <1>4, <1>5 DEF Next, SetLimit, SetEnable, vars

\* A parked thread overlooks a filled mailbox only because of a wake-up in
\* the window between the release of the mailbox and set_current_state.
THEOREM OnlyOneWindow == Spec => []OversleepsOnlyByEarlyWake
<1>1. Init => SleepInv
  BY DEF Init, Start, SleepInv
<1>2. TypeInv /\ SleepInv /\ [Next]_vars => SleepInv'
  BY SleepStep
<1>3. SleepInv => OversleepsOnlyByEarlyWake
  BY DEF SleepInv, WakeDue, OversleepsOnlyByEarlyWake
<1> QED
  BY TypeInit, TypeStep, <1>1, <1>2, <1>3, PTL DEF Spec

-----------------------------------------------------------------------------
(* The mailbox with one CPU in the hooks.  Its flag says who owns the      *)
(* node: the hook while it is NO_ADD_TASK, the thread from ReadFlag to     *)
(* Release.                                                                *)

Intact(n) == n["ip"] = n["mac"]

Owned == CheckPcs \cup {"check", "alloc", "lock", "insert"}

MailInv ==
  /\ \A c \in Cpus :
       IF pc[c] = "store" THEN flag = "NO_ADD_TASK" /\ \A f \in Fields \ todo[c] : node[f] = pkt[c]
                          ELSE Intact(node)
  /\ tpc \in Owned => flag # "NO_ADD_TASK"
  /\ tpc \in {"lock", "insert"} => Intact(new)
  /\ \A k \in DOMAIN list : Intact(list[k])

LEMMA MailHook ==
  ASSUME TypeInv, MailInv, NEW c \in Cpus, Cpus = {c}, HookStep(c) \/ Wake(c)
  PROVE  MailInv'
<1> USE DEF MailInv, TypeInv, TypeOK, tableVars, cfgVars, mailVars, hookVars, thVars, histVars
<1>1. CASE \E f \in Fields : StoreField(c, f)
  <2> PICK f \in Fields : StoreField(c, f)
    BY <1>1
  <2>1. \A g \in Fields \ todo'[c] : node'[g] = pkt'[c]
    BY DEF StoreField, Nodes
  <2> QED BY <2>1 DEF StoreField
<1>2. CASE SetFlag(c)
  <2>1. Intact(node)
    BY <1>2 DEF SetFlag, Intact, Fields
  <2>2. pc'[c] # "store"
    BY <1>2 DEF SetFlag, Goto
  <2>3. CASE tpc \notin Owned
    BY <1>2, <2>1, <2>2, <2>3 DEF SetFlag
  <2>4. CASE tpc \in Owned
    BY <1>2, <2>4 DEF SetFlag
  <2> QED BY <2>3, <2>4
<1>3. CASE PostFree(c)
  BY <1>3 DEF PostFree, Claim, Goto
<1>4. CASE ArpCredit(c)
  BY <1>4 DEF ArpCredit, Goto
<1>5. CASE ~(SetFlag(c) \/ PostFree(c) \/ ArpCredit(c) \/ \E f \in Fields : StoreField(c, f))
  <2>1. /\ UNCHANGED <<list, flag, node, tpc, new>>
        /\ pc[c] # "store" /\ pc'[c] # "store"
    BY <1>5 DEF HookStep, ScanHit, ScanMiss, Decide, DecideAs, PostBusy, ArpMatch, ArpOther,
       Wake, WakeAs, Goto, Return
  <2> QED BY <2>1
<1> QED
  BY <1>1, <1>2, <1>3, <1>4, <1>5

LEMMA MailThread ==
  ASSUME TypeInv, MailInv, Cpus # {}, ThreadStep
  PROVE  MailInv'
<1> USE DEF MailInv, TypeInv, TypeOK, TGoto, Owned, CheckPcs,
            tableVars, cfgVars, mailVars, hookVars, thVars, histVars
<1>1. CASE ReadFlag
  BY <1>1 DEF ReadFlag, ReadFlagIf, AddModes
<1>2. CASE ArmFlag
  BY <1>2 DEF ArmFlag
<1>3. CASE CreateNode
  <2>1. Intact(node)
    BY <1>3 DEF CreateNode
  <2> QED BY <1>3, <2>1 DEF CreateNode
<1>4. CASE Insert
  <2>1. \A k \in DOMAIN list' : Intact(list'[k])
    <3>1. CASE pos = 0
      BY <1>4, <3>1 DEF Insert
    <3>2. CASE pos # 0
      BY <1>4, <3>2 DEF Insert
    <3> QED BY <3>1, <3>2
  <2> QED BY <1>4, <2>1 DEF Insert
<1>5. CASE Release
  BY <1>5 DEF Release
<1>6. CASE ~(ReadFlag \/ ArmFlag \/ CreateNode \/ Insert \/ Release)
  <2>1. /\ UNCHANGED <<list, flag, node, new, hookVars>>
        /\ tpc' \in Owned => tpc \in Owned
        /\ tpc' \in {"lock", "insert"} => tpc \in {"lock", "insert"}
    BY <1>6 DEF ThreadStep, ArmMac, SendProbe, SendProbeIf, ProbePark, ProbeNext, ProbesOver,
       VerdictSilent, VerdictNext, WriteLock, WriteLockIf, Park, Resume
  <2> QED BY <2>1
<1> QED
  BY <1>1, <1>2, <1>3, <1>4, <1>5, <1>6

\* With one CPU in the hooks every node on the list carries the IP and the
\* MAC of one terminal.
THEOREM Handoff == Spec => []NodesIntact
<1> DEFINE Solo == Cardinality(Cpus) = 1
           SoloInv == Solo => MailInv
<1>1. Init => SoloInv
  BY DEF Init, Start, MailInv, NoNode, Fields, Intact, Owned, CheckPcs
<1>2. TypeInv /\ SoloInv /\ [Next]_vars => SoloInv'
  <2> SUFFICES ASSUME TypeInv, MailInv, [Next]_vars, Solo PROVE MailInv'
    OBVIOUS
  <2>1. PICK c : Cpus = {c}
    BY CpusFinite, FS_Singleton DEF CpusFinite
  <2>2. ASSUME NEW d \in Cpus, NEW t \in Terminals, NetIn(d, t) \/ ArpIn(d, t) PROVE MailInv'
    <3>1. /\ UNCHANGED <<list, flag, node, todo, tpc, new>>
          /\ pc[d] # "store" /\ pc' \in [Cpus -> HookPcs] /\ pc'[d] # "store"
      BY <2>2 DEF NetIn, ArpIn, Goto, TypeInv, TypeOK, HookPcs, tableVars, thVars, mailVars
    <3> QED BY <2>1, <3>1 DEF MailInv
  <2>3. CASE UNCHANGED <<tableVars, mailVars, hookVars, histVars, tpc, should_stop, pos, tries, new>>
    BY <2>3 DEF MailInv, tableVars, mailVars, hookVars
  <2> QED BY Steps, MailHook, MailThread, <2>1, <2>2, <2>3
<1>3. SoloInv => NodesIntact
  BY DEF MailInv, NodesIntact, Intact
<1> QED
  BY TypeInit, TypeStep, <1>1, <1>2, <1>3, PTL DEF Spec
-----------------------------------------------------------------------------
(* The admission table: who holds a claim, and what becomes of it.         *)

claimers == {c \in Cpus : Claiming(c)}

pending == IF Pending THEN 1 ELSE 0

LEMMA ClaimerCount ==
  /\ IsFiniteSet(claimers) /\ Cardinality(claimers) \in 0..Cardinality(Cpus)
  /\ Cardinality(claimers') \in Nat
  /\ Cardinality(Cpus) \in Nat
<1>1. claimers \subseteq Cpus /\ claimers' \subseteq Cpus
  BY DEF claimers
<1> QED BY <1>1, CpusFinite, FS_Subset, FS_CardinalityType DEF CpusFinite

LEMMA ClaimsIs ==
  /\ Claims = Cardinality(claimers) + pending /\ pending \in {0, 1}
  /\ Claims' = Cardinality(claimers') + pending' /\ pending' \in {0, 1}
BY DEF Claims, claimers, pending

\* One more, one less, or the same set of claimers.
LEMMA ClaimersGrow ==
  ASSUME NEW c \in Cpus, c \notin claimers, claimers' = claimers \cup {c}
  PROVE  /\ Cardinality(claimers') = Cardinality(claimers) + 1
         /\ Cardinality(claimers) < Cardinality(Cpus)
<1>1. Cardinality(claimers \cup {c}) = Cardinality(claimers) + 1
  BY ClaimerCount, FS_AddElement
<1>2. claimers \cup {c} \subseteq Cpus
  BY DEF claimers
<1>3. Cardinality(claimers \cup {c}) <= Cardinality(Cpus)
  BY <1>2, CpusFinite, FS_Subset DEF CpusFinite
<1> QED BY <1>1, <1>3, ClaimerCount

LEMMA ClaimersShrink ==
  ASSUME NEW c \in claimers, claimers' = claimers \ {c}
  PROVE  Cardinality(claimers') = Cardinality(claimers) - 1
BY ClaimerCount, FS_RemoveElement

\* A step that leaves the list alone, and at most gives up the claim of one
\* CPU, or passes it on to the mailbox, is one of the table or stutters.
LEMMA ForgoStep ==
  ASSUME Len(list)' = Len(list), Claims' \in {Claims, Claims - 1}
  PROVE  [Table!TNext]_(Table!tvars)
<1>1. Claims \in Nat /\ Claims' \in Nat
  BY ClaimsIs, ClaimerCount
<1> QED BY <1>1 DEF Table!TNext, Table!Forgo, Table!tvars

LEMMA ClaimStep ==
  ASSUME Len(list)' = Len(list), Claims' = Claims + 1, Len(list) < MaxLimit,
         Cardinality(claimers) < Cardinality(Cpus)
  PROVE  [Table!TNext]_(Table!tvars)
<1>1. Claims < Cardinality(Cpus) + 1
  BY ClaimsIs, ClaimerCount
<1> QED BY <1>1 DEF Table!TNext, Table!Claim

LEMMA AdmitStep ==
  ASSUME Len(list)' = Len(list) + 1, Claims' = Claims - 1
  PROVE  [Table!TNext]_(Table!tvars)
<1>1. Claims \in Nat /\ Claims' \in Nat
  BY ClaimsIs, ClaimerCount
<1> QED BY <1>1 DEF Table!TNext, Table!Admit

LEMMA HookRefines ==
  ASSUME TypeInv, NEW c \in Cpus, HookStep(c) \/ Wake(c)
  PROVE  [Table!TNext]_(Table!tvars)
<1> USE DEF TypeInv, TypeOK, Goto, Return, tableVars, cfgVars, mailVars, hookVars, thVars, histVars
<1>1. list' = list /\ Len(list) \in Nat
  BY DEF HookStep, ScanHit, ScanMiss, Decide, DecideAs, PostFree, Claim, PostBusy, StoreField,
     SetFlag, ArpMatch, ArpOther, ArpCredit, Wake, WakeAs
<1>2. UNCHANGED <<tpc, pos>>
  BY DEF HookStep, ScanHit, ScanMiss, Decide, DecideAs, PostFree, Claim, PostBusy, StoreField,
     SetFlag, ArpMatch, ArpOther, ArpCredit, Wake, WakeAs
<1>3. CASE ScanMiss(c)
  <2>1. pending' = pending
    BY <1>2, <1>3 DEF ScanMiss, pending, Pending
  <2>2. c \notin claimers
    BY <1>3 DEF ScanMiss, claimers, Claiming
  <2>3. \/ claimers' = claimers
        \/ claimers' = claimers \cup {c} /\ Len(list) < MaxLimit
    BY <1>3, <2>2 DEF ScanMiss, claimers, Claiming
  <2>4. CASE claimers' = claimers
    BY <1>1, <2>1, <2>4, ForgoStep, ClaimsIs
  <2>5. CASE claimers' = claimers \cup {c} /\ Len(list) < MaxLimit
    <3> HIDE DEF TypeInv, TypeOK
    <3>1. Claims' = Claims + 1
      <4>1. Cardinality(claimers') = Cardinality(claimers) + 1
        BY <2>2, <2>5, ClaimersGrow
      <4> QED BY <2>1, <4>1, ClaimsIs, ClaimerCount
    <3> QED BY <1>1, <2>2, <2>5, <3>1, ClaimersGrow, ClaimStep
  <2> QED BY <2>3, <2>4, <2>5
<1>4. CASE SetFlag(c)
  <2>1. pc[c] = "store" /\ flag' = mode[c]
    BY <1>4 DEF SetFlag
  <2>2. CASE mode[c] = "ADD_IMMEDIATE"
    <3>1. c \in claimers /\ claimers' = claimers \ {c}
      BY <1>4, <2>1, <2>2 DEF SetFlag, claimers, Claiming
    <3>2. pending' \in {pending, 1}
      BY <1>2, <2>1, <2>2 DEF pending, Pending
    <3>3. Cardinality(claimers') = Cardinality(claimers) - 1
      BY <3>1, ClaimersShrink
    <3> HIDE DEF TypeInv, TypeOK
    <3>4. CASE pending' = pending
      BY <1>1, <3>3, <3>4, ClaimsIs, ClaimerCount, ForgoStep
    <3>5. CASE pending = 0 /\ pending' = 1
      BY <1>1, <3>3, <3>5, ClaimsIs, ClaimerCount, ForgoStep
    <3> QED BY <3>2, <3>4, <3>5, ClaimsIs
  <2>3. CASE mode[c] # "ADD_IMMEDIATE"
    <3>1. claimers' = claimers
      BY <1>4, <2>1, <2>3 DEF SetFlag, claimers, Claiming
    <3>2. pending' \in {pending, 0}
      BY <1>2, <2>1, <2>3 DEF pending, Pending
    <3>3. Claims' \in {Claims, Claims - 1}
      BY <3>1, <3>2, ClaimsIs, ClaimerCount
    <3> QED BY <1>1, <3>3, ForgoStep
  <2> QED BY <2>2, <2>3
<1>5. CASE ArpCredit(c)
  <2>1. claimers' = claimers
    BY <1>5 DEF ArpCredit, claimers, Claiming
  <2>2. pending' \in {pending, 0}
    BY <1>2, <1>5 DEF ArpCredit, pending, Pending
  <2>3. Claims' \in {Claims, Claims - 1}
    BY <2>1, <2>2, ClaimsIs, ClaimerCount
  <2> QED BY <1>1, <2>3, ForgoStep
<1>6. CASE ~(ScanMiss(c) \/ SetFlag(c) \/ ArpCredit(c))
  <2>1. flag' = flag
    BY <1>6 DEF HookStep, ScanHit, Decide, DecideAs, PostFree, Claim, PostBusy, StoreField,
       ArpMatch, ArpOther, Wake, WakeAs
  <2>2. pending' = pending
    BY <1>2, <2>1 DEF pending, Pending
  <2>3. claimers' = claimers \/ (c \in claimers /\ claimers' = claimers \ {c})
    <3>1. \A d \in Cpus \ {c} : Claiming(d)' <=> Claiming(d)
      BY <1>6 DEF HookStep, ScanHit, Decide, DecideAs, PostFree, Claim, PostBusy, StoreField,
         ArpMatch, ArpOther, Wake, WakeAs, Claiming
    <3>2. Claiming(c)' => Claiming(c)
      <4>1. CASE Decide(c)
        BY <4>1, LimitsBounded DEF Decide, DecideAs, Claiming, LimitsBounded
      <4>2. CASE ~Decide(c)
        BY <1>6, <4>2 DEF HookStep, ScanHit, PostFree, Claim, PostBusy, StoreField,
           ArpMatch, ArpOther, Wake, WakeAs, Claiming
      <4> QED BY <4>1, <4>2
    <3> QED BY <3>1, <3>2 DEF claimers
  <2>4. Claims' \in {Claims, Claims - 1}
    BY <2>2, <2>3, ClaimersShrink, ClaimsIs, ClaimerCount
  <2> QED BY <1>1, <2>4, ForgoStep
<1> QED BY <1>3, <1>4, <1>5, <1>6

LEMMA ThreadRefines == ASSUME TypeInv, ThreadStep PROVE [Table!TNext]_(Table!tvars)
<1> USE DEF TypeInv, TypeOK, TGoto, tableVars, cfgVars, mailVars, hookVars, thVars, histVars
<1>1. claimers' = claimers
  BY DEF ThreadStep, ReadFlag, ReadFlagIf, ArmFlag, ArmMac, SendProbe, SendProbeIf, ProbePark,
     ProbeNext, ProbesOver, VerdictSilent, VerdictNext, CreateNode, WriteLock, WriteLockIf, Insert,
     Release, Park, Resume, claimers, Claiming
<1>2. CASE Insert
  <2>1. CASE pos = 0
    <3>1. Len(list') = Len(list) + 1
      BY <1>2, <2>1 DEF Insert
    <3>2. pending = 1 /\ pending' = 0
      BY <1>2, <2>1 DEF Insert, pending, Pending
    <3>3. Claims' = Claims - 1
      BY <1>1, <3>2, ClaimsIs, ClaimerCount
    <3> QED BY <3>1, <3>3, AdmitStep
  <2>2. CASE pos # 0
    <3>1. Len(list') = Len(list)
      BY <1>2, <2>2 DEF Insert
    <3>2. pending = 0 /\ pending' = 0
      BY <1>2, <2>2 DEF Insert, pending, Pending
    <3>3. Claims' = Claims
      BY <1>1, <3>2, ClaimsIs
    <3> QED BY <3>1, <3>3, ForgoStep
  <2> QED BY <2>1, <2>2
<1>3. CASE ~Insert
  <2>1. list' = list /\ Len(list) \in Nat
    BY <1>3 DEF ThreadStep, ReadFlag, ReadFlagIf, ArmFlag, ArmMac, SendProbe, SendProbeIf, ProbePark,
       ProbeNext, ProbesOver, VerdictSilent, VerdictNext, CreateNode, WriteLock, WriteLockIf,
       Release, Park, Resume
  <2>2. pending' \in {pending, 0}
    BY <1>3 DEF ThreadStep, ReadFlag, ReadFlagIf, ArmFlag, ArmMac, SendProbe, SendProbeIf, ProbePark,
       ProbeNext, ProbesOver, VerdictSilent, VerdictNext, CreateNode, WriteLock, WriteLockIf,
       Release, Park, Resume, CursorOK, CheckPcs, pending, Pending
  <2>3. Claims' \in {Claims, Claims - 1}
    BY <1>1, <2>2, ClaimsIs, ClaimerCount
  <2> QED BY <2>1, <2>3, ForgoStep
<1> QED BY <1>2, <1>3

LEMMA OtherRefines ==
  ASSUME TypeInv,
         \/ \E c \in Cpus, t \in Terminals : NetIn(c, t) \/ ArpIn(c, t)
         \/ UNCHANGED <<tableVars, mailVars, hookVars, histVars, tpc, should_stop, pos, tries, new>>
  PROVE  [Table!TNext]_(Table!tvars)
<1>1. claimers' = claimers
  BY DEF TypeInv, TypeOK, NetIn, ArpIn, Goto, hookVars, claimers, Claiming
<1>2. list' = list /\ pending' = pending
  BY DEF NetIn, ArpIn, thVars, mailVars, tableVars, pending, Pending
<1> QED BY <1>1, <1>2, ClaimsIs DEF Table!tvars

\* Every behaviour of hooks and thread is one of the admission table, for
\* any number of CPUs and terminals and any limit.
THEOREM Refinement == Spec => ImplementsTable
<1>1. Init => Table!TInit
  <2> SUFFICES ASSUME Init PROVE Len(list) = 0 /\ Claims = 0
    BY DEF Table!TInit
  <2>1. claimers = {}
    BY DEF Init, Start, claimers, Claiming
  <2>2. pending = 0
    BY DEF Init, Start, pending, Pending
  <2> QED BY <2>1, <2>2, ClaimsIs, FS_EmptySet DEF Init, Start
<1>2. TypeInv /\ [Next]_vars => [Table!TNext]_(Table!tvars)
  BY Steps, HookRefines, ThreadRefines, OtherRefines
<1> QED
  BY TypeInit, TypeStep, <1>1, <1>2, PTL DEF Spec, ImplementsTable, Table!TSpec

\* The abstract table never outgrows its capacity by as much as one slot per
\* claim, however many devices the hooks of maclimit.c find room for at once.
THEOREM SlotsBounded ==
  ASSUME Table!TableParameters
  PROVE  Table!TSpec => []Table!SlotsCovered
<1> USE DEF Table!TableParameters, Table!SlotsCovered
<1>1. Table!TInit => Table!SlotsCovered
  BY DEF Table!TInit
<1>2. Table!SlotsCovered /\ [Table!TNext]_(Table!tvars) => Table!SlotsCovered'
  BY DEF Table!TNext, Table!Claim, Table!Admit, Table!Forgo, Table!tvars
<1> QED BY <1>1, <1>2, PTL DEF Table!TSpec

\* The list outgrows the largest limit by at most one node per CPU.
THEOREM Overshoot == Spec => []BoundedOvershoot
<1>1. MaxLimit \in Nat \ {0} /\ Cardinality(Cpus) + 1 \in Nat
  BY LimitsBounded, ClaimerCount DEF LimitsBounded
<1>2. ImplementsTable => []Table!SlotsCovered
  BY <1>1, SlotsBounded DEF ImplementsTable, Table!TableParameters
<1>3. Table!SlotsCovered => BoundedOvershoot
  <2> SUFFICES ASSUME Table!SlotsCovered PROVE Len(list) <= MaxLimit + Cardinality(Cpus)
    BY DEF BoundedOvershoot
  <2>1. Len(list) \in Nat /\ Claims \in Nat /\ Len(list) + Claims < MaxLimit + (Cardinality(Cpus) + 1)
    BY ClaimsIs, ClaimerCount DEF Table!SlotsCovered
  <2> QED BY <1>1, <2>1, ClaimerCount
<1> QED
  BY Refinement, <1>2, <1>3, PTL
=============================================================================
