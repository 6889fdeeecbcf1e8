------------------------------ MODULE MacLimit ------------------------------
(***************************************************************************)
(* dirver/maclimit/maclimit.c while the module is loaded: the netfilter    *)
(* hooks that run in softirq context on every CPU, the "maclimit" kernel   *)
(* thread, and the one-slot mailbox (new_terminal) between them.           *)
(*                                                                         *)
(* A step is one access to a variable that two contexts share.  The        *)
(* atomics are sequentially consistent; the plain stores of the mailbox    *)
(* fields may become visible in any order before the store of its flag.    *)
(* Nodes are values here; allocation shows only as success or failure.     *)
(***************************************************************************)
EXTENDS Integers, Sequences, FiniteSets

CONSTANTS
  Cpus,      (* CPUs whose softirq runs net_hook_func and arpin_hook_func  *)
  Terminals, (* LAN terminals, each with one MAC address and one IP        *)
  Limits,    (* the values of limit_num written to the proc file           *)
  MaxLimit,  (* the largest of them                                        *)
  PROBES,    (* CHECK_ARP_PACKET_NUM                                       *)
  None       (* zeroed memory: the address of no terminal                  *)

ASSUME CpusFinite     == IsFiniteSet(Cpus)
ASSUME LimitsBounded  == MaxLimit \in Nat \ {0} /\ Limits \subseteq 0..MaxLimit
ASSUME ProbesNat      == PROBES \in Nat
ASSUME NoneIsNobody   == None \notin Terminals

VARIABLES
  list,        (* maclimit_list, head first                                *)
  readers,     (* maclimit_rwlock: CPUs holding it for reading             *)
  writer,      (* maclimit_rwlock: held for writing                        *)
  enable,      (* maclimit_cfg.enable                                      *)
  limit,       (* maclimit_cfg.limit_num                                   *)
  flag,        (* new_terminal.flag                                        *)
  node,        (* new_terminal.node                                        *)
  cmp,         (* new_terminal.arp_cmp_mac                                 *)
  pc,          (* per CPU: where its hook is, "idle" when none runs        *)
  pkt,         (* per CPU: sender of the packet in the hook                *)
  seen,        (* per CPU: connect_num                                     *)
  mode,        (* per CPU: argument flag of send_add_opt_to_thread         *)
  todo,        (* per CPU: mailbox fields still to be stored               *)
  tpc,         (* where limit_check_func is                                *)
  tstate,      (* task state: "R" running, "D" uninterruptible             *)
  should_stop, (* kthread_should_stop(): only nf_cleanup sets it           *)
  pos,         (* list_for_each_entry_safe cursor, 0 outside the loop      *)
  tries,       (* probes sent to the node at pos                           *)
  new,         (* the node create_new_node returned                        *)
  answered,    (* history: MACs whose ARP was credited in the check of pos  *)
  early        (* history: a wake-up hit the thread before it parked       *)

tableVars == <<list, readers, writer>>
cfgVars   == <<enable, limit>>
mailVars  == <<flag, node, cmp>>
hookVars  == <<pc, pkt, seen, mode, todo>>
thVars    == <<tpc, tstate, should_stop, pos, tries, new>>
histVars  == <<answered, early>>
vars == <<tableVars, cfgVars, mailVars, hookVars, thVars, histVars>>

-----------------------------------------------------------------------------
Fields == {"ip", "mac"}     \* srcip, dstip and dev go together as "ip"
Nodes  == [Fields -> Terminals \cup {None}]
NoNode == [f \in Fields |-> None]

Flags == {"NO_ADD_TASK", "ADD_IMMEDIATE", "ADD_CHECK", "ARP_REPLAY_CHECK", "ARP_REPLAY_OK"}
AddModes == {"ADD_IMMEDIATE", "ADD_CHECK"}

CheckPcs == {"copy", "probe", "sent", "nap", "verdict"}

Listed(t) == \E k \in DOMAIN list : list[k]["mac"] = t

\* The static data as the module is loaded, and the thread at w in state s.
Start(w, s) ==
  /\ list = <<>> /\ readers = {} /\ writer = FALSE
  /\ enable = FALSE /\ limit = 1
  /\ flag = "NO_ADD_TASK" /\ node = NoNode /\ cmp = None
  /\ pc = [c \in Cpus |-> "idle"]
  /\ pkt = [c \in Cpus |-> None]
  /\ seen = [c \in Cpus |-> 0]
  /\ mode = [c \in Cpus |-> "NO_ADD_TASK"]
  /\ todo = [c \in Cpus |-> {}]
  /\ tpc = w /\ tstate = s /\ should_stop = FALSE
  /\ pos = 0 /\ tries = 0 /\ new = NoNode
  /\ answered = {} /\ early = FALSE

\* nf_init is over and limit_check_func has started.
Init == Start("top", "R")

-----------------------------------------------------------------------------
(* The hooks.  A CPU runs one at a time; its locals die when it returns.   *)

Goto(c, l) == pc' = [pc EXCEPT ![c] = l]

Return(c) ==
  /\ Goto(c, "idle")
  /\ pkt' = [pkt EXCEPT ![c] = None]
  /\ seen' = [seen EXCEPT ![c] = 0]
  /\ mode' = [mode EXCEPT ![c] = "NO_ADD_TASK"]
  /\ UNCHANGED todo

\* A non-UDP packet of t enters br0 and read_trylock succeeds.  When the
\* limit is off, or a writer holds the lock, the packet is accepted at once.
NetIn(c, t) ==
  /\ pc[c] = "idle" /\ enable /\ ~writer
  /\ readers' = readers \cup {c}
  /\ Goto(c, "scan")
  /\ pkt' = [pkt EXCEPT ![c] = t]
  /\ UNCHANGED <<list, writer, cfgVars, mailVars, seen, mode, todo, thVars, histVars>>

\* The walk finds the MAC: unlock and accept.
ScanHit(c) ==
  /\ pc[c] = "scan" /\ Listed(pkt[c])
  /\ readers' = readers \ {c}
  /\ Return(c)
  /\ UNCHANGED <<list, writer, cfgVars, mailVars, thVars, histVars>>

\* The walk ends without it: unlock, with the length in connect_num.
ScanMiss(c) ==
  /\ pc[c] = "scan" /\ ~Listed(pkt[c])
  /\ readers' = readers \ {c}
  /\ Goto(c, "decide")
  /\ seen' = [seen EXCEPT ![c] = Len(list)]
  /\ UNCHANGED <<list, writer, cfgVars, mailVars, pkt, mode, todo, thVars, histVars>>

\* connect_num < limit_num: add and accept; otherwise check and drop.
DecideAs(c, full) ==
  /\ pc[c] = "decide"
  /\ Goto(c, "post")
  /\ mode' = [mode EXCEPT ![c] = IF full THEN "ADD_CHECK" ELSE "ADD_IMMEDIATE"]
  /\ seen' = [seen EXCEPT ![c] = 0]
  /\ UNCHANGED <<tableVars, cfgVars, mailVars, pkt, todo, thVars, histVars>>

Decide_offByOne(c) == DecideAs(c, seen[c] > limit)
Decide_neverFull(c) == DecideAs(c, FALSE)
Decide(c) == DecideAs(c, seen[c] >= limit)

\* send_add_opt_to_thread: the mailbox is free, start to fill it ...
Claim(c) ==
  /\ Goto(c, "store")
  /\ todo' = [todo EXCEPT ![c] = Fields]
  /\ UNCHANGED <<tableVars, cfgVars, mailVars, pkt, seen, mode, thVars, histVars>>

PostFree_unguarded(c) == pc[c] = "post" /\ Claim(c)
PostFree(c) == pc[c] = "post" /\ flag = "NO_ADD_TASK" /\ Claim(c)

\* ... or it is in use and the request is dropped.
PostBusy(c) ==
  /\ pc[c] = "post" /\ flag # "NO_ADD_TASK"
  /\ Return(c)
  /\ UNCHANGED <<tableVars, cfgVars, mailVars, thVars, histVars>>

StoreField(c, f) ==
  /\ pc[c] = "store" /\ f \in todo[c]
  /\ node' = [node EXCEPT ![f] = pkt[c]]
  /\ todo' = [todo EXCEPT ![c] = @ \ {f}]
  /\ UNCHANGED <<tableVars, cfgVars, flag, cmp, pc, pkt, seen, mode, thVars, histVars>>

SetFlag(c) ==
  /\ pc[c] = "store" /\ todo[c] = {}
  /\ flag' = mode[c]
  /\ Goto(c, "wake")
  /\ UNCHANGED <<tableVars, cfgVars, node, cmp, pkt, seen, mode, todo, thVars, histVars>>

\* arpin_hook_func: any ARP packet of t while a probe is outstanding.
ArpIn(c, t) ==
  /\ pc[c] = "idle" /\ flag = "ARP_REPLAY_CHECK"
  /\ Goto(c, "arp")
  /\ pkt' = [pkt EXCEPT ![c] = t]
  /\ UNCHANGED <<tableVars, cfgVars, mailVars, seen, mode, todo, thVars, histVars>>

ArpMatch(c) ==
  /\ pc[c] = "arp" /\ cmp = pkt[c]
  /\ Goto(c, "credit")
  /\ UNCHANGED <<tableVars, cfgVars, mailVars, pkt, seen, mode, todo, thVars, histVars>>

ArpOther(c) ==
  /\ pc[c] = "arp" /\ cmp # pkt[c]
  /\ Return(c)
  /\ UNCHANGED <<tableVars, cfgVars, mailVars, thVars, histVars>>

ArpCredit(c) ==
  /\ pc[c] = "credit"
  /\ flag' = "ARP_REPLAY_OK"
  /\ answered' = IF tpc \in CheckPcs THEN answered \cup {pkt[c]} ELSE {}
  /\ Goto(c, "wake")
  /\ UNCHANGED <<tableVars, cfgVars, node, cmp, pkt, seen, mode, todo, thVars, early>>

\* wake_up_process(limit_check_task), the last step of either hook.
WakeAs(c, s) ==
  /\ pc[c] = "wake"
  /\ tstate' = s
  /\ early' = (early \/ tpc = "unparked")
  /\ Return(c)
  /\ UNCHANGED <<tableVars, cfgVars, mailVars, tpc, should_stop, pos, tries, new, answered>>

Wake_missing(c) == WakeAs(c, tstate)
Wake(c) == WakeAs(c, "R")

\* What a hook does once it has started; a softirq runs to completion.
HookStep(c) ==
  \/ ScanHit(c) \/ ScanMiss(c) \/ Decide(c) \/ PostFree(c) \/ PostBusy(c)
  \/ \E f \in Fields : StoreField(c, f)
  \/ SetFlag(c) \/ ArpMatch(c) \/ ArpOther(c) \/ ArpCredit(c)

-----------------------------------------------------------------------------
(* limit_check_func.                                                       *)

TGoto(l) == tpc' = l

\* switch(atomic_read(&new_terminal.flag)); the loop over an empty list ends
\* at once, and every other flag is ignored.
ReadFlagIf(on) ==
  /\ tpc = "top" /\ on
  /\ \/ flag = "ADD_IMMEDIATE" /\ TGoto("alloc") /\ pos' = 0
     \/ flag = "ADD_CHECK" /\ list # <<>> /\ TGoto("check") /\ pos' = 1
     \/ flag = "ADD_CHECK" /\ list = <<>> /\ TGoto("reset") /\ pos' = 0
     \/ flag \notin AddModes /\ TGoto("reset") /\ pos' = 0
  /\ UNCHANGED <<tableVars, cfgVars, mailVars, hookVars, tstate, should_stop, tries, new, histVars>>

ReadFlag_forever == ReadFlagIf(TRUE)
ReadFlag == ReadFlagIf(~should_stop)

\* Arm the ARP hook for the node at pos: first the flag, then the MAC.
ArmFlag ==
  /\ tpc = "check"
  /\ flag' = "ARP_REPLAY_CHECK"
  /\ answered' = {}
  /\ TGoto("copy")
  /\ UNCHANGED <<tableVars, cfgVars, node, cmp, hookVars, tstate, should_stop, pos, tries, new, early>>

ArmMac ==
  /\ tpc = "copy"
  /\ cmp' = list[pos]["mac"]
  /\ tries' = 0
  /\ TGoto("probe")
  /\ UNCHANGED <<tableVars, cfgVars, flag, node, hookVars, tstate, should_stop, pos, new, histVars>>

SendProbeIf(more) ==
  /\ tpc = "probe" /\ more /\ flag = "ARP_REPLAY_CHECK"
  /\ TGoto("sent")
  /\ UNCHANGED <<tableVars, cfgVars, mailVars, hookVars, tstate, should_stop, pos, tries, new, histVars>>

SendProbe_oneMore == SendProbeIf(tries <= PROBES)
SendProbe == SendProbeIf(tries < PROBES)

\* set_current_state(TASK_UNINTERRUPTIBLE), before schedule_timeout ...
ProbePark ==
  /\ tpc = "sent"
  /\ tstate' = "D"
  /\ TGoto("nap")
  /\ UNCHANGED <<tableVars, cfgVars, mailVars, hookVars, should_stop, pos, tries, new, histVars>>

\* ... whose timer wakes the thread when no hook did.
ProbeTimeout ==
  /\ tpc = "nap" /\ tstate = "D"
  /\ tstate' = "R"
  /\ UNCHANGED <<tableVars, cfgVars, mailVars, hookVars, tpc, should_stop, pos, tries, new, histVars>>

ProbeNext_forgetCount ==
  /\ tpc = "nap" /\ tstate = "R" /\ TGoto("probe")
  /\ UNCHANGED <<tableVars, cfgVars, mailVars, hookVars, tstate, should_stop, pos, tries, new, histVars>>
ProbeNext_rearm ==
  /\ tpc = "nap" /\ tstate = "R" /\ TGoto("probe") /\ tries' = tries + 1
  /\ flag' = "ARP_REPLAY_CHECK"
  /\ UNCHANGED <<tableVars, cfgVars, node, cmp, hookVars, tstate, should_stop, pos, new, histVars>>
ProbeNext ==
  /\ tpc = "nap" /\ tstate = "R" /\ TGoto("probe") /\ tries' = tries + 1
  /\ UNCHANGED <<tableVars, cfgVars, mailVars, hookVars, tstate, should_stop, pos, new, histVars>>

ProbesOver ==
  /\ tpc = "probe" /\ (tries >= PROBES \/ flag # "ARP_REPLAY_CHECK")
  /\ tries' = 0
  /\ TGoto("verdict")
  /\ UNCHANGED <<tableVars, cfgVars, mailVars, hookVars, tstate, should_stop, pos, new, histVars>>

\* "not be change by arp": the node at pos will be replaced.
VerdictSilent ==
  /\ tpc = "verdict" /\ flag = "ARP_REPLAY_CHECK"
  /\ answered' = {}
  /\ TGoto("alloc")
  /\ UNCHANGED <<tableVars, cfgVars, mailVars, hookVars, tstate, should_stop, pos, tries, new, early>>

VerdictNext ==
  /\ tpc = "verdict" /\ flag # "ARP_REPLAY_CHECK"
  /\ IF pos < Len(list) THEN TGoto("check") /\ pos' = pos + 1
                        ELSE TGoto("reset") /\ pos' = 0
  /\ answered' = {}
  /\ UNCHANGED <<tableVars, cfgVars, mailVars, hookVars, tstate, should_stop, tries, new, early>>

\* create_new_node copies the mailbox; kmalloc may fail, which ends the pass.
CreateNode ==
  /\ tpc = "alloc"
  /\ \/ new' = node /\ TGoto("lock") /\ UNCHANGED pos
     \/ TGoto("reset") /\ pos' = 0 /\ UNCHANGED new
  /\ UNCHANGED <<tableVars, cfgVars, mailVars, hookVars, tstate, should_stop, tries, histVars>>

WriteLockIf(free) ==
  /\ tpc = "lock" /\ free
  /\ writer' = TRUE
  /\ TGoto("insert")
  /\ UNCHANGED <<list, readers, cfgVars, mailVars, hookVars, tstate, should_stop, pos, tries, new, histVars>>

WriteLock_trylockOnly == WriteLockIf(TRUE)
WriteLock == WriteLockIf(readers = {})

\* list_add at the head, or list_replace and kfree of the node at pos, then
\* write_unlock.  (The replacing branch also allocates a second copy of the
\* node that nothing ever refers to.)
Insert ==
  /\ tpc = "insert"
  /\ list' = IF pos = 0 THEN <<new>> \o list ELSE [list EXCEPT ![pos] = new]
  /\ writer' = FALSE
  /\ new' = NoNode /\ pos' = 0
  /\ TGoto("reset")
  /\ UNCHANGED <<readers, cfgVars, mailVars, hookVars, tstate, should_stop, tries, histVars>>

\* The end of the pass: release the mailbox, then park, then schedule().
Release ==
  /\ tpc = "reset"
  /\ flag' = "NO_ADD_TASK"
  /\ TGoto("unparked")
  /\ UNCHANGED <<tableVars, cfgVars, node, cmp, hookVars, tstate, should_stop, pos, tries, new, histVars>>

Park ==
  /\ tpc = "unparked"
  /\ tstate' = "D"
  /\ TGoto("sched")
  /\ UNCHANGED <<tableVars, cfgVars, mailVars, hookVars, should_stop, pos, tries, new, histVars>>

Resume ==
  /\ tpc = "sched" /\ tstate = "R"
  /\ early' = FALSE
  /\ TGoto("top")
  /\ UNCHANGED <<tableVars, cfgVars, mailVars, hookVars, tstate, should_stop, pos, tries, new, answered>>

ThreadStep ==
  \/ ReadFlag \/ ArmFlag \/ ArmMac \/ SendProbe \/ ProbePark \/ ProbeNext
  \/ ProbesOver \/ VerdictSilent \/ VerdictNext \/ CreateNode \/ WriteLock
  \/ Insert \/ Release \/ Park \/ Resume

-----------------------------------------------------------------------------
(* write_maclimit_proc stores limit_num, then enable when the line has a   *)
(* second number.  Lines may be written concurrently, so either store may  *)
(* come at any time.                                                       *)
SetLimit(l) ==
  /\ limit' = l
  /\ UNCHANGED <<tableVars, enable, mailVars, hookVars, thVars, histVars>>

SetEnable(e) ==
  /\ enable' = e
  /\ UNCHANGED <<tableVars, limit, mailVars, hookVars, thVars, histVars>>

Next ==
  \/ \E c \in Cpus : HookStep(c) \/ Wake(c)
  \/ \E c \in Cpus, t \in Terminals : NetIn(c, t) \/ ArpIn(c, t)
  \/ ThreadStep
  \/ ProbeTimeout
  \/ \E l \in Limits : SetLimit(l)
  \/ \E e \in BOOLEAN : SetEnable(e)

Spec == Init /\ [][Next]_vars

\* A softirq and a runnable thread get CPU time, a timer expires, and a lock
\* that is free again and again is taken at last.
Fairness ==
  /\ WF_vars(ThreadStep) /\ SF_vars(WriteLock) /\ WF_vars(ProbeTimeout)
  /\ \A c \in Cpus : WF_vars(HookStep(c) \/ Wake(c))

FairSpec == Spec /\ Fairness
-----------------------------------------------------------------------------
(* Properties.                                                             *)

HookPcs == {"idle", "scan", "decide", "post", "store", "arp", "credit", "wake"}
ThreadPcs == {"unborn", "top", "check", "copy", "probe", "sent", "nap", "verdict", "alloc",
              "lock", "insert", "reset", "unparked", "sched", "exited"}

\* The ranges of the variables.  The one that could fail is that of tries:
\* the thread sends at most CHECK_ARP_PACKET_NUM probes to a node.
TypeOK ==
  /\ list \in Seq(Nodes) /\ readers \subseteq Cpus /\ writer \in BOOLEAN
  /\ enable \in BOOLEAN /\ limit \in 0..MaxLimit
  /\ flag \in Flags /\ node \in Nodes /\ cmp \in Terminals \cup {None}
  /\ pc \in [Cpus -> HookPcs]
  /\ pkt \in [Cpus -> Terminals \cup {None}]
  /\ seen \in [Cpus -> Nat]
  /\ mode \in [Cpus -> AddModes \cup {"NO_ADD_TASK"}]
  /\ todo \in [Cpus -> SUBSET Fields]
  /\ tpc \in ThreadPcs /\ tstate \in {"R", "D"} /\ should_stop \in BOOLEAN
  /\ pos \in Nat /\ tries \in 0..PROBES /\ new \in Nodes
  /\ answered \subseteq Terminals /\ early \in BOOLEAN

\* The list never changes while a hook on some CPU walks it: list_add,
\* list_replace and kfree happen under the write lock only.
NoChangeUnderReader ==
  [][list' # list => \A c \in Cpus : pc[c] # "scan"]_vars

\* A hook compares connect_num with limit_num after it has dropped the lock
\* and before its request is served.  Each CPU can hold one such outdated
\* comparison, so the list outgrows the limit by at most one node per CPU.
BoundedOvershoot == Len(list) <= MaxLimit + Cardinality(Cpus)

\* The thread decides to replace a node only when no ARP packet of the
\* node's MAC was credited since the flag was armed for it, however the
\* hooks' loads and stores of the flag interleave with the probe loop.
EvictOnlySilent ==
  [][tpc = "verdict" /\ tpc' = "alloc" => list[pos]["mac"] \notin answered]_vars

\* A parked thread overlooks a filled mailbox only when the wake-up is still
\* to come, or came in the window between the release of the mailbox and
\* set_current_state: no other interleaving loses a request's wake-up.
OversleepsOnlyByEarlyWake ==
  tpc = "sched" /\ tstate = "D" /\ flag # "NO_ADD_TASK" =>
    early \/ \E c \in Cpus : pc[c] = "wake"

\* With a single CPU running net_hook_func the mailbox is a correct handoff:
\* every node on the list carries the IP and the MAC of one terminal.
NodesIntact ==
  Cardinality(Cpus) = 1 => \A k \in DOMAIN list : list[k]["ip"] = list[k]["mac"]

\* The comment in net_hook_func: while the list is not full the MAC address
\* is added to the list, so a request put in the mailbox is taken out of it.
RequestServed == flag = "ADD_IMMEDIATE" ~> flag # "ADD_IMMEDIATE"
=============================================================================
