----------------------------- MODULE SpeedTest -----------------------------
(***************************************************************************)
(* lab/net/speedtest: a command written to /proc/net/speedtest stops the   *)
(* test that runs and starts another: one sender thread per direction and  *)
(* a compute thread that takes the packets which come back.  Threads clear *)
(* their own task pointers when they end; commands read them.              *)
(*                                                                         *)
(* One process writes commands.  Time is left out: a test may end by       *)
(* itself at any moment after its start.  Commands and threads store to    *)
(* st_ready, the timer and the receive hook but read none of them; who     *)
(* reads them is in SpeedTestDetect, and the packets are in                *)
(* SpeedTestTraffic.                                                       *)
(* The bound is Gens: kthread_create waits while all names are in use.     *)
(***************************************************************************)
EXTENDS Naturals

CONSTANTS
  N,       (* SPEEDTEST_TASK_NUM                                           *)
  Gens,    (* names for the threads of one slot that exist together        *)
  Enables, (* the enable and st_loop_timer_enable of the commands given    *)
  Loops,
  Faulty,  (* calls that may fail: "kthread_create", "make_speedtest_pkt"  *)
  NULL, ERR

Dirs  == 0 .. N - 1
Comp  == N
Slots == 0 .. N            \* one task pointer per direction, and compute_task
Threads == Slots \X Gens
Slot(t) == t[1]

ASSUME Directions == N \in Nat \ {0}
ASSUME CommandInputs == Enables \subseteq 0..1 /\ Loops \subseteq 0..1
ASSUME BadPointers == NULL \notin Threads /\ ERR \notin Threads /\ NULL # ERR

VARIABLES
  pc,        (* of each thread; "gone" before its creation and after its end *)
  stop,      (* kthread_stop has been called for it                        *)
  self,      (* it left its loop without being told to                     *)
  task,      (* st_cfg[i].task and compute_task                            *)
  enable,    (* st_cfg[i].enable                                           *)
  state,     (* st_cfg[i].status.state                                     *)
  rx,        (* hs_speedtest_rx_hook                                       *)
  ready,     (* st_ready, as a set of directions                           *)
  timer,     (* loop_detect_timer                                          *)
  loop,      (* st_loop_timer_enable                                       *)
  cpc, ci,   (* where the command is, and its i                            *)
  kpc,       (* in a stopping loop: "test", "call" kthread_stop, "wait"    *)
  victim,    (* the thread kthread_stop waits for                          *)
  flag,      (* task_run_flag                                              *)
  calm,      (* history: nothing came in between, see Calm                 *)
  fault      (* what was done to a bad pointer ends the behaviour          *)

threads == <<pc, stop, self>>
shared  == <<task, enable, state, rx, ready, timer, loop>>
command == <<cpc, ci, kpc, victim, flag>>
vars == <<threads, shared, command, calm, fault>>

Senders == {t \in Threads : Slot(t) \in Dirs}
Counters == {t \in Threads : Slot(t) = Comp}
Live == {"new", "make", "send", "look", "linger"}

\* The static data, with h in the receive hook and the timer at m.
Start(h, m) ==
  /\ pc = [t \in Threads |-> "gone"]
  /\ stop = [t \in Threads |-> FALSE] /\ self = [t \in Threads |-> FALSE]
  /\ task = [s \in Slots |-> NULL]
  /\ enable = [i \in Dirs |-> 0] /\ state = [i \in Dirs |-> "IDLE"]
  /\ rx = h /\ ready = {} /\ timer = m /\ loop = 1
  /\ cpc = "idle" /\ ci = 0 /\ kpc = "test" /\ victim = NULL /\ flag = FALSE
  /\ calm = TRUE /\ fault = "none"

\* The module is loaded.
Init == Start("probe", "pending")

Running == \E i \in Dirs : task[i] # NULL

\* The pointers are all clear, or all of them belong to threads at work.
Calm ==
  /\ \/ \A i \in Dirs : task[i] = NULL
     \/ \A i \in Dirs : task[i] \in Threads /\ pc[task[i]] \in Live
  /\ task[Comp] # NULL => task[Comp] \in Threads /\ pc[task[Comp]] \in Live

Goto(t, l) == pc' = [pc EXCEPT ![t] = l]
Ends(t) ==
  /\ Goto(t, "gone")
  /\ stop' = [stop EXCEPT ![t] = FALSE] /\ self' = [self EXCEPT ![t] = FALSE]
At(l) == cpc = l /\ fault = "none"

-----------------------------------------------------------------------------
(* run_speedtest_by_cmd                                                    *)

\* A malformed command has stored its numbers in st_cfg[0] when it is rejected.
CmdRejected(e) ==
  /\ At("idle")
  /\ enable' = [enable EXCEPT ![0] = e]
  /\ UNCHANGED <<threads, task, state, rx, ready, timer, loop, command, calm, fault>>

CmdParse(e, l) ==
  /\ At("idle")
  /\ enable' = [i \in Dirs |-> e] /\ loop' = l
  /\ cpc' = "stop" /\ ci' = 0 /\ flag' = FALSE
  /\ calm' = Calm
  /\ UNCHANGED <<threads, task, state, rx, ready, timer, kpc, victim, fault>>

\* Where each of the three stopping loops goes when it is through.
After == [stop |-> "create", undo |-> "idle", stopcomp |-> "compute"]
Last  == [stop |-> N - 1, undo |-> N - 1, stopcomp |-> Comp]

\* while (task) ...
StopNextIf(clear) ==
  /\ \E l \in DOMAIN After :
       /\ At(l) /\ kpc = "test" /\ clear
       /\ IF ci = Last[l] THEN cpc' = After[l] /\ ci' = 0 ELSE cpc' = l /\ ci' = ci + 1
  /\ UNCHANGED <<threads, shared, kpc, victim, flag, calm, fault>>

StopNext_once == StopNextIf(TRUE)
StopNext == StopNextIf(task[ci] = NULL)

StopTest ==
  /\ cpc \in DOMAIN After /\ fault = "none" /\ kpc = "test" /\ task[ci] # NULL
  /\ kpc' = "call"
  /\ UNCHANGED <<threads, shared, cpc, ci, victim, flag, calm, fault>>

\* ... kthread_stop(task): the pointer is loaded again.
StopBadPointer ==
  /\ kpc = "call" /\ fault = "none"
  /\ task[ci] \in Threads => pc[task[ci]] = "gone"
  /\ fault' = "kthread_stop"
  /\ UNCHANGED <<threads, shared, command, calm>>

\* A thread that never ran ends without running its function.
StopCall ==
  /\ kpc = "call" /\ fault = "none"
  /\ task[ci] \in Threads /\ pc[task[ci]] # "gone"
  /\ kpc' = "wait" /\ victim' = task[ci]
  /\ IF pc[task[ci]] = "new"
       THEN Goto(task[ci], "gone") /\ stop' = stop
       ELSE pc' = pc /\ stop' = [stop EXCEPT ![task[ci]] = TRUE]
  /\ UNCHANGED <<self, shared, cpc, ci, flag, calm, fault>>

StopReturns ==
  /\ kpc = "wait" /\ pc[victim] = "gone" /\ fault = "none"
  /\ kpc' = "test" /\ victim' = NULL
  /\ UNCHANGED <<threads, shared, cpc, ci, flag, calm, fault>>

Create(s, t) ==
  /\ Slot(t) = s /\ pc[t] = "gone"
  /\ task' = [task EXCEPT ![s] = t]
  /\ Goto(t, "new")
  /\ UNCHANGED <<stop, self>>

CreateFails(s) ==
  /\ "kthread_create" \in Faulty
  /\ task' = [task EXCEPT ![s] = ERR]
  /\ calm' = FALSE
  /\ UNCHANGED threads

NextDir == IF ci = N - 1 THEN cpc' = "created" /\ ci' = 0 ELSE cpc' = cpc /\ ci' = ci + 1

SkipSender ==
  /\ At("create") /\ enable[ci] = 0
  /\ NextDir
  /\ UNCHANGED <<threads, shared, kpc, victim, flag, calm, fault>>

CreateSender ==
  /\ At("create") /\ enable[ci] # 0
  /\ state' = [state EXCEPT ![ci] = "IDLE"]
  /\ \E t \in Threads : Create(ci, t)
  /\ NextDir /\ flag' = TRUE
  /\ UNCHANGED <<enable, rx, ready, timer, loop, kpc, victim, calm, fault>>

CreateSenderFails ==
  /\ At("create") /\ enable[ci] # 0
  /\ state' = [state EXCEPT ![ci] = "IDLE"]
  /\ CreateFails(ci)
  /\ cpc' = "idle"
  /\ UNCHANGED <<enable, rx, ready, timer, loop, ci, kpc, victim, flag, fault>>

\* if (task_run_flag)
HookFast ==
  /\ At("created")
  /\ IF flag THEN rx' = "fast" /\ cpc' = "reset" ELSE rx' = rx /\ cpc' = "idle"
  /\ UNCHANGED <<threads, task, enable, state, ready, timer, loop, ci, kpc, victim, flag, calm, fault>>

ResetReadyTo(r) ==
  /\ At("reset")
  /\ ready' = r
  /\ cpc' = "stopcomp" /\ ci' = Comp
  /\ UNCHANGED <<threads, task, enable, state, rx, timer, loop, kpc, victim, flag, calm, fault>>

ResetReady_missing == ResetReadyTo(ready)
ResetReady == ResetReadyTo({})

CreateCounter ==
  /\ At("compute")
  /\ \E t \in Threads : Create(Comp, t)
  /\ cpc' = "wakecomp"
  /\ UNCHANGED <<enable, state, rx, ready, timer, loop, ci, kpc, victim, flag, calm, fault>>

CreateCounterFails ==
  /\ At("compute")
  /\ CreateFails(Comp)
  /\ cpc' = "undo"
  /\ UNCHANGED <<enable, state, rx, ready, timer, loop, ci, kpc, victim, flag, fault>>

WakeCounter ==
  /\ At("wakecomp")
  /\ Goto(task[Comp], "look")
  /\ cpc' = "wake"
  /\ UNCHANGED <<stop, self, shared, ci, kpc, victim, flag, calm, fault>>

\* start_allspeedtest_task looks at no enable.
WakeSenderUpTo(last) ==
  /\ At("wake") /\ task[ci] # NULL
  /\ Goto(task[ci], "make")
  /\ IF ci = last THEN cpc' = "idle" /\ ci' = 0 ELSE cpc' = cpc /\ ci' = ci + 1
  /\ UNCHANGED <<stop, self, shared, kpc, victim, flag, calm, fault>>

WakeSender_oneMore == WakeSenderUpTo(N)
WakeSender == WakeSenderUpTo(N - 1)

WakeNobody ==
  /\ At("wake") /\ task[ci] = NULL
  /\ fault' = "wake_up_process"
  /\ UNCHANGED <<threads, shared, command, calm>>
-----------------------------------------------------------------------------
(* The threads.                                                            *)

\* A thread that ends by itself during a command is what the command may
\* stumble over.
Disturb(t) == calm' = (calm /\ ~(self[t] /\ cpc # "idle"))

\* speedtest_thread_func
SenderFails(t) ==
  /\ pc[t] = "make" /\ fault = "none" /\ "make_speedtest_pkt" \in Faulty
  /\ Ends(t)
  /\ calm' = FALSE
  /\ UNCHANGED <<shared, command, fault>>

SenderStarts(t) ==
  /\ pc[t] = "make" /\ fault = "none"
  /\ state' = [state EXCEPT ![Slot(t)] = "RUNNING"]
  /\ Goto(t, "send")
  /\ UNCHANGED <<stop, self, task, enable, rx, ready, timer, loop, command, calm, fault>>

\* kthread_should_stop() || end_time < jiffies
SenderLeaves(t) ==
  /\ pc[t] = "send" /\ fault = "none"
  /\ Goto(t, "clear")
  /\ self' = [self EXCEPT ![t] = ~stop[t]]
  /\ UNCHANGED <<stop, shared, command, calm, fault>>

SenderClearTo(t, p) ==
  /\ pc[t] = "clear" /\ t \in Senders /\ fault = "none"
  /\ task' = [task EXCEPT ![Slot(t)] = p]
  /\ Goto(t, "off")
  /\ Disturb(t)
  /\ UNCHANGED <<stop, self, enable, state, rx, ready, timer, loop, command, fault>>

SenderClear_missing(t) == SenderClearTo(t, task[Slot(t)])
SenderClear(t) == SenderClearTo(t, NULL)

SenderOff(t) ==
  /\ pc[t] = "off" /\ fault = "none"
  /\ enable' = [enable EXCEPT ![Slot(t)] = 0]
  /\ Goto(t, "end")
  /\ Disturb(t)
  /\ UNCHANGED <<stop, self, task, state, rx, ready, timer, loop, command, fault>>

\* status.end_time
SenderEnd(t) ==
  /\ pc[t] = "end" /\ fault = "none"
  /\ Ends(t)
  /\ UNCHANGED <<shared, command, calm, fault>>

\* speedtest_compute_func: one pass of its loop, which ends when it is told
\* to stop or has found no sender for five seconds.
CountOn(t) ==
  /\ pc[t] \in {"look", "linger"} /\ ~stop[t] /\ fault = "none"
  /\ Goto(t, IF Running THEN "look" ELSE "linger")
  /\ UNCHANGED <<stop, self, shared, command, calm, fault>>

CountStoppedIf(t, stopped) ==
  /\ pc[t] \in {"look", "linger"} /\ stopped /\ fault = "none"
  /\ Goto(t, "clear")
  /\ UNCHANGED <<stop, self, shared, command, calm, fault>>

CountStopped_onlyWhenQuiet(t) == CountStoppedIf(t, stop[t] /\ ~Running)
CountStopped(t) == CountStoppedIf(t, stop[t])

CountOver(t) ==
  /\ pc[t] = "linger" /\ ~stop[t] /\ ~Running /\ fault = "none"
  /\ Goto(t, "clear")
  /\ self' = [self EXCEPT ![t] = TRUE]
  /\ UNCHANGED <<stop, shared, command, calm, fault>>

CounterClear(t) ==
  /\ pc[t] = "clear" /\ t \in Counters /\ fault = "none"
  /\ task' = [task EXCEPT ![Comp] = NULL]
  /\ Goto(t, "hook")
  /\ Disturb(t)
  /\ UNCHANGED <<stop, self, enable, state, rx, ready, timer, loop, command, fault>>

CounterHookTo(t, h) ==
  /\ pc[t] = "hook" /\ fault = "none"
  /\ rx' = h
  /\ Goto(t, "ready")
  /\ UNCHANGED <<stop, self, task, enable, state, ready, timer, loop, command, calm, fault>>

CounterHook_missing(t) == CounterHookTo(t, rx)
CounterHook(t) == CounterHookTo(t, "probe")

\* if (st_loop_timer_enable): st_ready = 0, then init_timer, whatever the
\* timer does at the moment, and mod_timer.
CounterReady(t) ==
  /\ pc[t] = "ready" /\ fault = "none"
  /\ IF loop # 0 THEN ready' = {} /\ Goto(t, "timer") ELSE ready' = ready /\ Goto(t, "finish")
  /\ UNCHANGED <<stop, self, task, enable, state, rx, timer, loop, command, calm, fault>>

CounterTimer(t) ==
  /\ pc[t] = "timer" /\ fault = "none"
  /\ timer' = IF timer = "idle" THEN "pending" ELSE "corrupt"
  /\ Goto(t, "finish")
  /\ UNCHANGED <<stop, self, task, enable, state, rx, ready, loop, command, calm, fault>>

CounterFinish(t) ==
  /\ pc[t] = "finish" /\ fault = "none"
  /\ state' = [i \in Dirs |-> "FINISHED"]
  /\ Ends(t)
  /\ UNCHANGED <<task, enable, rx, ready, timer, loop, command, calm, fault>>
-----------------------------------------------------------------------------
CmdStep ==
  \/ StopNext \/ StopTest \/ StopBadPointer \/ StopCall \/ StopReturns
  \/ SkipSender \/ CreateSender \/ CreateSenderFails
  \/ HookFast \/ ResetReady
  \/ CreateCounter \/ CreateCounterFails
  \/ WakeCounter \/ WakeSender \/ WakeNobody

SenderStep(t) ==
  \/ SenderFails(t) \/ SenderStarts(t) \/ SenderLeaves(t) \/ SenderClear(t) \/ SenderOff(t)
  \/ SenderEnd(t)

\* The compute thread after its loop.
CounterEnds(t) ==
  CounterClear(t) \/ CounterHook(t) \/ CounterReady(t) \/ CounterTimer(t) \/ CounterFinish(t)

CounterStep(t) == CountOn(t) \/ CountStopped(t) \/ CountOver(t) \/ CounterEnds(t)

Next ==
  \/ \E e \in Enables, l \in Loops : CmdParse(e, l)
  \/ \E e \in Enables : CmdRejected(e)
  \/ CmdStep
  \/ \E t \in Senders : SenderStep(t)
  \/ \E t \in Counters : CounterStep(t)

Spec == Init /\ [][Next]_vars

-----------------------------------------------------------------------------
SenderPcs  == {"gone", "new", "make", "send", "clear", "off", "end"}
CounterPcs == {"gone", "new", "look", "linger", "clear", "hook", "ready", "timer", "finish"}
Pointers == Threads \cup {NULL, ERR}

\* Two values only SpeedTestDetect comes to: no hook while the module is not
\* in, and a probe cloned from no frame.
Hooks  == {"null", "probe", "fast"}
Faults == {"none", "kthread_stop", "wake_up_process", "skb_clone"}

TypeOK ==
  /\ pc \in [Threads -> SenderPcs \cup CounterPcs]
  /\ \A t \in Senders : pc[t] \in SenderPcs
  /\ \A t \in Counters : pc[t] \in CounterPcs
  /\ stop \in [Threads -> BOOLEAN] /\ self \in [Threads -> BOOLEAN]
  /\ task \in [Slots -> Pointers] /\ enable \in [Dirs -> 0..1]
  /\ state \in [Dirs -> {"IDLE", "RUNNING", "FINISHED"}]
  /\ rx \in Hooks /\ ready \subseteq Dirs
  /\ timer \in {"idle", "pending", "corrupt"} /\ loop \in 0..1
  /\ cpc \in {"idle", "stop", "create", "created", "reset", "stopcomp", "compute", "undo", "wakecomp", "wake"}
  /\ ci \in Slots /\ kpc \in {"test", "call", "wait"} /\ victim \in Threads \cup {NULL}
  /\ flag \in BOOLEAN /\ calm \in BOOLEAN
  /\ fault \in Faults

\* However commands and ends of tests interleave, a direction has one sender
\* and a test one compute thread: an old one may at most be on its way out.
OneThreadPerSlot ==
  \A t, u \in Threads : Slot(t) = Slot(u) /\ pc[t] \in Live /\ pc[u] \in Live => t = u

\* A command stumbles over a bad pointer only when a test ends by itself
\* during it, has ended in one direction only, or something failed.
SafeWhenCalm == calm => fault = "none"

\* When the last thread of a test has gone the probe handler is installed
\* again and no direction looks as if it were running.
QuietAtRest ==
  cpc = "idle" /\ fault = "none" /\ task[Comp] = NULL /\ (\A t \in Threads : pc[t] = "gone") =>
    rx = "probe" /\ \A i \in Dirs : state[i] # "RUNNING"

\* speedtest.c:607 "run speedtest stask": a command with enable 1 starts a test.
CommandStartsTest ==
  [][cpc = "created" /\ cpc' = "idle" => 0 \in Enables]_vars

\* speedtest.c:547 "stop old compute thread": it has no part in the new test,
\* whose packets go to the handler that counts them.
TestIsCounted ==
  cpc = "idle" /\ fault = "none" /\ (\E t \in Senders : pc[t] = "send")
    /\ (\E t \in Counters : pc[t] = "look") => rx = "fast"
=============================================================================
