--------------------------- MODULE MacLimitModule ---------------------------
(***************************************************************************)
(* nf_init and nf_cleanup of dirver/maclimit/maclimit.c around MacLimit:   *)
(* the proc file, the hooks and the thread come and go one by one, while   *)
(* packets arrive and the proc file is written.                            *)
(*                                                                         *)
(* The kernel's part: nf_unregister_hooks and remove_proc_entry wait for   *)
(* the handlers in flight; kthread_create leaves the thread waiting for    *)
(* its first wake-up; kthread_stop sets should_stop, wakes the thread and  *)
(* waits for it to exit.                                                   *)
(***************************************************************************)
EXTENDS MacLimit

VARIABLES
  life,    (* where nf_init or nf_cleanup is                               *)
  proc,    (* /proc/net/netfilter/maclimit exists                          *)
  hooked,  (* nfhos is registered                                          *)
  task,    (* limit_check_task: "null", "err" (an ERR_PTR) or "task"       *)
  fault    (* the kernel error that ended the behaviour, or "none"         *)

modVars == <<life, proc, hooked, task, fault>>
mvars == <<vars, modVars>>

MInit ==
  /\ Start("unborn", "D")
  /\ life = "begin" /\ proc = FALSE /\ hooked = FALSE /\ task = "null"
  /\ fault = "none"

\* Nothing of the module runs any more after a kernel error.
Alive == fault = "none"

At(l) == Alive /\ life = l
Enter(l) == life' = l

-----------------------------------------------------------------------------
(* nf_init.                                                                *)

ProcCreate ==
  /\ At("begin")
  /\ \/ proc' = TRUE /\ Enter("proc")
     \/ Enter("undo_proc") /\ UNCHANGED proc
  /\ UNCHANGED <<vars, hooked, task, fault>>

\* After an error nf_register_hooks has registered nothing, and the cleanup
\* label unregisters the hooks once more.
RegisterHooks ==
  /\ At("proc")
  /\ \/ hooked' = TRUE /\ Enter("hooked")
     \/ Enter("undo_hook") /\ UNCHANGED hooked
  /\ UNCHANGED <<vars, proc, task, fault>>

KthreadCreateElse(undo) ==
  /\ At("hooked")
  /\ \/ task' = "task" /\ Enter("created")
     \/ task' = "err" /\ Enter(undo)
  /\ UNCHANGED <<vars, proc, hooked, fault>>

KthreadCreate_keepHooks == KthreadCreateElse("undo_proc")
KthreadCreate == KthreadCreateElse("undo_hook")

\* rwlock_init makes the lock free, whoever holds it.
RwlockInit ==
  /\ At("created")
  /\ readers' = {} /\ writer' = FALSE
  /\ Enter("locked")
  /\ UNCHANGED <<list, cfgVars, mailVars, hookVars, thVars, histVars, proc, hooked, task, fault>>

FirstWake ==
  /\ At("locked")
  /\ tstate' = "R" /\ early' = (early \/ tpc = "unparked")
  /\ Enter("loaded")
  /\ UNCHANGED <<tableVars, cfgVars, mailVars, hookVars, tpc, should_stop, pos, tries, new,
                 answered, proc, hooked, task, fault>>

-----------------------------------------------------------------------------
(* The cleanup labels of nf_init and nf_cleanup share these two calls.     *)

\* nf_unregister_hooks: no new hook starts; go on when none is running.
\* Taking hooks off the chain that are not on it corrupts the chain or only
\* warns, depending on the kernel.
Unhook(from, to) ==
  /\ At(from)
  /\ hooked' = FALSE
  /\ Enter(to)
  /\ fault' \in (IF hooked THEN {"none"} ELSE {"none", "unhook"})
  /\ UNCHANGED <<vars, proc, task>>

Drained(from, to) ==
  /\ At(from) /\ \A c \in Cpus : pc[c] = "idle"
  /\ Enter(to)
  /\ UNCHANGED <<vars, proc, hooked, task, fault>>

RemoveProc(from, to) ==
  /\ At(from)
  /\ proc' = FALSE
  /\ Enter(to)
  /\ UNCHANGED <<vars, hooked, task, fault>>

\* nf_init returns status, which is an error code after a failure of
\* proc_create or nf_register_hooks and still 0 after one of kthread_create.
InitFails ==
  \/ Unhook("undo_hook", "undo_wait")
  \/ Drained("undo_wait", "undo_proc")
  \/ RemoveProc("undo_proc", IF task = "err" THEN "loaded" ELSE "failed")

InitStep ==
  \/ ProcCreate \/ RegisterHooks \/ KthreadCreate \/ RwlockInit \/ FirstWake
  \/ InitFails

-----------------------------------------------------------------------------
(* nf_cleanup.                                                             *)

\* kthread_stop, entered only when limit_check_task is no ERR_PTR ...
Stop ==
  /\ At("loaded") /\ task # "err"
  /\ should_stop' = TRUE /\ tstate' = "R" /\ early' = (early \/ tpc = "unparked")
  /\ Enter("stopping")
  /\ UNCHANGED <<tableVars, cfgVars, mailVars, hookVars, tpc, pos, tries, new, answered,
                 proc, hooked, task, fault>>

SkipStop ==
  /\ At("loaded") /\ task = "err"
  /\ Enter("stopped")
  /\ UNCHANGED <<vars, proc, hooked, task, fault>>

\* ... returns when the thread has exited; limit_check_task = NULL.
Stopped ==
  /\ At("stopping") /\ tpc = "exited"
  /\ task' = "null"
  /\ Enter("stopped")
  /\ UNCHANGED <<vars, proc, hooked, fault>>

\* kfree of every node; then the module's code and data go away.
FreeListIf(done) ==
  /\ done
  /\ list' = <<>>
  /\ Enter("gone")
  /\ UNCHANGED <<readers, writer, cfgVars, mailVars, hookVars, thVars, histVars,
                 proc, hooked, task, fault>>

FreeList_beforeUnhook == FreeListIf(At("unproc"))
FreeList == FreeListIf(At("drained"))

Rmmod == Stop \/ SkipStop

CleanupStep ==
  \/ Stopped
  \/ RemoveProc("stopped", "unproc")
  \/ Unhook("unproc", "draining")
  \/ Drained("draining", "drained")
  \/ FreeList

-----------------------------------------------------------------------------
(* Hooks and thread inside that frame.                                     *)

\* limit_check_func returns 0.
ThreadExit ==
  /\ Alive /\ tpc = "top" /\ should_stop
  /\ TGoto("exited")
  /\ UNCHANGED <<tableVars, cfgVars, mailVars, hookVars, tstate, should_stop, pos, tries, new,
                 histVars, modVars>>

\* The new thread runs once somebody wakes it; it skips limit_check_func
\* when it has to stop already.
ThreadBorn ==
  /\ Alive /\ tpc = "unborn" /\ tstate = "R"
  /\ TGoto(IF should_stop THEN "exited" ELSE "top")
  /\ UNCHANGED <<tableVars, cfgVars, mailVars, hookVars, tstate, should_stop, pos, tries, new,
                 histVars, modVars>>

\* read_unlock or write_unlock of a lock that rwlock_init reset meanwhile.
ReadUnlockReset(c) ==
  /\ Alive /\ pc[c] = "scan" /\ c \notin readers
  /\ fault' = "lock"
  /\ UNCHANGED <<vars, life, proc, hooked, task>>

WriteUnlockReset ==
  /\ Alive /\ tpc = "insert" /\ ~writer
  /\ fault' = "lock"
  /\ UNCHANGED <<vars, life, proc, hooked, task>>

\* wake_up_process of NULL, of an ERR_PTR, or of a task that may be freed.
WakeNobody(c) ==
  /\ Alive /\ pc[c] = "wake" /\ (task # "task" \/ tpc = "exited")
  /\ fault' = "wake"
  /\ UNCHANGED <<vars, life, proc, hooked, task>>

\* The exited task is not freed yet: nothing happens.
WakeDead(c) ==
  /\ Alive /\ pc[c] = "wake" /\ task = "task" /\ tpc = "exited"
  /\ Return(c)
  /\ UNCHANGED <<tableVars, cfgVars, mailVars, thVars, histVars, modVars>>

WakeThread(c) ==
  /\ Alive /\ task = "task" /\ tpc # "exited"
  /\ Wake(c)
  /\ UNCHANGED modVars

HookRuns(c) ==
  /\ Alive /\ (pc[c] = "scan" => c \in readers)
  /\ HookStep(c)
  /\ UNCHANGED modVars

HookInModule(c) ==
  HookRuns(c) \/ ReadUnlockReset(c) \/ WakeThread(c) \/ WakeNobody(c) \/ WakeDead(c)

ThreadRuns ==
  /\ Alive /\ (tpc = "insert" => writer)
  /\ ThreadStep
  /\ UNCHANGED modVars

ThreadInModule == ThreadBorn \/ ThreadRuns \/ WriteUnlockReset \/ ThreadExit

TimerFires == Alive /\ ProbeTimeout /\ UNCHANGED modVars

PacketIn(c, t) ==
  /\ Alive /\ hooked
  /\ NetIn(c, t) \/ ArpIn(c, t)
  /\ UNCHANGED modVars

ProcWrite ==
  /\ Alive /\ proc
  /\ (\E l \in Limits : SetLimit(l)) \/ (\E e \in BOOLEAN : SetEnable(e))
  /\ UNCHANGED modVars

MNext ==
  \/ InitStep \/ Rmmod \/ CleanupStep
  \/ \E c \in Cpus, t \in Terminals : PacketIn(c, t)
  \/ ProcWrite
  \/ \E c \in Cpus : HookInModule(c)
  \/ ThreadInModule
  \/ TimerFires

MSpec == MInit /\ [][MNext]_mvars

\* insmod and rmmod, once called, get CPU time like everybody else; nobody
\* has to call rmmod, to send packets or to write the proc file.
MFairness ==
  /\ WF_mvars(InitStep) /\ WF_mvars(CleanupStep)
  /\ \A c \in Cpus : WF_mvars(HookInModule(c))
  /\ WF_mvars(ThreadInModule) /\ SF_mvars(WriteLock /\ ThreadRuns)
  /\ WF_mvars(TimerFires)

MFairSpec == MSpec /\ MFairness
-----------------------------------------------------------------------------
Leaving  == {"stopping", "stopped", "unproc", "draining", "drained"}

\* A hook calls wake_up_process on a task that does not exist only while
\* nf_init has registered the hooks and not yet created the thread, or while
\* nf_cleanup has stopped the thread and not yet unregistered the hooks;
\* never while the module is loaded, even when nf_init had failed half-way.
WakeSafeWhileLoaded ==
  fault = "wake" => life \in {"hooked", "undo_hook", "undo_wait"} \cup Leaving

\* When insmod has failed or rmmod has returned, nothing refers to the
\* module: no hook runs or can start, no proc file, and no thread.
NothingOutlivesModule ==
  life \in {"failed", "gone"} =>
    /\ ~hooked /\ ~proc
    /\ \A c \in Cpus : pc[c] = "idle"
    /\ tpc = "exited" \/ (task # "task" /\ tpc = "unborn")

\* rmmod returns (or a hook crashes meanwhile) whenever kthread_stop, or a
\* late packet, wakes the thread out of its schedule().
UnloadOfParkedThread ==
  (life = "stopping" /\ tpc = "sched" /\ tstate = "R") ~> (life = "gone" \/ fault # "none")

\* A round of ARP checks ends and the thread gets back to its schedule(),
\* whatever the hooks do to the flag meanwhile and whether nf_cleanup has come
\* to stop it or not.
RoundEndsInModule == tpc = "check" ~> (tpc = "sched" \/ fault # "none")
=============================================================================
