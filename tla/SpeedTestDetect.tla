-------------------------- MODULE SpeedTestDetect --------------------------
(***************************************************************************)
(* SpeedTest from insmod to rmmod, with the detection of the loops: a      *)
(* timer callback sends one probe per direction, the receive hook notes    *)
(* the probes that come back in st_ready and stops the timer when it has   *)
(* seen them all.  Callback, hook, threads and commands run on different   *)
(* CPUs; one frame is received at a time, and frames may be lost.          *)
(*                                                                         *)
(* Time passes in ticks, and only when all that can run has run: PERIOD    *)
(* and LINGER are the two and five seconds of the code.  One process       *)
(* inserts the module, gives commands and removes it, as speedtest.sh.     *)
(* Packets of a test do not get into the wire of probes.                   *)
(***************************************************************************)
EXTENDS SpeedTest

CONSTANTS PERIOD, LINGER

ASSUME CallbackComesFirst == PERIOD \in Nat \ {0} /\ LINGER \in Nat /\ PERIOD < LINGER

VARIABLES
  life,      (* of the module                                              *)
  tx,        (* hs_speedtest_tx_hook                                       *)
  cb, cbi,   (* where speedtest_loop_detect_cb is, and its i               *)
  armed,     (* ready_endtime # 0                                          *)
  due, left, (* ticks to the timer, and to the end of the compute thread   *)
  hk, got,   (* where rcv_speedtest_probe_pkt is, and what it will store   *)
  wire,      (* directions with a probe under way                          *)
  heard,     (* history: probes noted since a test began or ended          *)
  torn,      (* history: that happened between load and store of the hook  *)
  erased,    (* history: st_ready was cleared when del_timer_sync was due  *)
  detecting, (* history: the last to decide wanted the loops detected      *)
  patient,   (* history: no test was started while another was ending      *)
  counted    (* history: the unloading met a compute thread                *)

hook    == <<hk, got>>
callback == <<cb, cbi, armed>>
time    == <<due, left>>
history == <<heard, torn, erased, detecting, patient, counted>>
dvars == <<vars, life, tx, callback, time, hook, wire, history>>

Alive == fault = "none" /\ timer # "corrupt" /\ life \notin {"failed", "gone"}

\* is_speedtest_task_running
Busy == task[Comp] # NULL \/ Running

\* A frame of another program that leaves by device d, of eth_lan, other or none.
Passes(d) ==
  tx = "xmit" => ready # Dirs /\ ~Busy /\ (loop = 0 => d # "other")

DInit ==
  /\ Start("null", "idle")
  /\ life = "new" /\ tx = "null"
  /\ cb = "idle" /\ cbi = 0 /\ armed = FALSE
  /\ due = 0 /\ left = 0
  /\ hk = "idle" /\ got = {} /\ wire = {}
  /\ heard = {} /\ torn = FALSE /\ erased = FALSE
  /\ detecting = FALSE /\ patient = TRUE /\ counted = FALSE

\* What it means to somebody else that st_ready is cleared.
Erase == erased' = (erased \/ hk = "del")
\* mod_timer
Arm ==
  /\ due' = PERIOD
  /\ erased' = (erased /\ hk = "del")
-----------------------------------------------------------------------------
(* speedtest_init_module and speedtest_exit_module                         *)

LoadFails ==
  /\ life = "new" /\ "kmalloc" \in Faulty
  /\ life' = "failed"
  /\ UNCHANGED <<vars, tx, callback, time, hook, wire, history>>

LoadHooks ==
  /\ life = "new"
  /\ rx' = "probe" /\ tx' = "xmit" /\ life' = "hooked"
  /\ UNCHANGED <<threads, task, enable, state, ready, timer, loop, command, calm, fault,
                 callback, time, hook, wire, history>>

LoadTimer ==
  /\ life = "hooked" /\ timer = "idle"
  /\ timer' = "pending" /\ Arm
  /\ detecting' = TRUE /\ life' = "loaded"
  /\ UNCHANGED <<threads, task, enable, state, rx, ready, loop, command, calm, fault, tx,
                 callback, left, hook, wire, heard, torn, patient, counted>>

Rmmod ==
  /\ life = "loaded" /\ cpc = "idle" /\ Alive
  /\ life' = "deltimer"
  /\ UNCHANGED <<vars, tx, callback, time, hook, wire, history>>

\* del_timer_sync waits for the callback, which may have set the timer again.
UnloadTimer ==
  /\ life = "deltimer" /\ cb = "idle" /\ Alive
  /\ timer' = "idle" /\ due' = 0
  /\ cpc' = "undo" /\ ci' = 0 /\ life' = "stopping"
  /\ counted' = \E t \in Counters : pc[t] # "gone"
  /\ UNCHANGED <<threads, task, enable, state, rx, ready, loop, kpc, victim, flag, calm, fault, tx,
                 callback, left, hook, wire, heard, torn, erased, detecting, patient>>

UnloadCounterBy(l) ==
  /\ life = "stopping" /\ cpc = "idle" /\ Alive
  /\ cpc' = l /\ ci' = Comp /\ life' = "counter"
  /\ UNCHANGED <<threads, shared, kpc, victim, flag, calm, fault, tx, callback, time, hook, wire, history>>

UnloadCounter_missing == UnloadCounterBy("compute")
UnloadCounter == UnloadCounterBy("stopcomp")

UnloadHooksAt(l, c) ==
  /\ life = l /\ cpc = c /\ Alive
  /\ rx' = "null" /\ tx' = "null" /\ life' = "gone"
  /\ UNCHANGED <<threads, task, enable, state, ready, timer, loop, command, calm, fault,
                 callback, time, hook, wire, history>>

UnloadHooks_tooEarly == UnloadHooksAt("stopping", "undo")
UnloadHooks == UnloadHooksAt("counter", "compute")

UnloadStep == UnloadTimer \/ UnloadCounter \/ UnloadHooks
-----------------------------------------------------------------------------
(* Commands and threads, and what they mean for the detection.             *)

DParse(e, l) ==
  /\ life = "loaded" /\ Alive /\ CmdParse(e, l)
  /\ patient' = (patient /\ (e = 0 \/ \A t \in Threads : pc[t] = "gone"))
  /\ UNCHANGED <<life, tx, callback, time, hook, wire, heard, torn, erased, detecting, counted>>

DRejected(e) ==
  /\ life = "loaded" /\ Alive /\ CmdRejected(e)
  /\ UNCHANGED <<life, tx, callback, time, hook, wire, history>>

\* A test forgets what was heard before it.
Forget ==
  /\ heard' = {} /\ torn' = (hk = "store")
  /\ Erase

DCmd ==
  /\ Alive /\ CmdStep
  /\ cpc = "compute" => life = "loaded"
  /\ IF cpc = "reset" THEN Forget ELSE UNCHANGED <<heard, torn, erased>>
  /\ UNCHANGED <<life, tx, callback, time, hook, wire, detecting, patient, counted>>

DSender(t) ==
  /\ Alive /\ SenderStep(t)
  /\ UNCHANGED <<life, tx, callback, time, hook, wire, history>>

\* end_time is set when no sender is found, and forgotten when one is.
DCountOn(t) ==
  /\ Alive /\ CountOn(t)
  /\ left' = IF Running THEN 0 ELSE IF pc[t] = "look" THEN LINGER ELSE left
  /\ UNCHANGED <<life, tx, callback, due, hook, wire, history>>

DCountStopped(t) ==
  /\ Alive /\ CountStopped(t)
  /\ left' = 0
  /\ UNCHANGED <<life, tx, callback, due, hook, wire, history>>

DCountOver(t) ==
  /\ Alive /\ left = 0 /\ CountOver(t)
  /\ UNCHANGED <<life, tx, callback, time, hook, wire, history>>

DCountEnds(t) ==
  /\ Alive /\ CounterEnds(t)
  /\ IF pc[t] = "ready"
       THEN /\ detecting' = (loop # 0)
            /\ IF loop # 0 THEN Forget ELSE UNCHANGED <<heard, torn, erased>>
            /\ UNCHANGED due
       ELSE /\ IF pc[t] = "timer" THEN Arm ELSE UNCHANGED <<due, erased>>
            /\ UNCHANGED <<detecting, heard, torn>>
  /\ UNCHANGED <<life, tx, callback, left, hook, wire, patient, counted>>
-----------------------------------------------------------------------------
(* speedtest_loop_detect_cb                                                *)

CbFire ==
  /\ Alive /\ timer = "pending" /\ due = 0 /\ cb = "idle"
  /\ timer' = "idle" /\ cb' = "test"
  /\ UNCHANGED <<threads, task, enable, state, rx, ready, loop, command, calm, fault,
                 life, tx, cbi, armed, time, hook, wire, history>>

CbTestIf(busy) ==
  /\ Alive /\ cb = "test"
  /\ cb' = (IF busy THEN "idle" ELSE "send") /\ cbi' = 0
  /\ UNCHANGED <<vars, life, tx, armed, time, hook, wire, history>>

CbTest_missing == CbTestIf(FALSE)
CbTest == CbTestIf(Busy)

\* A frame for which there is no memory: the one of the direction before
\* goes out again, and there is none before the first.
CbSendBy(step) ==
  /\ Alive /\ cb = "send"
  /\ \/ wire' = wire \cup {cbi}
     \/ wire' = wire
     \/ "make_probe" \in Faulty /\ cbi # 0 /\ wire' = wire \cup {cbi - 1}
  /\ IF cbi + step = N THEN cb' = "look" /\ cbi' = 0 ELSE cb' = cb /\ cbi' = cbi + step
  /\ UNCHANGED <<vars, life, tx, armed, time, hook, history>>

CbSend_noIncrement == CbSendBy(0)
CbSend == CbSendBy(1)

CbSendNothing ==
  /\ Alive /\ cb = "send" /\ cbi = 0 /\ "make_probe" \in Faulty
  /\ fault' = "skb_clone"
  /\ UNCHANGED <<threads, shared, command, calm, life, tx, callback, time, hook, wire, history>>

CbLook ==
  /\ Alive /\ cb = "look"
  /\ armed' = (armed \/ ready # {}) /\ cb' = "clear"
  /\ UNCHANGED <<vars, life, tx, cbi, time, hook, wire, history>>

\* if (!ready_endtime && ready_endtime < jiffies)
CbClear ==
  /\ Alive /\ cb = "clear"
  /\ IF armed THEN ready' = ready /\ erased' = erased ELSE ready' = {} /\ Erase
  /\ cb' = "mod"
  /\ UNCHANGED <<threads, task, enable, state, rx, timer, loop, command, calm, fault,
                 life, tx, cbi, armed, time, hook, wire, heard, torn, detecting, patient, counted>>

CbModIf(again) ==
  /\ Alive /\ cb = "mod"
  /\ IF again THEN timer' = "pending" /\ Arm ELSE UNCHANGED <<timer, due, erased>>
  /\ cb' = "idle"
  /\ UNCHANGED <<threads, task, enable, state, rx, ready, loop, command, calm, fault,
                 life, tx, cbi, armed, left, hook, wire, heard, torn, detecting, patient, counted>>

CbMod_untilFirst == CbModIf(~armed)
CbMod == CbModIf(TRUE)

CbStep == CbFire \/ CbTest \/ CbSend \/ CbSendNothing \/ CbLook \/ CbClear \/ CbMod
-----------------------------------------------------------------------------
(* rcv_speedtest_probe_pkt                                                 *)

Lost(d) ==
  /\ Alive /\ d \in wire
  /\ wire' = wire \ {d}
  /\ UNCHANGED <<vars, life, tx, callback, time, hook, history>>

\* The other handler queues it for the compute thread.
RxTake(d) ==
  /\ Alive /\ d \in wire /\ hk = "idle" /\ rx = "probe" /\ ~Busy
  /\ wire' = wire \ {d}
  /\ hk' = "load" /\ got' = {d}
  /\ UNCHANGED <<vars, life, tx, callback, time, history>>

\* st_ready |= ...
RxLoad ==
  /\ Alive /\ hk = "load"
  /\ hk' = "store" /\ got' = got \cup ready
  /\ heard' = heard \cup got
  /\ UNCHANGED <<vars, life, tx, callback, time, wire, torn, erased, detecting, patient, counted>>

RxStore ==
  /\ Alive /\ hk = "store"
  /\ ready' = got
  /\ hk' = "check" /\ got' = {}
  /\ UNCHANGED <<threads, task, enable, state, rx, timer, loop, command, calm, fault,
                 life, tx, callback, time, wire, history>>

RxCheck ==
  /\ Alive /\ hk = "check"
  /\ hk' = IF ready = Dirs THEN "del" ELSE "idle"
  /\ UNCHANGED <<vars, life, tx, callback, time, got, wire, history>>

\* del_timer_sync
RxDel ==
  /\ Alive /\ hk = "del" /\ cb = "idle"
  /\ timer' = "idle" /\ due' = 0 /\ hk' = "idle"
  /\ UNCHANGED <<threads, task, enable, state, rx, ready, loop, command, calm, fault,
                 life, tx, callback, left, got, wire, history>>

RxStep == RxLoad \/ RxStore \/ RxCheck \/ RxDel
-----------------------------------------------------------------------------
(* Time passes when everybody waits for it.                                *)
Waits(t) ==
  \/ pc[t] \in {"gone", "new"}
  \/ pc[t] = "send" /\ ~stop[t]
  \/ pc[t] = "look" /\ ~stop[t] /\ Running
  \/ pc[t] = "linger" /\ ~stop[t] /\ ~Running /\ left > 0

Tick ==
  /\ Alive /\ life = "loaded" /\ cpc = "idle"
  /\ cb = "idle" /\ hk = "idle" /\ wire = {}
  /\ timer = "pending" => due > 0
  /\ \A t \in Threads : Waits(t)
  /\ due > 0 \/ left > 0
  /\ due' = (IF due = 0 THEN 0 ELSE due - 1) /\ left' = (IF left = 0 THEN 0 ELSE left - 1)
  /\ UNCHANGED <<vars, life, tx, callback, hook, wire, history>>

DNext ==
  \/ LoadFails \/ LoadHooks \/ LoadTimer
  \/ Rmmod \/ UnloadStep
  \/ \E e \in Enables, l \in Loops : DParse(e, l)
  \/ \E e \in Enables : DRejected(e)
  \/ DCmd
  \/ \E t \in Senders : DSender(t)
  \/ \E t \in Counters : DCountOn(t) \/ DCountStopped(t) \/ DCountOver(t) \/ DCountEnds(t)
  \/ CbStep
  \/ \E d \in Dirs : Lost(d) \/ RxTake(d)
  \/ RxStep
  \/ Tick

DSpec == DInit /\ [][DNext]_dvars

\* Commands that were given, threads, callback and hook get the CPU, frames
\* arrive or are lost, and time passes.
DFairSpec ==
  /\ DSpec
  /\ WF_dvars(DCmd) /\ WF_dvars(UnloadStep) /\ WF_dvars(CbStep) /\ WF_dvars(RxStep)
  /\ \A d \in Dirs : WF_dvars(Lost(d) \/ RxTake(d))
  /\ \A t \in Senders : WF_dvars(DSender(t))
  /\ \A t \in Counters :
       WF_dvars(DCountOn(t)) /\ WF_dvars(DCountStopped(t)) /\ WF_dvars(DCountOver(t)) /\ WF_dvars(DCountEnds(t))
  /\ SF_dvars(Tick)
-----------------------------------------------------------------------------
\* Whatever commands, callback and frames do at the same time, READY_<n> in
\* /proc/net/speedtest shows no probe that was heard before the last test.
ReadinessIsHeard == ~torn => ready \subseteq heard

Rest ==
  /\ Alive /\ life = "loaded" /\ cpc = "idle" /\ cb = "idle" /\ hk = "idle"
  /\ (\A t \in Threads : pc[t] = "gone") /\ ~Busy

\* With no test and no loop found the probing goes on, except where the
\* callback cleared what the hook took for the end of the detection.
ProbingGoesOn ==
  Rest /\ detecting /\ ready # Dirs /\ ~erased => timer = "pending"

\* A user who waits for the end of a test before the next never makes the
\* compute thread initialise a pending timer: the callback met the running
\* test, and did not set it again.
TimerInitSafe == patient => timer # "corrupt"

\* A test that sends has the ports for itself, also while the module is
\* unloaded: the transmit hook lets no frame of another program out.
TestHasTheWire ==
  (\E t \in Senders : pc[t] = "send") => \A d \in {"eth_lan", "other", "none"} : ~Passes(d)

\* What rmmod may leave behind: a compute thread on its last instructions,
\* and the timer only if such a thread was there when it was deleted.
UnloadStops ==
  life = "gone" =>
    /\ \A t \in Threads : pc[t] \in {"gone", "hook", "ready", "timer", "finish", "off", "end"}
    /\ timer = "pending" => counted

\* rmmod returns, whatever the callback and the threads it waits for do.
UnloadReturns == life = "deltimer" ~> ~Alive

\* Every command returns, even one that waits for threads to stop.
CommandReturns == cpc # "idle" ~> (cpc = "idle" \/ ~Alive)

\* A test ends: its compute thread does not wait for ever for the senders.
TestEnds == \A t \in Counters : pc[t] = "look" ~> (pc[t] = "gone" \/ ~Alive)

\* speedtest.c:315 "clear ready flag, continue to wait.": with no test and no
\* loop found the probing goes on.
ContinuesToWait ==
  Rest /\ detecting /\ ready # Dirs => timer = "pending"
=============================================================================
