-------------------------- MODULE SpeedTestTraffic --------------------------
(***************************************************************************)
(* SpeedTest with the packets of a test: senders put them on the wire and  *)
(* count them, the receive hook queues those that come back, the compute   *)
(* thread takes them from the queue, counts them and computes the loss.    *)
(*                                                                         *)
(* The counters of a status are cleared by a command, loaded and stored by *)
(* two threads, without a lock.  Frames keep their order and may be lost.  *)
(* The bounds are MaxSent, the frames of one sender, Cable, those on the   *)
(* wire, and Room, those in the queue.  Counters are modulo W for 2^64.    *)
(***************************************************************************)
EXTENDS SpeedTest, Sequences, FiniteSets

CONSTANTS MaxSent, Cable, Room, W

ASSUME TrafficBounds ==
  /\ MaxSent \in Nat \ {0} /\ Cable \in Nat \ {0} /\ Room \in Nat \ {0}
  /\ W \in Nat /\ W > MaxSent + Cable + Room

VARIABLES
  status,    (* pktsend, pktrcv, pkterr and pktlose_count and end_time # 0 *)
             (* of each direction                                          *)
  spc,       (* in a sender's loop: "first", "count" or "next" packet      *)
  wire,      (* frames on the cables, each by its direction                *)
  queue,     (* comp_skbqueue                                              *)
  taken,     (* the frame the compute thread counts, with the counter read *)
  missed,    (* history: frames of a test not mixed with the last that are *)
             (* lost                                                       *)
  mixed,     (* history: frames were under way when the status was cleared *)
  overlap,   (* history: a sender was ending when the status was cleared   *)
  stray      (* history: a frame in the queue came behind the back of the  *)
             (* last compute thread                                        *)

traffic == <<status, spc, wire, queue, taken, missed>>
past    == <<mixed, overlap, stray>>
tvars == <<vars, traffic, past>>

Fresh == [sent |-> 0, rcv |-> 0, err |-> 0, lose |-> 0, ended |-> FALSE]
Nobody == [dir |-> NULL]

\* How many frames of direction i there are in s.
Frames(s, i) == Cardinality({n \in DOMAIN s : s[n] = i})

UnderWay(i) == taken.dir = i \/ Frames(wire, i) + Frames(queue, i) > 0

\* A frame is gone.
Miss(f) == missed' = IF mixed[f] THEN missed ELSE [missed EXCEPT ![f] = @ + 1]

TInit ==
  /\ Init
  /\ status = [i \in Dirs |-> Fresh] /\ spc = [i \in Dirs |-> "first"]
  /\ wire = <<>> /\ queue = <<>> /\ taken = Nobody
  /\ missed = [i \in Dirs |-> 0]
  /\ mixed = [i \in Dirs |-> FALSE] /\ overlap = [i \in Dirs |-> FALSE] /\ stray = FALSE
-----------------------------------------------------------------------------
(* run_speedtest_by_cmd clears the status of a direction before it creates *)
(* its sender.                                                             *)
ClearTo(s) ==
  IF cpc = "create" /\ enable[ci] # 0
    THEN /\ status' = [status EXCEPT ![ci] = s]
         /\ missed' = [missed EXCEPT ![ci] = 0]
         /\ mixed' = [mixed EXCEPT ![ci] = UnderWay(ci)]
         /\ overlap' = [overlap EXCEPT ![ci] = \E t \in Senders : Slot(t) = ci /\ pc[t] # "gone"]
         /\ UNCHANGED <<spc, wire, queue, taken, stray>>
    ELSE UNCHANGED <<traffic, past>>

Clear_keepsReceived == ClearTo([Fresh EXCEPT !.rcv = status[ci].rcv])
Clear_keepsEnd == ClearTo([Fresh EXCEPT !.ended = status[ci].ended])
Clear == ClearTo(Fresh)

TCmd == CmdStep /\ Clear

TParse(e, l) == CmdParse(e, l) /\ UNCHANGED <<traffic, past>>
-----------------------------------------------------------------------------
(* speedtest_thread_func                                                   *)

TSenderStarts(t) ==
  /\ SenderStarts(t)
  /\ spc' = [spc EXCEPT ![Slot(t)] = "first"]
  /\ UNCHANGED <<status, wire, queue, taken, missed, past>>

\* send_speedtest_pkt: a clone goes out, or there is none.
SendPacket(t) ==
  /\ pc[t] = "send" /\ spc[Slot(t)] # "count" /\ fault = "none"
  /\ status[Slot(t)].sent < MaxSent /\ Len(wire) < Cable
  /\ wire' = Append(wire, Slot(t))
  /\ spc' = [spc EXCEPT ![Slot(t)] = "count"]
  /\ UNCHANGED <<vars, status, queue, taken, missed, past>>

SendNothing(t) ==
  /\ pc[t] = "send" /\ spc[Slot(t)] = "first" /\ fault = "none"
  /\ spc' = [spc EXCEPT ![Slot(t)] = "next"]
  /\ UNCHANGED <<vars, status, wire, queue, taken, missed, past>>

CountSent(t) ==
  /\ pc[t] = "send" /\ spc[Slot(t)] = "count" /\ fault = "none"
  /\ status' = [status EXCEPT ![Slot(t)].sent = @ + 1]
  /\ spc' = [spc EXCEPT ![Slot(t)] = "next"]
  /\ UNCHANGED <<vars, wire, queue, taken, missed, past>>

TSenderLeavesFrom(t, l) ==
  /\ SenderLeaves(t) /\ spc[Slot(t)] \in l
  /\ UNCHANGED <<traffic, past>>

TSenderLeaves_uncounted(t) == TSenderLeavesFrom(t, {"count", "next"})
TSenderLeaves(t) == TSenderLeavesFrom(t, {"next"})

TSenderEnds(t) ==
  \/ (SenderClear(t) \/ SenderOff(t)) /\ UNCHANGED <<traffic, past>>
  \/ /\ SenderEnd(t)
     /\ status' = [status EXCEPT ![Slot(t)].ended = TRUE]
     /\ UNCHANGED <<spc, wire, queue, taken, missed, past>>

TSender(t) ==
  \/ TSenderStarts(t) \/ SendPacket(t) \/ SendNothing(t) \/ CountSent(t)
  \/ TSenderLeaves(t) \/ TSenderEnds(t)
-----------------------------------------------------------------------------
(* The cables and the receive hook.                                        *)

WireLoses ==
  /\ wire # <<>> /\ fault = "none"
  /\ Miss(Head(wire)) /\ wire' = Tail(wire)
  /\ UNCHANGED <<vars, status, spc, queue, taken, past>>

\* fast_rcv_speedtest_pkt: kfifo_in stores nothing when there is no room.
Collecting == \E t \in Counters : pc[t] \in {"new", "look", "linger", "clear"}

RcvFast ==
  /\ wire # <<>> /\ rx = "fast" /\ fault = "none"
  /\ wire' = Tail(wire)
  /\ IF Len(queue) < Room
       THEN queue' = Append(queue, Head(wire)) /\ missed' = missed /\ stray' = (stray \/ ~Collecting)
       ELSE queue' = queue /\ Miss(Head(wire)) /\ stray' = stray
  /\ UNCHANGED <<vars, status, spc, taken, mixed, overlap>>

\* rcv_speedtest_probe_pkt takes it for a probe, or drops it during a test.
RcvProbe ==
  /\ wire # <<>> /\ rx = "probe" /\ fault = "none"
  /\ wire' = Tail(wire) /\ Miss(Head(wire))
  /\ UNCHANGED <<vars, status, spc, queue, taken, past>>

Receive == RcvFast \/ RcvProbe
-----------------------------------------------------------------------------
(* speedtest_compute_func                                                  *)

\* pktrcv_count++ loads the counter ...
Take(t) ==
  /\ pc[t] \in {"look", "linger"} /\ taken = Nobody /\ queue # <<>> /\ fault = "none"
  /\ queue' = Tail(queue)
  /\ taken' = [dir |-> Head(queue), read |-> status[Head(queue)].rcv]
  /\ stray' = (stray /\ Len(queue) > 1)
  /\ UNCHANGED <<vars, status, spc, wire, missed, mixed, overlap>>

\* ... and stores it.  The frame may have been damaged on its way.
Count(good) ==
  /\ taken # Nobody /\ fault = "none"
  /\ status' = [status EXCEPT ![taken.dir].rcv = (taken.read + 1) % W,
                              ![taken.dir].err = IF good THEN @ ELSE (@ + 1) % W]
  /\ taken' = Nobody
  /\ UNCHANGED <<vars, spc, wire, queue, missed, past>>

Drained == queue = <<>> /\ taken = Nobody

TCountOn(t) == Drained /\ CountOn(t) /\ UNCHANGED <<traffic, past>>
TCountStopped(t) == Drained /\ CountStopped(t) /\ UNCHANGED <<traffic, past>>
TCountOver(t) == Drained /\ CountOver(t) /\ UNCHANGED <<traffic, past>>

\* The second loop over the queue, before compute_task is cleared.
DrainWhile(t, left) ==
  /\ pc[t] = "clear" /\ t \in Counters /\ fault = "none"
  /\ IF left
       THEN Miss(Head(queue)) /\ queue' = Tail(queue) /\ UNCHANGED <<vars, stray>>
       ELSE CounterClear(t) /\ UNCHANGED <<queue, missed>> /\ stray' = FALSE
  /\ UNCHANGED <<status, spc, wire, taken, mixed, overlap>>

Drain_missing(t) == DrainWhile(t, FALSE)
Drain(t) == DrainWhile(t, queue # <<>>)

TCountEnds(t) ==
  /\ ~(pc[t] = "clear") /\ CounterEnds(t)
  /\ IF pc[t] = "finish"
       THEN status' = [i \in Dirs |-> [status[i] EXCEPT
                         !.lose = (status[i].sent + 2 * W - status[i].rcv - status[i].err) % W]]
       ELSE status' = status
  /\ UNCHANGED <<spc, wire, queue, taken, missed, past>>

TCounter(t) == Take(t) \/ TCountOn(t) \/ TCountStopped(t) \/ TCountOver(t) \/ Drain(t) \/ TCountEnds(t)

TNext ==
  \/ \E e \in Enables, l \in Loops : TParse(e, l)
  \/ TCmd
  \/ \E t \in Senders : TSender(t)
  \/ WireLoses \/ Receive
  \/ \E good \in BOOLEAN : Count(good)
  \/ \E t \in Counters : TCounter(t)

TSpec == TInit /\ [][TNext]_tvars
-----------------------------------------------------------------------------
\* The test is over, and so is everything that was left of it.
TestOver ==
  /\ cpc = "idle" /\ fault = "none" /\ task[Comp] = NULL /\ ~Running
  /\ \A t \in Threads : pc[t] = "gone"

\* No direction receives more than it has sent, except what was under way
\* when the counters were cleared, and a packet that overtakes its count.
NotMoreThanSent ==
  \A i \in Dirs : ~mixed[i] =>
    status[i].rcv <= status[i].sent + (IF spc[i] = "count" THEN 1 ELSE 0)

\* The loss shown is what was sent and not counted, less the packets with
\* errors, which were counted and are subtracted all the same.
LossIsReal ==
  TestOver => \A i \in Dirs : state[i] = "FINISHED" /\ ~mixed[i] =>
    (status[i].lose + status[i].err) % W = missed[i] + Frames(wire, i) + Frames(queue, i)

\* What is queued is taken from the queue again by the compute thread of its
\* test, except what came after that thread had emptied it.
NoneStaysQueued == TestOver /\ queue # <<>> => stray

\* A test that runs does not show the end of the one before it, except when
\* a sender of that one was still ending when the status was cleared.
EndIsOwn ==
  \A t \in Senders : pc[t] = "send" /\ ~overlap[Slot(t)] => ~status[Slot(t)].ended
=============================================================================
