------------------------------ MODULE KeyEvent ------------------------------
(***************************************************************************)
(* dirver/keyevent: a kernel caller of set_trigger_board_input_event_      *)
(* handler, the driver's poll and read, and the loop of the board_event    *)
(* process.  One caller sends one event after another; events are texts    *)
(* with their terminating zero.                                            *)
(*                                                                         *)
(* A buffer has two cells: a short event fills the first, a long one both. *)
(* The calls copy one cell at a time, without a lock.  Stores take effect  *)
(* in program order.                                                       *)
(***************************************************************************)
EXTENDS Naturals

CONSTANTS
  Events,  (* what the caller sends                                        *)
  Long,    (* the events that need both cells                              *)
  None     (* no event yet                                                 *)

ASSUME LongEvents     == Long \subseteq Events
ASSUME NoneIsNoEvent  == None \notin Events

VARIABLES
  send,      (* send_data.data                                             *)
  send_len,  (* send_data.len, in cells                                    *)
  trigger,   (* trigger_status                                             *)
  set_pc,    (* where the caller is in set_trigger_...                     *)
  event,     (* its argument                                               *)
  at,        (* the cell memcpy copies next                                *)
  ppc,       (* where the process is                                       *)
  triggered, (* poll's wait entry was woken since the last look            *)
  rlen,      (* the length read found                                      *)
  rat,       (* the cell copy_to_user copies next                          *)
  recv_buf,  (* the process's buffer                                       *)
  newest,    (* history: the last event sent completely                    *)
  lapped     (* history: the last look at trigger_status came between      *)
             (* wake_up and the store it announces                         *)

driver  == <<send, send_len, trigger>>
caller  == <<set_pc, event, at>>
process == <<ppc, triggered, rlen, rat, recv_buf>>
kvars == <<driver, caller, process, newest, lapped>>

Cells == 1..2
Buffer == [Cells -> Events \cup {None}]
Empty == [h \in Cells |-> None]
Size(e) == IF e \in Long THEN 2 ELSE 1

\* The text in buffer b is that of event e: the rest is behind its zero.
Holds(b, e) == \A h \in 1..Size(e) : b[h] = e

KInit ==
  /\ send = Empty /\ send_len = 0 /\ trigger = 0
  /\ set_pc = "idle" /\ event = None /\ at = 1
  /\ ppc = "enter" /\ triggered = FALSE /\ rlen = 0 /\ rat = 1 /\ recv_buf = Empty
  /\ newest = None /\ lapped = FALSE

-----------------------------------------------------------------------------
(* set_trigger_board_input_event_handler.  An event longer than the buffer *)
(* is ignored.                                                             *)

SetLen(e) ==
  /\ set_pc = "idle"
  /\ set_pc' = "copy" /\ event' = e /\ at' = 1
  /\ send_len' = Size(e)
  /\ UNCHANGED <<send, trigger, process, newest, lapped>>

SetCopyUpTo(n) ==
  /\ set_pc = "copy"
  /\ send' = [send EXCEPT ![at] = event]
  /\ at' = at + 1
  /\ set_pc' = IF at < n THEN "copy" ELSE "wake"
  /\ UNCHANGED <<send_len, trigger, event, process, newest, lapped>>

SetCopy_oneMore == SetCopyUpTo(send_len + 1)
SetCopy == SetCopyUpTo(send_len)

\* The process is on the wait queue from poll_wait to the end of poll.
Polling == ppc \in {"test", "clear", "park"}

SetWakeIf(queued) ==
  /\ set_pc = "wake"
  /\ triggered' = (triggered \/ queued)
  /\ set_pc' = "flag"
  /\ UNCHANGED <<driver, event, at, ppc, rlen, rat, recv_buf, newest, lapped>>

SetWake_missing == SetWakeIf(FALSE)
SetWake == SetWakeIf(Polling)

SetTrigger ==
  /\ set_pc = "flag"
  /\ trigger' = 1
  /\ newest' = event
  /\ set_pc' = "idle"
  /\ UNCHANGED <<send, send_len, event, at, process, lapped>>

-----------------------------------------------------------------------------
(* poll and read in board_event's loop.                                    *)

PGoto(l) == ppc' = l

PollWait ==
  /\ ppc = "enter"
  /\ triggered' = FALSE
  /\ PGoto("test")
  /\ UNCHANGED <<driver, caller, rlen, rat, recv_buf, newest, lapped>>

\* if (trigger_status)
PollTest ==
  /\ ppc = "test"
  /\ PGoto(IF trigger = 1 THEN "clear" ELSE "park")
  /\ lapped' = (set_pc = "flag" /\ trigger = 0)
  /\ UNCHANGED <<driver, caller, triggered, rlen, rat, recv_buf, newest>>

PollClear ==
  /\ ppc = "clear"
  /\ trigger' = 0
  /\ PGoto("read")
  /\ UNCHANGED <<send, send_len, caller, triggered, rlen, rat, recv_buf, newest, lapped>>

\* Nothing there: sleep until the wait entry is woken, then look again.
PollAgain ==
  /\ ppc = "park" /\ triggered
  /\ triggered' = FALSE
  /\ PGoto("test")
  /\ UNCHANGED <<driver, caller, rlen, rat, recv_buf, newest, lapped>>

\* poll returns -1 and the process leaves its loop.
PollFails ==
  /\ ppc = "park"
  /\ PGoto("exited")
  /\ UNCHANGED <<driver, caller, triggered, rlen, rat, recv_buf, newest, lapped>>

ReadLen ==
  /\ ppc = "read"
  /\ rlen' = send_len /\ rat' = 1
  /\ PGoto("copy")
  /\ UNCHANGED <<driver, caller, triggered, recv_buf, newest, lapped>>

ReadCopyAs(t) ==
  /\ ppc = "copy"
  /\ recv_buf' = [recv_buf EXCEPT ![rat] = send[rat]]
  /\ rat' = rat + 1
  /\ PGoto(IF rat < rlen THEN "copy" ELSE "handle")
  /\ trigger' = t
  /\ UNCHANGED <<send, send_len, caller, triggered, rlen, newest, lapped>>

ReadCopy_clearsAgain == ReadCopyAs(0)
ReadCopy == ReadCopyAs(trigger)

\* handle_dev_info looks at recv_buf and keeps nothing.
Handle ==
  /\ ppc = "handle"
  /\ PGoto("enter")
  /\ UNCHANGED <<driver, caller, triggered, rlen, rat, recv_buf, newest, lapped>>

\* board_button_write of some other process wakes the same queue.  What it
\* stores in recv_data is for get_trigger_... alone.
OtherWrite ==
  /\ Polling
  /\ triggered' = TRUE
  /\ UNCHANGED <<driver, caller, ppc, rlen, rat, recv_buf, newest, lapped>>

CallerStep == SetCopy \/ SetWake \/ SetTrigger

ProcessStep == PollWait \/ PollTest \/ PollClear \/ PollAgain \/ ReadLen \/ ReadCopy \/ Handle

KNext ==
  \/ \E e \in Events : SetLen(e)
  \/ CallerStep
  \/ ProcessStep
  \/ PollFails
  \/ OtherWrite

KSpec == KInit /\ [][KNext]_kvars

\* A call that has begun goes on, and so does a process that is runnable.
\* Nobody has to send events.
KFairSpec == KSpec /\ WF_kvars(CallerStep) /\ WF_kvars(ProcessStep)
-----------------------------------------------------------------------------
KTypeOK ==
  /\ send \in Buffer /\ send_len \in 0..2 /\ trigger \in 0..1
  /\ set_pc \in {"idle", "copy", "wake", "flag"} /\ event \in Events \cup {None} /\ at \in 1..3
  /\ ppc \in {"enter", "test", "clear", "park", "read", "copy", "handle", "exited"}
  /\ triggered \in BOOLEAN /\ rlen \in 0..2 /\ rat \in 1..3 /\ recv_buf \in Buffer
  /\ newest \in Events \cup {None} /\ lapped \in BOOLEAN

\* Events may be overwritten before they are read, and a read may catch two
\* of them half and half, but never the last one: once caller and process
\* are at rest with no event announced, the process holds the newest text.
NewestWins ==
  set_pc = "idle" /\ trigger = 0 /\ ppc \in {"enter", "test", "park", "exited"} /\ newest # None =>
    Holds(recv_buf, newest)

\* The process sleeps over an announced event only when it looked at
\* trigger_status between the wake_up and the store that follows it.
OversleepsOnlyWhenLapped ==
  ppc = "park" /\ ~triggered /\ trigger = 1 => lapped

\* The lost wake-up delays an event only until the next one: as long as
\* events keep coming the process keeps reading.
KeepsReading ==
  []<>(set_pc = "wake") => []<>(ppc \in {"read", "exited"})

\* README.md: board_event "use poll to block when receive a event then wakup".
EventSeen == (set_pc = "flag") ~> (ppc \in {"read", "exited"})
=============================================================================
