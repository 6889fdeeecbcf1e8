--------------------------- MODULE KeyEventDevice ---------------------------
(***************************************************************************)
(* dirver/keyevent from insmod to rmmod, with the direction KeyEvent       *)
(* leaves out: processes write messages to the device, and a kernel module *)
(* fetches them with get_trigger_board_input_event_handler.  Any number of *)
(* writers, one fetch at a time.                                           *)
(*                                                                         *)
(* A buffer has two cells: a short message fills the first, a long one     *)
(* both.  copy_from_user and memcpy copy one cell at a time, without a     *)
(* lock; copy_from_user may fail at any of them.                           *)
(***************************************************************************)
EXTENDS Naturals, Sequences, FiniteSets

CONSTANTS
  Writers,   (* processes                                                  *)
  Messages, LongMessages, Nothing,
  MayFail    (* stages of board_button_dev_init that may fail              *)

ASSUME MessageSizes == LongMessages \subseteq Messages /\ Nothing \notin Messages
\* init_waitqueue_head, the last stage, cannot fail.
ASSUME StagesThatFail == MayFail \subseteq {"region", "buffers", "cdev", "class", "device"}

VARIABLES
  module,    (* "init", "undo", "up", "exit", or "out" when it is done     *)
  stage,     (* the next of the stages, or of what is to be undone         *)
  held,      (* what the module has and has not given back                 *)
  waitq,     (* the wait queue is initialised                              *)
  crashed,   (* wake_up was called on a wait queue that is not             *)
  open,      (* the processes that have the device open                    *)
  linked,    (* a module that uses the exported functions is loaded        *)
  recv, recv_len,   (* recv_data.data and recv_data.len in cells           *)
  wpc, msg, wat,    (* where each writer is, its message and next cell     *)
  gpc, cap,         (* where the fetch is, and the cells of its caller     *)
  out, olen, gat,   (* the caller's buffer, the length memcpy found, next  *)
  ret,              (* and what the fetch returned                         *)
  last,      (* history: the last message written                          *)
  alone,     (* history: the writers no other came across                  *)
  spoilt,    (* history: what the buffer holds is no message               *)
  met      (* history: the fetch met a write, or a spoilt buffer         *)

loading == <<module, stage, held, waitq, crashed>>
users   == <<open, linked>>
buffer  == <<recv, recv_len>>
writing == <<wpc, msg, wat, alone>>
fetch   == <<gpc, cap, out, olen, gat, ret>>
devvars == <<loading, users, buffer, writing, fetch, last, spoilt, met>>

Cell == 1..2
Vacant == [c \in Cell |-> Nothing]
Cells(m) == IF m \in LongMessages THEN 2 ELSE 1
IsIn(m, b) == \A c \in 1..Cells(m) : b[c] = m

Stages == <<"region", "buffers", "cdev", "class", "device", "queue">>
Buffers == {"recv", "send"}
\* What each of the stages acquires.
Acquired(s) ==
  CASE s = "buffers" -> Buffers [] s = "queue" -> {} [] OTHER -> {s}

Busy(w) == wpc[w] # "idle"

DevInit ==
  /\ module = "init" /\ stage = 1 /\ held = {} /\ waitq = FALSE /\ crashed = FALSE
  /\ open = {} /\ linked = FALSE
  /\ recv = Vacant /\ recv_len = 0
  /\ wpc = [w \in Writers |-> "idle"] /\ msg = [w \in Writers |-> Nothing]
  /\ wat = [w \in Writers |-> 1] /\ alone = [w \in Writers |-> TRUE]
  /\ gpc = "idle" /\ cap = 1 /\ out = Vacant /\ olen = 0 /\ gat = 1 /\ ret = 0
  /\ last = Nothing /\ spoilt = FALSE /\ met = FALSE
-----------------------------------------------------------------------------
(* board_button_dev_init                                                   *)

StageDone ==
  /\ module = "init"
  /\ held' = held \cup Acquired(Stages[stage])
  /\ waitq' = (Stages[stage] = "queue")
  /\ IF stage = Len(Stages)
       THEN module' = "up" /\ stage' = stage
       ELSE module' = module /\ stage' = stage + 1
  /\ UNCHANGED <<crashed, users, buffer, writing, fetch, last, spoilt, met>>

\* Labels: the first thing each failure undoes.
Label == [region |-> "buffers", buffers |-> "buffers", cdev |-> "buffers",
          class |-> "cdev", device |-> "class"]
Undone == <<"class", "cdev", "buffers", "region">>

\* One of the two buffers may be there when the other is not.
StageFailsTo(label) ==
  /\ module = "init" /\ Stages[stage] \in MayFail
  /\ \E part \in {{}} \cup {b \in SUBSET Buffers : Stages[stage] = "buffers" /\ b # Buffers} :
       held' = held \cup part
  /\ waitq' = waitq
  /\ module' = "undo"
  /\ stage' = CHOOSE n \in DOMAIN Undone : Undone[n] = label[Stages[stage]]
  /\ UNCHANGED <<crashed, users, buffer, writing, fetch, last, spoilt, met>>

StageFails_wrongLabel == StageFailsTo([Label EXCEPT !.class = "buffers"])
StageFails == StageFailsTo(Label)

Undo ==
  /\ module = "undo"
  /\ held' = held \ Acquired(Undone[stage]) /\ waitq' = waitq
  /\ IF stage = Len(Undone)
       THEN module' = "out" /\ stage' = stage
       ELSE module' = module /\ stage' = stage + 1
  /\ UNCHANGED <<crashed, users, buffer, writing, fetch, last, spoilt, met>>

(* board_button_dev_exit.  Both .owner and the exported symbols keep the   *)
(* module from being removed while it is used.                             *)
RmmodIf(unused) ==
  /\ module = "up" /\ unused
  /\ module' = "exit" /\ stage' = 1
  /\ UNCHANGED <<held, waitq, crashed, users, buffer, writing, fetch, last, spoilt, met>>

Rmmod_whileOpen == RmmodIf(~linked)
Rmmod == RmmodIf(~linked /\ open = {})

Released == <<"buffers", "device", "class", "cdev", "region">>

Release ==
  /\ module = "exit"
  /\ held' = held \ Acquired(Released[stage]) /\ waitq' = waitq
  /\ IF stage = Len(Released)
       THEN module' = "out" /\ stage' = stage
       ELSE module' = module /\ stage' = stage + 1
  /\ UNCHANGED <<crashed, users, buffer, writing, fetch, last, spoilt, met>>
-----------------------------------------------------------------------------
(* The users.                                                              *)

\* The node is there from device_create to device_destroy.
Open(w) ==
  /\ "device" \in held /\ module \in {"init", "up"} /\ w \notin open
  /\ open' = open \cup {w}
  /\ UNCHANGED <<loading, linked, buffer, writing, fetch, last, spoilt, met>>

Close(w) ==
  /\ w \in open /\ ~Busy(w)
  /\ open' = open \ {w}
  /\ UNCHANGED <<loading, linked, buffer, writing, fetch, last, spoilt, met>>

\* Symbols are resolved when the module that exports them is initialised.
Link ==
  /\ module = "up" /\ ~linked
  /\ linked' = TRUE
  /\ UNCHANGED <<loading, open, buffer, writing, fetch, last, spoilt, met>>

Unlink ==
  /\ linked /\ gpc = "idle"
  /\ linked' = FALSE
  /\ UNCHANGED <<loading, open, buffer, writing, fetch, last, spoilt, met>>
-----------------------------------------------------------------------------
(* board_button_write                                                      *)

BoardWrite(w, m) ==
  /\ w \in open /\ ~Busy(w)
  /\ wpc' = [wpc EXCEPT ![w] = "copy"] /\ msg' = [msg EXCEPT ![w] = m] /\ wat' = [wat EXCEPT ![w] = 1]
  /\ alone' = [v \in Writers |-> IF v = w THEN \A u \in Writers : ~Busy(u) ELSE FALSE]
  /\ met' = TRUE
  /\ UNCHANGED <<loading, users, buffer, fetch, last, spoilt>>

WriteCopy(w) ==
  /\ wpc[w] = "copy"
  /\ recv' = [recv EXCEPT ![wat[w]] = msg[w]]
  /\ wat' = [wat EXCEPT ![w] = @ + 1]
  /\ wpc' = [wpc EXCEPT ![w] = IF wat[w] < Cells(msg[w]) THEN "copy" ELSE "len"]
  /\ UNCHANGED <<loading, users, recv_len, msg, alone, fetch, last, spoilt, met>>

\* Returns count, as if it had been written.
WriteFaultsTo(w, l) ==
  /\ wpc[w] = "copy"
  /\ wpc' = [wpc EXCEPT ![w] = "idle"]
  /\ recv_len' = l
  /\ spoilt' = (spoilt \/ wat[w] > 1)
  /\ UNCHANGED <<loading, users, recv, msg, wat, alone, fetch, last, met>>

WriteFaults_storesLen(w) == WriteFaultsTo(w, Cells(msg[w]))
WriteFaults(w) == WriteFaultsTo(w, recv_len)

\* What the wake-up that follows does to the readers is in KeyEvent.
WriteLen(w) ==
  /\ wpc[w] = "len"
  /\ recv_len' = Cells(msg[w])
  /\ wpc' = [wpc EXCEPT ![w] = "idle"]
  /\ crashed' = ~waitq
  /\ last' = msg[w] /\ spoilt' = ~alone[w]
  /\ UNCHANGED <<module, stage, held, waitq, users, recv, msg, wat, alone, fetch, met>>
-----------------------------------------------------------------------------
(* get_trigger_board_input_event_handler, for a caller with n cells        *)

Fetch(n) ==
  /\ linked /\ gpc \in {"idle", "done"}
  /\ cap' = n
  /\ IF n < recv_len THEN gpc' = "done" /\ ret' = 0 ELSE gpc' = "memcpy" /\ ret' = ret
  /\ met' = (spoilt \/ \E w \in Writers : Busy(w))
  /\ UNCHANGED <<loading, users, buffer, writing, out, olen, gat, last, spoilt>>

\* recv_data.len is loaded again, for memcpy ...
FetchLen ==
  /\ gpc = "memcpy"
  /\ olen' = recv_len /\ gat' = 1
  /\ gpc' = IF recv_len = 0 THEN "len" ELSE "copy"
  /\ UNCHANGED <<loading, users, buffer, writing, cap, out, ret, last, spoilt, met>>

FetchCopy ==
  /\ gpc = "copy"
  /\ out' = [out EXCEPT ![gat] = recv[gat]]
  /\ gat' = gat + 1
  /\ gpc' = IF gat < olen THEN "copy" ELSE "len"
  /\ UNCHANGED <<loading, users, buffer, writing, cap, olen, ret, last, spoilt, met>>

\* ... and for the return.
FetchReturn ==
  /\ gpc = "len"
  /\ ret' = recv_len /\ gpc' = "done"
  /\ UNCHANGED <<loading, users, buffer, writing, cap, out, olen, gat, last, spoilt, met>>

FetchForgotten ==
  /\ gpc = "done"
  /\ gpc' = "idle" /\ out' = Vacant /\ olen' = 0 /\ gat' = 1 /\ ret' = 0 /\ cap' = 1
  /\ UNCHANGED <<loading, users, buffer, writing, last, spoilt, met>>

DevNext ==
  /\ ~crashed
  /\ \/ StageDone \/ StageFails \/ Undo \/ Rmmod \/ Release
     \/ Link \/ Unlink
     \/ \E w \in Writers :
          \/ Open(w) \/ Close(w)
          \/ WriteCopy(w) \/ WriteFaults(w) \/ WriteLen(w)
          \/ \E m \in Messages : BoardWrite(w, m)
     \/ \E n \in Cell : Fetch(n)
     \/ FetchLen \/ FetchCopy \/ FetchReturn \/ FetchForgotten

DevSpec == DevInit /\ [][DevNext]_devvars
-----------------------------------------------------------------------------
\* Whatever fails while it is loaded, the module keeps nothing when it is out,
\* and while it is up it has all it needs.
HoldsWhatItShould ==
  /\ module = "out" => held = {}
  /\ module = "up" => held = UNION {Acquired(Stages[n]) : n \in DOMAIN Stages}

\* Writers and fetches find what they use.  board_button_dev_exit frees the
\* buffers first of all, but open files and users of the symbols keep the module
\* in place until nobody is at them; and only a write between device_create and
\* init_waitqueue_head, while the module is loaded, finds no queue to wake.
ThereWhileUsed ==
  /\ (\E w \in Writers : Busy(w)) \/ gpc \notin {"idle", "done"} => Buffers \subseteq held
  /\ crashed => module = "init"

\* A fetch that no write disturbs returns the last message whole, and nothing
\* only when there is none or the caller has no room for it.
FetchesWhole ==
  gpc = "done" /\ ~met =>
    IF ret = 0
      THEN last = Nothing \/ Cells(last) > cap
      ELSE last # Nothing /\ ret = Cells(last) /\ ret <= cap /\ IsIn(last, out)
=============================================================================
