------------------------------- MODULE IrqSig -------------------------------
(***************************************************************************)
(* dirver/char_drv_demo/irq_sig.c: a key on an edge-triggered interrupt,   *)
(* read by processes that are told by SIGIO or that poll.  Every file that *)
(* is opened requests the interrupt again under the same cookie, so one    *)
(* edge runs the handler once for every request that succeeded.  The       *)
(* handler runs beside the readers, one step at a time; the interrupt is   *)
(* acknowledged before it starts, and an edge that comes later runs it     *)
(* again.                                                                  *)
(***************************************************************************)
EXTENDS Naturals, FiniteSets

CONSTANT Files   (* each with the process that opens it *)

VARIABLES
  pin,        (* the level of the key                                     *)
  edge,       (* an interrupt is latched                                  *)
  at,         (* the handler's next step, 0 when it does not run          *)
  runs,       (* how often it is still to run for the interrupt it serves *)
  pin_status, key_val, ev_press,
  actions,    (* requests of the interrupt that are not freed             *)
  opened,
  key_async,  (* files on the fasync list                                 *)
  sigio,      (* processes with a SIGIO pending                           *)
  reading,    (* file -> "no", "copy" or "clear"                          *)
  got,        (* file -> what its last read copied                        *)
  lastread,   (* history: what the last read of all copied                *)
  pressed,    (* history: reads that ev_press was set in the middle of    *)
  erased,     (* history: such a read has cleared it                      *)
  told        (* history: files sent a SIGIO, with no edge missed since   *)

wired   == <<pin, edge, at, runs, pin_status>>
readers == <<reading, got, lastread>>
keyvars == <<wired, key_val, ev_press, actions, opened, key_async, sigio,
             readers, pressed, erased, told>>

IrqInit ==
  /\ pin \in {0, 1} /\ edge = FALSE /\ at = 0 /\ runs = 0 /\ pin_status = 0
  /\ key_val = 0 /\ ev_press = FALSE /\ actions = 0
  /\ opened = {} /\ key_async = {} /\ sigio = {}
  /\ reading = [f \in Files |-> "no"] /\ got = [f \in Files |-> 0] /\ lastread = 0
  /\ pressed = {} /\ erased = FALSE /\ told = {}
-----------------------------------------------------------------------------
\* Nobody hears of an edge while the interrupt is not requested.
KeyMoves ==
  /\ pin' = 1 - pin
  /\ edge' = (actions > 0)
  /\ told' = IF actions > 0 THEN told ELSE {}
  /\ UNCHANGED <<at, runs, pin_status, key_val, ev_press, actions, opened,
                 key_async, sigio, readers, pressed, erased>>

IrqEnter ==
  /\ edge /\ at = 0
  /\ edge' = FALSE /\ at' = 1 /\ runs' = actions
  /\ UNCHANGED <<pin, pin_status, key_val, ev_press, actions, opened,
                 key_async, sigio, readers, pressed, erased, told>>

(* eint9_interrupt *)

Order_signalFirst == <<"gpio", "kill_fasync", "key_val", "ev_press">>
Order_pressFirst  == <<"gpio", "ev_press", "key_val", "kill_fasync">>
Order == <<"gpio", "key_val", "ev_press", "kill_fasync">>

Advance ==
  IF at < 4 THEN at' = at + 1 /\ runs' = runs
            ELSE at' = (IF runs > 1 THEN 1 ELSE 0) /\ runs' = runs - 1

Handling(what) ==
  /\ at # 0 /\ Order[at] = what /\ Advance
  /\ UNCHANGED <<pin, edge, actions, opened, key_async, readers>>

HandlerSamples ==
  /\ Handling("gpio") /\ pin_status' = pin
  /\ UNCHANGED <<key_val, ev_press, sigio, pressed, erased, told>>

HandlerStores ==
  /\ Handling("key_val") /\ key_val' = pin_status
  /\ UNCHANGED <<pin_status, ev_press, sigio, pressed, erased, told>>

HandlerPresses ==
  /\ Handling("ev_press") /\ ev_press' = TRUE
  /\ pressed' = {f \in Files : reading[f] = "clear"} /\ erased' = FALSE
  /\ UNCHANGED <<pin_status, key_val, sigio, told>>

HandlerSignals ==
  /\ Handling("kill_fasync")
  /\ sigio' = sigio \cup key_async /\ told' = told \cup key_async
  /\ UNCHANGED <<pin_status, key_val, ev_press, pressed, erased>>
-----------------------------------------------------------------------------
(* key_open returns 0 whatever request_irq says. *)
KeyOpen(f) ==
  /\ f \notin opened
  /\ opened' = opened \cup {f}
  /\ actions' \in {actions, actions + 1}
  /\ UNCHANGED <<wired, key_val, ev_press, key_async, sigio, readers, pressed, erased, told>>

(* key_release frees the first request with its cookie, be it another      *)
(* file's.  free_irq waits for a handler that runs, and with the last one  *)
(* the interrupt is shut down.                                             *)
KeyReleaseIf(f, frees) ==
  /\ f \in opened /\ reading[f] = "no" /\ at = 0
  /\ opened' = opened \ {f} /\ key_async' = key_async \ {f}
  /\ sigio' = sigio \ {f}
  /\ actions' = IF frees /\ actions > 0 THEN actions - 1 ELSE actions
  /\ edge' = (edge /\ actions' > 0)
  /\ told' = IF actions' > 0 THEN told \ {f} ELSE {}
  /\ UNCHANGED <<pin, at, runs, pin_status, key_val, ev_press, readers, pressed, erased>>

KeyRelease_last(f) == KeyReleaseIf(f, opened = {f})
KeyRelease(f) == KeyReleaseIf(f, TRUE)

(* key_fasync *)
KeyFasync(f) ==
  /\ f \in opened \ key_async
  /\ key_async' = key_async \cup {f}
  /\ UNCHANGED <<wired, key_val, ev_press, actions, opened, sigio, readers, pressed, erased, told>>

(* A process calls read when SIGIO comes, or when key_poll finds ev_press. *)
TakeSigio(f) ==
  /\ f \in sigio /\ reading[f] = "no"
  /\ sigio' = sigio \ {f}
  /\ reading' = [reading EXCEPT ![f] = "copy"]
  /\ UNCHANGED <<wired, key_val, ev_press, actions, opened, key_async, got, lastread, pressed, erased, told>>

KeyPoll(f) ==
  /\ f \in opened /\ reading[f] = "no" /\ ev_press
  /\ reading' = [reading EXCEPT ![f] = "copy"]
  /\ UNCHANGED <<wired, key_val, ev_press, actions, opened, key_async, sigio, got, lastread,
                 pressed, erased, told>>

(* key_read *)
ReadCopies(f) ==
  /\ reading[f] = "copy"
  /\ reading' = [reading EXCEPT ![f] = "clear"]
  /\ got' = [got EXCEPT ![f] = key_val] /\ lastread' = key_val
  /\ UNCHANGED <<wired, key_val, ev_press, actions, opened, key_async, sigio, pressed, erased, told>>

ReadClears(f) ==
  /\ reading[f] = "clear"
  /\ reading' = [reading EXCEPT ![f] = "no"]
  /\ ev_press' = FALSE
  /\ erased' = (erased \/ f \in pressed) /\ pressed' = pressed \ {f}
  /\ UNCHANGED <<wired, key_val, actions, opened, key_async, sigio, got, lastread, told>>

IrqNext ==
  \/ KeyMoves \/ IrqEnter
  \/ HandlerSamples \/ HandlerStores \/ HandlerPresses \/ HandlerSignals
  \/ \E f \in Files :
       \/ KeyOpen(f) \/ KeyRelease(f) \/ KeyFasync(f)
       \/ TakeSigio(f) \/ KeyPoll(f) \/ ReadCopies(f) \/ ReadClears(f)

IrqSpec == IrqInit /\ [][IrqNext]_keyvars
-----------------------------------------------------------------------------
\* A process told by SIGIO ends up with the level the key is at, although signals
\* merge and the handler may run in the middle of its read.
SigioBringsTheLevel ==
  \A f \in told : ~edge /\ at = 0 /\ f \notin sigio /\ reading[f] = "no" => got[f] = pin

\* A value nobody has read is announced by ev_press, except when the interrupt
\* comes between the copy and the clearing of some read.
UnreadIsAnnounced == at = 0 /\ key_val # lastread => ev_press \/ erased

\* The interrupt is requested no more than there are files open; the last close
\* leaves no handler behind, for rmmod frees its code.
NoHandlerWithoutFile == actions <= Cardinality(opened)
=============================================================================
