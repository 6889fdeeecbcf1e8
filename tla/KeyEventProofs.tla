--------------------------- MODULE KeyEventProofs ---------------------------
(***************************************************************************)
(* Theorems about KeyEvent for any set of events: types, the last event    *)
(* is the one the process ends up with, and the one window in which the    *)
(* wake-up of the process is lost.                                         *)
(***************************************************************************)
EXTENDS KeyEvent, TLAPS

\* What is in send_data while a call is at work on it, and between calls.
SendInv ==
  /\ set_pc # "idle" => event \in Events /\ send_len = Size(event)
  /\ set_pc = "copy" => at \in 1..2 /\ at <= send_len /\ \A h \in Cells : h < at => send[h] = event
  /\ set_pc \in {"wake", "flag"} => Holds(send, event)
  /\ set_pc = "idle" /\ newest # None =>
       newest \in Events /\ send_len = Size(newest) /\ Holds(send, newest)

\* The process has, or is about to fetch, what is in send_data as long as
\* nothing is announced and no call is under way.
ReadInv ==
  /\ ppc = "clear" => trigger = 1
  /\ ppc = "copy" => rat \in 1..2
  /\ set_pc = "idle" /\ trigger = 0 /\ newest # None =>
       /\ ppc = "copy" =>
            rlen = send_len /\ rat <= rlen /\ \A h \in Cells : h < rat => recv_buf[h] = send[h]
       /\ ppc \in {"handle", "enter", "test", "park", "exited"} => Holds(recv_buf, newest)

SleepInv ==
  ppc = "park" /\ ~triggered /\ (trigger = 1 \/ set_pc = "flag") => lapped

KInv == KTypeOK /\ SendInv /\ ReadInv

\* Texts fill one cell or two.
LEMMA SizeRange == \A e : Size(e) \in {1, 2}
BY DEF Size
-----------------------------------------------------------------------------
LEMMA InitKInv == KInit => KInv /\ SleepInv
<1> SUFFICES ASSUME KInit PROVE KInv /\ SleepInv
  OBVIOUS
<1>1. KTypeOK
  <2>1. Empty \in Buffer
    BY DEF Empty, Buffer
  <2>2. send \in Buffer /\ recv_buf \in Buffer
    BY <2>1 DEF KInit
  <2>3. triggered \in BOOLEAN /\ lapped \in BOOLEAN
    BY DEF KInit
  <2>4. send_len \in 0..2 /\ trigger \in 0..1 /\ at \in 1..3 /\ rlen \in 0..2 /\ rat \in 1..3
    BY DEF KInit
  <2> QED BY <2>2, <2>3, <2>4 DEF KInit, KTypeOK
<1>2. SendInv /\ ReadInv /\ SleepInv
  BY DEF KInit, SendInv, ReadInv, SleepInv
<1> QED BY <1>1, <1>2 DEF KInv

LEMMA TypeStep ==
  ASSUME KInv, [KNext]_kvars
  PROVE  KTypeOK'
<1> USE DEF KInv, KTypeOK, driver, caller, process, kvars, PGoto
<1>1. ASSUME NEW e \in Events, SetLen(e) PROVE KTypeOK'
  BY <1>1, SizeRange DEF SetLen
<1>2. ASSUME SetCopy PROVE KTypeOK'
  <2>1. event \in Events /\ at \in 1..2
    BY <1>2 DEF SetCopy, SetCopyUpTo, SendInv
  <2>2. send' \in Buffer
    BY <1>2, <2>1 DEF SetCopy, SetCopyUpTo, Buffer
  <2> QED BY <1>2, <2>1, <2>2 DEF SetCopy, SetCopyUpTo
<1>3. ASSUME SetWake PROVE KTypeOK'
  BY <1>3 DEF SetWake, SetWakeIf, Polling
<1>4. ASSUME SetTrigger PROVE KTypeOK'
  BY <1>4 DEF SetTrigger
<1>5. ASSUME ReadCopy PROVE KTypeOK'
  BY <1>5 DEF ReadCopy, ReadCopyAs, ReadInv, Buffer, Cells
<1>6. ASSUME PollTest PROVE KTypeOK'
  <2>1. ppc' \in {"clear", "park"} /\ lapped' \in BOOLEAN
    BY <1>6 DEF PollTest
  <2> QED BY <1>6, <2>1 DEF PollTest
<1>7. ASSUME PollWait \/ PollClear \/ PollAgain \/ PollFails PROVE KTypeOK'
  <2>1. CASE PollWait \/ PollAgain
    BY <2>1 DEF PollWait, PollAgain
  <2>2. CASE PollClear
    BY <2>2 DEF PollClear
  <2>3. CASE PollFails
    BY <2>3 DEF PollFails
  <2> QED BY <1>7, <2>1, <2>2, <2>3
<1>8. ASSUME ReadLen PROVE KTypeOK'
  BY <1>8 DEF ReadLen
<1>9. ASSUME Handle \/ OtherWrite \/ UNCHANGED kvars PROVE KTypeOK'
  BY <1>9 DEF Handle, OtherWrite
<1> QED BY <1>1, <1>2, <1>3, <1>4, <1>5, <1>6, <1>7, <1>8, <1>9 DEF KNext, CallerStep, ProcessStep

LEMMA SendStep ==
  ASSUME KInv, [KNext]_kvars
  PROVE  SendInv'
<1> USE DEF KInv, driver, caller, process, kvars, PGoto
<1>1. ASSUME NEW e \in Events, SetLen(e) PROVE SendInv'
  BY <1>1, SizeRange DEF SetLen, SendInv, Cells
<1>2. ASSUME SetCopy PROVE SendInv'
  <2>1. /\ at \in 1..2 /\ at <= send_len /\ send_len = Size(event) /\ event \in Events
        /\ \A h \in Cells : h < at => send[h] = event
    BY <1>2 DEF SetCopy, SetCopyUpTo, SendInv
  <2>2. send_len \in {1, 2}
    BY <2>1, SizeRange
  <2>3. \A h \in Cells : h < at + 1 => send'[h] = event
    BY <1>2, <2>1 DEF SetCopy, SetCopyUpTo, KTypeOK, Buffer, Cells
  <2>4. CASE at < send_len
    BY <1>2, <2>1, <2>2, <2>3, <2>4 DEF SetCopy, SetCopyUpTo, SendInv
  <2>5. CASE ~(at < send_len)
    <3>1. Holds(send', event)
      BY <2>1, <2>2, <2>3, <2>5 DEF Holds, Cells
    <3> QED BY <1>2, <2>1, <2>5, <3>1 DEF SetCopy, SetCopyUpTo, SendInv, Holds
  <2> QED BY <2>4, <2>5
<1>3. ASSUME SetWake PROVE SendInv'
  BY <1>3 DEF SetWake, SetWakeIf, SendInv, Holds
<1>4. ASSUME SetTrigger PROVE SendInv'
  BY <1>4 DEF SetTrigger, SendInv, Holds
<1>5. ASSUME UNCHANGED <<send, send_len, caller, newest>> PROVE SendInv'
  BY <1>5 DEF SendInv, Holds
<1>6. ASSUME ProcessStep \/ PollFails \/ OtherWrite \/ UNCHANGED kvars
      PROVE  UNCHANGED <<send, send_len, caller, newest>>
  BY <1>6 DEF ProcessStep, PollWait, PollTest, PollClear, PollAgain, PollFails, ReadLen,
              ReadCopy, ReadCopyAs, Handle, OtherWrite
<1> QED BY <1>1, <1>2, <1>3, <1>4, <1>5, <1>6 DEF KNext, CallerStep

LEMMA ReadStep ==
  ASSUME KInv, [KNext]_kvars
  PROVE  ReadInv'
<1> USE DEF KInv, driver, caller, process, kvars, PGoto
<1>1. ASSUME NEW e \in Events, SetLen(e) PROVE ReadInv'
  BY <1>1 DEF SetLen, ReadInv
<1>2. ASSUME SetCopy PROVE ReadInv'
  BY <1>2 DEF SetCopy, SetCopyUpTo, ReadInv
<1>3. ASSUME SetWake PROVE ReadInv'
  BY <1>3 DEF SetWake, SetWakeIf, ReadInv
<1>4. ASSUME SetTrigger PROVE ReadInv'
  BY <1>4 DEF SetTrigger, ReadInv
<1>5. ASSUME ReadLen PROVE ReadInv'
  <2>1. set_pc = "idle" /\ newest # None => send_len \in {1, 2}
    BY SizeRange DEF SendInv
  <2> QED BY <1>5, <2>1 DEF ReadLen, ReadInv, Cells
<1>6. ASSUME ReadCopy PROVE ReadInv'
  <2> DEFINE Quiet == set_pc = "idle" /\ trigger = 0 /\ newest # None
  <2>1. /\ rat \in 1..2 /\ rlen \in 0..2
        /\ UNCHANGED <<send, send_len, trigger, set_pc, newest, rlen>>
        /\ rat' = rat + 1 /\ ppc' = IF rat < rlen THEN "copy" ELSE "handle"
    BY <1>6 DEF ReadCopy, ReadCopyAs, ReadInv, KTypeOK
  <2>2. Quiet => /\ rlen = send_len /\ rat <= rlen
                 /\ \A h \in Cells : h < rat + 1 => recv_buf'[h] = send[h]
    BY <1>6, <2>1 DEF ReadCopy, ReadCopyAs, ReadInv, KTypeOK, Buffer, Cells
  <2>3. CASE rat < rlen
    BY <2>1, <2>2, <2>3 DEF ReadInv
  <2>4. CASE ~(rat < rlen)
    <3>1. Quiet => send_len = Size(newest) /\ Holds(send, newest) /\ send_len \in {1, 2}
      BY SizeRange DEF SendInv
    <3>2. Quiet => Holds(recv_buf', newest)
      BY <2>1, <2>2, <2>4, <3>1 DEF Holds, Cells
    <3> QED BY <2>1, <2>4, <3>2 DEF ReadInv, Holds
  <2> QED BY <2>3, <2>4
<1>7. ASSUME PollWait \/ PollAgain \/ PollFails \/ Handle \/ OtherWrite PROVE ReadInv'
  BY <1>7 DEF PollWait, PollAgain, PollFails, Handle, OtherWrite, ReadInv, Holds
<1>8. ASSUME PollTest \/ PollClear \/ UNCHANGED kvars PROVE ReadInv'
  BY <1>8 DEF PollTest, PollClear, ReadInv, Holds
<1> QED BY <1>1, <1>2, <1>3, <1>4, <1>5, <1>6, <1>7, <1>8 DEF KNext, CallerStep, ProcessStep

LEMMA SleepStep ==
  ASSUME KInv, SleepInv, [KNext]_kvars
  PROVE  SleepInv'
<1> USE DEF SleepInv, driver, caller, process, kvars, PGoto
<1>1. ASSUME CallerStep \/ \E e \in Events : SetLen(e) PROVE SleepInv'
  BY <1>1 DEF CallerStep, SetLen, SetCopy, SetCopyUpTo, SetWake, SetWakeIf, Polling, SetTrigger
<1>2. ASSUME PollTest PROVE SleepInv'
  <2>1. trigger \in 0..1
    BY DEF KInv, KTypeOK
  <2>2. ppc' = "park" => trigger = 0 /\ trigger' = 0 /\ set_pc' = set_pc
    BY <1>2, <2>1 DEF PollTest
  <2>3. set_pc = "flag" /\ trigger = 0 => lapped'
    BY <1>2 DEF PollTest
  <2> QED BY <2>2, <2>3
<1>3. ASSUME PollWait \/ PollClear \/ PollAgain \/ PollFails \/ OtherWrite PROVE SleepInv'
  BY <1>3 DEF PollWait, PollClear, PollAgain, PollFails, OtherWrite
<1>4. ASSUME ReadLen \/ ReadCopy \/ Handle \/ UNCHANGED kvars PROVE SleepInv'
  BY <1>4 DEF ReadLen, ReadCopy, ReadCopyAs, Handle
<1> QED BY <1>1, <1>2, <1>3, <1>4 DEF KNext, ProcessStep
-----------------------------------------------------------------------------
LEMMA KInvAlways == KSpec => [](KInv /\ SleepInv)
<1>1. KInv /\ SleepInv /\ [KNext]_kvars => (KInv /\ SleepInv)'
  BY TypeStep, SendStep, ReadStep, SleepStep DEF KInv
<1> QED BY InitKInv, <1>1, PTL DEF KSpec

\* Types of driver and process: no copy, in set_trigger_... or in read,
\* runs past the end of its buffer.
THEOREM EventTyping == KSpec => []KTypeOK
BY KInvAlways, PTL DEF KInv

\* Whatever events were overwritten or torn on the way, the process is left
\* with the text of the last one (set_trigger_..., poll, read).
THEOREM LastEventArrives == KSpec => []NewestWins
<1>1. KInv => NewestWins
  BY DEF KInv, ReadInv, NewestWins
<1> QED BY KInvAlways, <1>1, PTL

\* The only wake-up of board_event that is lost is one whose event was not
\* yet announced when poll looked (wake_up before trigger_status = 1).
THEOREM LostWakeUpWindow == KSpec => []OversleepsOnlyWhenLapped
<1>1. SleepInv => OversleepsOnlyWhenLapped
  BY DEF SleepInv, OversleepsOnlyWhenLapped
<1> QED BY KInvAlways, <1>1, PTL
=============================================================================
