---------------------------- MODULE DeviceProofs ----------------------------
(* What the character devices KeyEventDevice and IrqSig guarantee for any  *)
(* number of processes and files.                                          *)
EXTENDS KeyEventDevice, IrqSig, FiniteSetTheorems, TLAPS

-----------------------------------------------------------------------------
(* KeyEventDevice: the stages and what each of them holds.                 *)

All == {"region", "recv", "send", "cdev", "class", "device"}

\* What is held before each stage of the load, before each step back of a load
\* that failed (at most), and before each step of the unload.
Loaded ==
  <<{}, {"region"}, {"region", "recv", "send"}, {"region", "recv", "send", "cdev"},
    {"region", "recv", "send", "cdev", "class"}, All>>
Leftover ==
  <<{"region", "recv", "send", "cdev", "class"}, {"region", "recv", "send", "cdev"},
    {"region", "recv", "send"}, {"region"}>>
Unloaded ==
  <<All, {"region", "cdev", "class", "device"}, {"region", "cdev", "class"},
    {"region", "cdev"}, {"region"}>>

HeldInv ==
  /\ module \in {"init", "undo", "up", "exit", "out"}
  /\ module = "init" => stage \in 1..6 /\ held = Loaded[stage]
  /\ module = "undo" => stage \in 1..4 /\ held \subseteq Leftover[stage]
  /\ module = "up" => held = All /\ waitq
  /\ module = "exit" => stage \in 1..5 /\ held = Unloaded[stage]
  /\ module = "out" => held = {}

\* Who uses the device keeps the module in place: an open file from
\* device_create on, a linked user of the symbols once the module is up.
UseInv ==
  /\ open # {} => "device" \in held /\ module \in {"init", "up"}
  /\ \A w \in Writers : Busy(w) => w \in open
  /\ linked => module = "up"
  /\ gpc # "idle" => linked
  /\ crashed => module = "init"

LEMMA AcquiredIs ==
  /\ Acquired("region") = {"region"} /\ Acquired("buffers") = {"recv", "send"}
  /\ Acquired("cdev") = {"cdev"} /\ Acquired("class") = {"class"}
  /\ Acquired("device") = {"device"} /\ Acquired("queue") = {}
BY DEF Acquired, Buffers

\* One stage up, one down.
LEMMA LoadMoves ==
  ASSUME NEW n \in 1..6
  PROVE  /\ n < 6 => Loaded[n + 1] = Loaded[n] \cup Acquired(Stages[n]) /\ Stages[n] # "queue"
         /\ n = 6 => Loaded[n] \cup Acquired(Stages[n]) = All /\ Stages[n] = "queue"
         /\ "device" \in Loaded[n] => n = 6
<1>1. CASE n = 1  BY <1>1, AcquiredIs DEF Loaded, Stages, All
<1>2. CASE n = 2  BY <1>2, AcquiredIs DEF Loaded, Stages, All
<1>3. CASE n = 3  BY <1>3, AcquiredIs DEF Loaded, Stages, All
<1>4. CASE n = 4  BY <1>4, AcquiredIs DEF Loaded, Stages, All
<1>5. CASE n = 5  BY <1>5, AcquiredIs DEF Loaded, Stages, All
<1>6. CASE n = 6  BY <1>6, AcquiredIs DEF Loaded, Stages, All
<1> QED BY <1>1, <1>2, <1>3, <1>4, <1>5, <1>6

\* A failing stage leads to the step back that finds what it left.
LEMMA LabelsRight ==
  ASSUME NEW n \in 1..6, Stages[n] \in MayFail,
         NEW part \in {{}} \cup {b \in SUBSET Buffers : Stages[n] = "buffers" /\ b # Buffers}
  PROVE  \E s \in 1..4 :
           /\ s = CHOOSE k \in DOMAIN Undone : Undone[k] = Label[Stages[n]]
           /\ n < 6 /\ Loaded[n] \cup part \subseteq Leftover[s]
<1> DEFINE s == CHOOSE k \in DOMAIN Undone : Undone[k] = Label[Stages[n]]
<1>1. DOMAIN Undone = 1..4 /\ Undone[1] = "class" /\ Undone[2] = "cdev" /\ Undone[3] = "buffers"
      /\ Undone[4] = "region"
  BY DEF Undone
<1>2. ASSUME NEW k \in 1..4, Undone[k] = Label[Stages[n]] PROVE s = k
  <2>1. s \in 1..4 /\ Undone[s] = Undone[k]
    BY <1>1, <1>2
  <2> QED BY <1>1, <2>1
<1> SUFFICES n < 6 /\ s \in 1..4 /\ Loaded[n] \cup part \subseteq Leftover[s]
  OBVIOUS
<1> HIDE DEF s
<1>3. CASE n = 1
  BY <1>1, <1>2, <1>3 DEF Label, Stages, Loaded, Leftover
<1>4. CASE n = 2
  <2>1. s = 3
    BY <1>1, <1>2, <1>4 DEF Label, Stages
  <2>2. part \subseteq {"recv", "send"}
    BY DEF Buffers
  <2>3. Loaded[n] = {"region"} /\ Leftover[3] = {"region", "recv", "send"}
    BY <1>4 DEF Loaded, Leftover
  <2>4. Loaded[n] \cup part \subseteq Leftover[3]
    BY <2>2, <2>3
  <2> QED BY <1>4, <2>1, <2>4
<1>5. CASE n = 3
  BY <1>1, <1>2, <1>5 DEF Label, Stages, Loaded, Leftover
<1>6. CASE n = 4
  BY <1>1, <1>2, <1>6 DEF Label, Stages, Loaded, Leftover
<1>7. CASE n = 5
  BY <1>1, <1>2, <1>7 DEF Label, Stages, Loaded, Leftover
<1>8. n # 6
  BY StagesThatFail DEF StagesThatFail, Stages
<1> QED BY <1>3, <1>4, <1>5, <1>6, <1>7, <1>8

LEMMA UndoMoves ==
  ASSUME NEW n \in 1..4, NEW h, h \subseteq Leftover[n]
  PROVE  /\ n < 4 => h \ Acquired(Undone[n]) \subseteq Leftover[n + 1]
         /\ n = 4 => h \ Acquired(Undone[n]) = {}
<1>1. CASE n = 1
  <2>1. Leftover[n] = {"region", "recv", "send", "cdev", "class"}
        /\ Leftover[n + 1] = {"region", "recv", "send", "cdev"}
        /\ Acquired(Undone[n]) = {"class"}
    BY <1>1, AcquiredIs DEF Leftover, Undone
  <2> QED BY <1>1, <2>1
<1>2. CASE n = 2
  <2>1. Leftover[n] = {"region", "recv", "send", "cdev"}
        /\ Leftover[n + 1] = {"region", "recv", "send"}
        /\ Acquired(Undone[n]) = {"cdev"}
    BY <1>2, AcquiredIs DEF Leftover, Undone
  <2> QED BY <1>2, <2>1
<1>3. CASE n = 3
  <2>1. Leftover[n] = {"region", "recv", "send"}
        /\ Leftover[n + 1] = {"region"}
        /\ Acquired(Undone[n]) = {"recv", "send"}
    BY <1>3, AcquiredIs DEF Leftover, Undone
  <2> QED BY <1>3, <2>1
<1>4. CASE n = 4  BY <1>4, AcquiredIs DEF Leftover, Undone
<1> QED BY <1>1, <1>2, <1>3, <1>4

LEMMA ExitMoves ==
  ASSUME NEW n \in 1..5
  PROVE  /\ n < 5 => Unloaded[n] \ Acquired(Released[n]) = Unloaded[n + 1]
         /\ n = 5 => Unloaded[n] \ Acquired(Released[n]) = {}
<1>1. CASE n = 1  BY <1>1, AcquiredIs DEF Unloaded, Released, All
<1>2. CASE n = 2  BY <1>2, AcquiredIs DEF Unloaded, Released
<1>3. CASE n = 3  BY <1>3, AcquiredIs DEF Unloaded, Released
<1>4. CASE n = 4  BY <1>4, AcquiredIs DEF Unloaded, Released
<1>5. CASE n = 5  BY <1>5, AcquiredIs DEF Unloaded, Released
<1> QED BY <1>1, <1>2, <1>3, <1>4, <1>5

LEMMA HeldStep ==
  ASSUME HeldInv, UseInv, wpc \in [Writers -> {"idle", "copy", "len"}], ~crashed, DevNext
  PROVE  HeldInv' /\ UseInv'
<1> USE DEF HeldInv, UseInv, loading, users, writing, fetch
<1>1. CASE StageDone
  <2>1. module = "init" /\ stage \in 1..6 /\ Len(Stages) = 6
    BY <1>1 DEF StageDone, Stages
  <2>2. UNCHANGED <<crashed, open, linked, wpc, gpc>> /\ held \subseteq held'
    BY <1>1 DEF StageDone
  <2>3. HeldInv'
    <3>1. CASE stage < 6
      BY <1>1, <2>1, <3>1, LoadMoves DEF StageDone
    <3>2. CASE stage = 6
      BY <1>1, <2>1, <3>2, LoadMoves DEF StageDone
    <3> QED BY <2>1, <3>1, <3>2
  <2>4. module' \in {"init", "up"}
    BY <1>1, <2>1 DEF StageDone
  <2> QED BY <2>1, <2>2, <2>3, <2>4 DEF Busy
<1>2. CASE StageFails
  <2>1. module = "init" /\ stage \in 1..6 /\ Stages[stage] \in MayFail /\ module' = "undo"
    BY <1>2 DEF StageFails, StageFailsTo
  <2>2. stage # 6
    BY <2>1, StagesThatFail DEF StagesThatFail, Stages
  <2>3. open = {} /\ ~linked
    BY <2>1, <2>2, LoadMoves
  <2>4. UNCHANGED <<crashed, open, linked, wpc, gpc>>
    BY <1>2 DEF StageFails, StageFailsTo
  <2>5. stage' \in 1..4 /\ held' \subseteq Leftover[stage']
    BY <1>2, <2>1, LabelsRight DEF StageFails, StageFailsTo
  <2> QED BY <2>1, <2>3, <2>4, <2>5 DEF Busy
<1>3. CASE Undo
  <2>1. module = "undo" /\ stage \in 1..4 /\ Len(Undone) = 4 /\ held \subseteq Leftover[stage]
    BY <1>3 DEF Undo, Undone
  <2>2. open = {} /\ ~linked /\ UNCHANGED <<crashed, open, linked, wpc, gpc>>
    BY <1>3, <2>1 DEF Undo
  <2>3. HeldInv'
    <3>1. CASE stage < 4
      BY <1>3, <2>1, <3>1, UndoMoves DEF Undo
    <3>2. CASE stage = 4
      BY <1>3, <2>1, <3>2, UndoMoves DEF Undo
    <3> QED BY <2>1, <3>1, <3>2
  <2> QED BY <2>2, <2>3 DEF Busy
<1>4. CASE Rmmod
  <2>1. /\ module = "up" /\ module' = "exit" /\ stage' = 1 /\ ~linked /\ open = {}
        /\ UNCHANGED <<held, crashed, open, linked, wpc, gpc>>
    BY <1>4 DEF Rmmod, RmmodIf
  <2>2. Unloaded[1] = All
    BY DEF Unloaded
  <2> QED BY <2>1, <2>2 DEF Busy
<1>5. CASE Release
  <2>1. module = "exit" /\ stage \in 1..5 /\ Len(Released) = 5 /\ held = Unloaded[stage]
    BY <1>5 DEF Release, Released
  <2>2. open = {} /\ ~linked /\ UNCHANGED <<crashed, open, linked, wpc, gpc>>
    BY <1>5, <2>1 DEF Release
  <2>3. HeldInv'
    <3>1. CASE stage < 5
      BY <1>5, <2>1, <3>1, ExitMoves DEF Release
    <3>2. CASE stage = 5
      BY <1>5, <2>1, <3>2, ExitMoves DEF Release
    <3> QED BY <2>1, <3>1, <3>2
  <2> QED BY <2>2, <2>3 DEF Busy
<1>6. CASE Link \/ Unlink
  BY <1>6 DEF Link, Unlink, Busy
<1>7. ASSUME NEW w \in Writers, Open(w) \/ Close(w) PROVE HeldInv' /\ UseInv'
  BY <1>7 DEF Open, Close, Busy
<1>8. ASSUME NEW w \in Writers, WriteCopy(w) \/ WriteFaults(w) \/ WriteLen(w)
                                \/ \E m \in Messages : BoardWrite(w, m)
      PROVE  HeldInv' /\ UseInv'
  <2>1. UNCHANGED <<module, stage, held, waitq, open, linked, gpc>>
    BY <1>8 DEF WriteCopy, WriteFaults, WriteFaultsTo, WriteLen, BoardWrite
  <2>2. w \in open /\ \A v \in Writers : v # w => wpc'[v] = wpc[v]
    BY <1>8 DEF WriteCopy, WriteFaults, WriteFaultsTo, WriteLen, BoardWrite, Busy
  <2>3. crashed' => crashed \/ ~waitq
    BY <1>8 DEF WriteCopy, WriteFaults, WriteFaultsTo, WriteLen, BoardWrite
  <2> QED BY <2>1, <2>2, <2>3 DEF Busy
<1>9. CASE (\E n \in Cell : Fetch(n)) \/ FetchLen \/ FetchCopy \/ FetchReturn \/ FetchForgotten
  BY <1>9 DEF Fetch, FetchLen, FetchCopy, FetchReturn, FetchForgotten, Busy
<1> QED
  BY <1>1, <1>2, <1>3, <1>4, <1>5, <1>6, <1>7, <1>8, <1>9 DEF DevNext

-----------------------------------------------------------------------------
(* KeyEventDevice: the buffer, its writers and the fetch.                  *)

WriteTypes ==
  /\ wpc \in [Writers -> {"idle", "copy", "len"}]
  /\ msg \in [Writers -> Messages \cup {Nothing}] /\ wat \in [Writers -> Nat]
  /\ alone \in [Writers -> BOOLEAN]
  /\ recv \in [Cell -> Messages \cup {Nothing}] /\ recv_len \in 0..2
  /\ last \in Messages \cup {Nothing} /\ spoilt \in BOOLEAN
  /\ \A w \in Writers :
       /\ Busy(w) => msg[w] \in Messages
       /\ wpc[w] = "copy" => wat[w] \in 1..Cells(msg[w])
       /\ wpc[w] = "len" => wat[w] = Cells(msg[w]) + 1

FetchTypes ==
  /\ gpc \in {"idle", "memcpy", "copy", "len", "done"}
  /\ cap \in Cell /\ out \in [Cell -> Messages \cup {Nothing}] /\ olen \in 0..2
  /\ gat \in 1..3 /\ ret \in 0..2 /\ met \in BOOLEAN
  /\ gpc = "copy" => gat \in 1..olen

\* The buffer holds the last message, whole, with its length.
Sound ==
  IF recv_len = 0 THEN last = Nothing
                  ELSE last # Nothing /\ recv_len = Cells(last) /\ IsIn(last, recv)

\* A write that nobody came across has stored what it has copied; and as long
\* as no write has got past its first cell, nothing has happened to the buffer.
BufferInv ==
  /\ \A w \in Writers : Busy(w) /\ alone[w] =>
       /\ \A v \in Writers \ {w} : ~Busy(v)
       /\ \A c \in Cell : c < wat[w] => recv[c] = msg[w]
  /\ ~spoilt /\ (\A w \in Writers : Busy(w) => wat[w] = 1) => Sound

\* A fetch that met no write has copied the first cells of the buffer.
Copied(n) == \A c \in Cell : c < n => out[c] = recv[c]

FetchInv ==
  ~met /\ gpc # "idle" =>
    /\ ~spoilt /\ \A w \in Writers : ~Busy(w)
    /\ gpc \in {"memcpy", "copy", "len"} => recv_len <= cap
    /\ gpc = "copy" => olen = recv_len /\ Copied(gat)
    /\ gpc = "len" => Copied(recv_len + 1)
    /\ gpc = "done" =>
         IF ret = 0 THEN recv_len = 0 \/ recv_len > cap
                    ELSE ret = recv_len /\ recv_len <= cap /\ Copied(recv_len + 1)

DataInv == WriteTypes /\ FetchTypes /\ BufferInv /\ FetchInv

LEMMA CellsIs == \A m : Cells(m) \in 1..2
BY DEF Cells

\* The steps of one writer.
LEMMA DataWrite ==
  ASSUME DataInv, NEW w \in Writers,
         WriteCopy(w) \/ WriteFaults(w) \/ WriteLen(w) \/ \E m \in Messages : BoardWrite(w, m)
  PROVE  DataInv'
<1> USE DEF DataInv, WriteTypes, FetchTypes, Busy, fetch, buffer, writing
<1>1. ASSUME NEW m \in Messages, BoardWrite(w, m) PROVE DataInv'
  <2>1. UNCHANGED <<buffer, fetch, last, spoilt>> /\ met' = TRUE
    BY <1>1 DEF BoardWrite
  <2>2. /\ wpc' = [wpc EXCEPT ![w] = "copy"] /\ msg' = [msg EXCEPT ![w] = m]
        /\ wat' = [wat EXCEPT ![w] = 1] /\ wpc[w] = "idle"
        /\ alone' = [v \in Writers |-> IF v = w THEN \A u \in Writers : wpc[u] = "idle" ELSE FALSE]
    BY <1>1 DEF BoardWrite
  <2>3. WriteTypes' /\ FetchTypes'
    BY <2>1, <2>2, CellsIs
  <2>4. BufferInv'
    <3>1. Sound' <=> Sound
      BY <2>1 DEF Sound, IsIn, Cells
    <3>2. \A v \in Writers : Busy(v)' /\ alone'[v] => v = w /\ \A u \in Writers \ {w} : ~Busy(u)'
      BY <2>2
    <3>3. (\A v \in Writers : Busy(v)' => wat'[v] = 1) => \A v \in Writers : Busy(v) => wat[v] = 1
      BY <2>2
    <3>4. \A c \in Cell : ~(c < wat'[w])
      BY <2>2 DEF Cell
    <3> QED BY <2>1, <3>1, <3>2, <3>3, <3>4 DEF BufferInv
  <2>5. FetchInv'
    BY <2>1 DEF FetchInv
  <2> QED BY <2>3, <2>4, <2>5
<1>2. CASE WriteCopy(w)
  <2>1. /\ wpc[w] = "copy" /\ wat[w] \in 1..Cells(msg[w]) /\ msg[w] \in Messages
        /\ Cells(msg[w]) \in 1..2 /\ wat[w] \in Cell
    BY <1>2, CellsIs DEF WriteCopy, Cell
  <2>2. /\ recv' = [recv EXCEPT ![wat[w]] = msg[w]] /\ wat' = [wat EXCEPT ![w] = @ + 1]
        /\ wpc' = [wpc EXCEPT ![w] = IF wat[w] < Cells(msg[w]) THEN "copy" ELSE "len"]
        /\ UNCHANGED <<recv_len, msg, alone, fetch, last, spoilt, met>>
    BY <1>2 DEF WriteCopy
  <2>3. WriteTypes' /\ FetchTypes'
    BY <2>1, <2>2
  <2>4. BufferInv'
    <3>1. ASSUME NEW v \in Writers, Busy(v)', alone'[v]
          PROVE  /\ \A u \in Writers \ {v} : ~Busy(u)'
                 /\ \A c \in Cell : c < wat'[v] => recv'[c] = msg'[v]
      <4>1. Busy(v) /\ v = w
        BY <2>1, <2>2, <3>1 DEF BufferInv
      <4> QED BY <2>1, <2>2, <3>1, <4>1 DEF BufferInv, Cell
    <3>2. Busy(w)' /\ wat'[w] # 1
      BY <2>1, <2>2
    <3> QED BY <3>1, <3>2 DEF BufferInv
  <2>5. FetchInv'
    BY <2>1, <2>2 DEF FetchInv
  <2> QED BY <2>3, <2>4, <2>5
<1>3. CASE WriteFaults(w)
  <2>1. /\ wpc[w] = "copy" /\ wat[w] \in Nat /\ wat[w] >= 1
        /\ wpc' = [wpc EXCEPT ![w] = "idle"] /\ spoilt' = (spoilt \/ wat[w] > 1)
        /\ UNCHANGED <<recv, recv_len, msg, wat, alone, fetch, last, met>>
    BY <1>3, CellsIs DEF WriteFaults, WriteFaultsTo
  <2>2. WriteTypes' /\ FetchTypes'
    BY <2>1
  <2>3. BufferInv'
    <3>1. Sound' <=> Sound
      BY <2>1 DEF Sound, IsIn, Cells
    <3>2. \A v \in Writers : Busy(v)' => v # w /\ Busy(v)
      BY <2>1
    <3>3. \A v \in Writers : ~Busy(v) => ~Busy(v)'
      BY <2>1
    <3>4. ~spoilt' /\ (\A v \in Writers : Busy(v)' => wat'[v] = 1)
            => ~spoilt /\ \A v \in Writers : Busy(v) => wat[v] = 1
      <4>1. ~spoilt' => ~spoilt /\ ~(wat[w] > 1)
        BY <1>3 DEF WriteFaults, WriteFaultsTo
      <4>2. \A v \in Writers : v # w => wpc'[v] = wpc[v] /\ wat'[v] = wat[v]
        BY <2>1
      <4>3. ~(wat[w] > 1) => wat[w] = 1
        BY <2>1
      <4> QED BY <4>1, <4>2, <4>3
    <3> QED BY <2>1, <3>1, <3>2, <3>3, <3>4 DEF BufferInv
  <2>4. FetchInv'
    BY <2>1 DEF FetchInv
  <2> QED BY <2>2, <2>3, <2>4
<1>4. CASE WriteLen(w)
  <2>1. /\ wpc[w] = "len" /\ wat[w] = Cells(msg[w]) + 1 /\ msg[w] \in Messages
        /\ Cells(msg[w]) \in 1..2
        /\ recv_len' = Cells(msg[w]) /\ wpc' = [wpc EXCEPT ![w] = "idle"]
        /\ last' = msg[w] /\ spoilt' = ~alone[w]
        /\ UNCHANGED <<recv, msg, wat, alone, fetch, met>>
    BY <1>4, CellsIs DEF WriteLen
  <2>2. WriteTypes' /\ FetchTypes'
    BY <2>1
  <2>3. ~spoilt' => Sound'
    <3> SUFFICES ASSUME alone[w] PROVE Sound'
      BY <2>1
    <3>1. recv_len' # 0 /\ last' # Nothing /\ recv_len' = Cells(last')
      BY <2>1, MessageSizes DEF MessageSizes
    <3>2. \A c \in 1..Cells(msg[w]) : c \in Cell /\ c < wat[w]
      BY <2>1 DEF Cell
    <3>3. \A c \in 1..Cells(last') : recv'[c] = last'
      BY <2>1, <3>2 DEF BufferInv
    <3> QED BY <3>1, <3>3 DEF Sound, IsIn, Cells
  <2>4. BufferInv'
    BY <2>1, <2>3 DEF BufferInv
  <2>5. FetchInv'
    BY <2>1 DEF FetchInv
  <2> QED BY <2>2, <2>4, <2>5
<1> QED
  BY <1>1, <1>2, <1>3, <1>4

\* The steps of the fetch.
LEMMA DataFetch ==
  ASSUME DataInv,
         (\E n \in Cell : Fetch(n)) \/ FetchLen \/ FetchCopy \/ FetchReturn \/ FetchForgotten
  PROVE  DataInv'
<1> USE DEF DataInv, WriteTypes, FetchTypes, Busy, fetch, buffer, writing
<1>1. UNCHANGED <<wpc, msg, wat, alone, recv, recv_len, last, spoilt>>
  BY DEF Fetch, FetchLen, FetchCopy, FetchReturn, FetchForgotten
<1>2. WriteTypes' /\ BufferInv'
  <2>1. WriteTypes'
    BY <1>1 DEF Cells
  <2>2. Sound' <=> Sound
    BY <1>1 DEF Sound, IsIn, Cells
  <2>3. BufferInv'
    BY <1>1, <2>2 DEF BufferInv
  <2> QED BY <2>1, <2>3
<1>3. ASSUME NEW n \in Cell, Fetch(n) PROVE FetchTypes' /\ FetchInv'
  <2>1. FetchTypes'
    BY <1>1, <1>3 DEF Fetch, Cell
  <2>2. ~met' => ~spoilt /\ \A w \in Writers : ~Busy(w)
    BY <1>3 DEF Fetch
  <2>3. \/ gpc' = "done" /\ ret' = 0 /\ recv_len > cap'
        \/ gpc' = "memcpy" /\ recv_len <= cap'
    BY <1>3 DEF Fetch, Cell
  <2>4. FetchInv'
    BY <1>1, <2>2, <2>3 DEF FetchInv
  <2> QED BY <2>1, <2>4
<1>4. CASE FetchLen
  <2>1. FetchTypes'
    BY <1>1, <1>4 DEF FetchLen, Cell
  <2>2. FetchInv'
    BY <1>1, <1>4 DEF FetchLen, FetchInv, Copied, Cell
  <2> QED BY <1>2, <2>1, <2>2
<1>5. CASE FetchCopy
  <2>1. FetchTypes'
    BY <1>1, <1>5 DEF FetchCopy, Cell
  <2>2. FetchInv'
    BY <1>1, <1>5 DEF FetchCopy, FetchInv, Copied, Cell
  <2> QED BY <1>2, <2>1, <2>2
<1>6. CASE FetchReturn
  <2>1. FetchTypes'
    BY <1>1, <1>6 DEF FetchReturn, Cell
  <2>2. FetchInv'
    BY <1>1, <1>6 DEF FetchReturn, FetchInv, Copied, Cell
  <2> QED BY <1>2, <2>1, <2>2
<1>7. CASE FetchForgotten
  <2>1. FetchTypes'
    BY <1>1, <1>7 DEF FetchForgotten, Cell, Vacant
  <2>2. FetchInv'
    BY <1>1, <1>7 DEF FetchForgotten, FetchInv, Copied, Cell
  <2> QED BY <1>2, <2>1, <2>2
<1> QED
  BY <1>2, <1>3, <1>4, <1>5, <1>6, <1>7

LEMMA DataKept ==
  ASSUME DataInv, UNCHANGED <<buffer, writing, fetch, last, spoilt, met>>
  PROVE  DataInv'
<1> USE DEF DataInv, buffer, writing, fetch
<1>1. WriteTypes' /\ FetchTypes'
  BY DEF WriteTypes, FetchTypes, Busy, Cells
<1>2. Sound' <=> Sound
  BY DEF Sound, IsIn, Cells
<1>3. BufferInv'
  BY <1>2 DEF BufferInv, Busy
<1>4. FetchInv'
  BY DEF FetchInv, Copied, Busy
<1> QED
  BY <1>1, <1>3, <1>4

LEMMA DevStep ==
  ASSUME HeldInv /\ UseInv /\ DataInv, [DevNext]_devvars
  PROVE  (HeldInv /\ UseInv /\ DataInv)'
<1>1. CASE UNCHANGED devvars
  BY <1>1, DataKept DEF devvars, loading, users, writing, fetch, HeldInv, UseInv, Busy
<1>2. CASE DevNext
  <2>1. HeldInv' /\ UseInv'
    BY <1>2, HeldStep DEF DevNext, DataInv, WriteTypes
  <2>2. DataInv'
    BY <1>2, DataKept, DataWrite, DataFetch DEF DevNext, StageDone, StageFails, StageFailsTo,
       Undo, Rmmod, RmmodIf, Release, Link, Unlink, Open, Close
  <2> QED BY <2>1, <2>2
<1> QED
  BY <1>1, <1>2

LEMMA DevAlways == DevSpec => [](HeldInv /\ UseInv /\ DataInv)
<1>1. DevInit => HeldInv /\ UseInv
  BY DEF DevInit, HeldInv, UseInv, Busy, Loaded
<1>2. DevInit => DataInv
  <2> SUFFICES ASSUME DevInit PROVE DataInv
    OBVIOUS
  <2>1. WriteTypes
    <3>1. /\ wpc \in [Writers -> {"idle", "copy", "len"}]
          /\ msg \in [Writers -> Messages \cup {Nothing}] /\ wat \in [Writers -> Nat]
          /\ alone \in [Writers -> BOOLEAN] /\ \A w \in Writers : wpc[w] = "idle"
      BY DEF DevInit
    <3>2. recv \in [Cell -> Messages \cup {Nothing}] /\ recv_len \in 0..2
      BY DEF DevInit, Vacant
    <3>3. last \in Messages \cup {Nothing} /\ spoilt \in BOOLEAN
      BY DEF DevInit
    <3> QED BY <3>1, <3>2, <3>3 DEF WriteTypes, Busy
  <2>2. FetchTypes
    <3>1. out \in [Cell -> Messages \cup {Nothing}] /\ met \in BOOLEAN
      BY DEF DevInit, Vacant
    <3>2. gpc = "idle" /\ cap = 1 /\ olen = 0 /\ gat = 1 /\ ret = 0
      BY DEF DevInit
    <3> QED BY <3>1, <3>2 DEF FetchTypes, Cell
  <2>3. BufferInv /\ FetchInv
    BY DEF DevInit, BufferInv, FetchInv, Sound, Busy
  <2> QED BY <2>1, <2>2, <2>3 DEF DataInv
<1> QED
  BY <1>1, <1>2, DevStep, PTL DEF DevSpec

\* Whatever board_button_dev_init fails at, the module keeps nothing when it is
\* out, and it has everything while it is up.
THEOREM NothingLeaks == DevSpec => []HoldsWhatItShould
<1>1. UNION {Acquired(Stages[n]) : n \in DOMAIN Stages} = All
  <2>1. DOMAIN Stages = 1..6
    BY DEF Stages
  <2>2. \A n \in 1..6 : Acquired(Stages[n]) \subseteq All
    BY AcquiredIs DEF Stages, All
  <2>3. All \subseteq UNION {Acquired(Stages[n]) : n \in 1..6}
    <3>1. /\ Acquired(Stages[1]) = {"region"} /\ Acquired(Stages[2]) = {"recv", "send"}
          /\ Acquired(Stages[3]) = {"cdev"} /\ Acquired(Stages[4]) = {"class"}
          /\ Acquired(Stages[5]) = {"device"}
      BY AcquiredIs DEF Stages
    <3> QED BY <3>1 DEF All
  <2> QED BY <2>1, <2>2, <2>3
<1>2. HeldInv /\ UseInv /\ DataInv => HoldsWhatItShould
  BY <1>1 DEF HeldInv, HoldsWhatItShould
<1> QED
  BY DevAlways, <1>2, PTL

\* No writer and no fetch is ever inside a buffer that is not allocated, and
\* wake_up meets an uninitialised queue only while the module is being loaded.
THEOREM BuffersStay == DevSpec => []ThereWhileUsed
<1>1. HeldInv /\ UseInv /\ DataInv => ThereWhileUsed
  <2> SUFFICES ASSUME HeldInv, UseInv PROVE ThereWhileUsed
    OBVIOUS
  <2>1. ASSUME open # {} PROVE Buffers \subseteq held
    <3>1. CASE module = "up"
      BY <3>1 DEF HeldInv, All, Buffers
    <3>2. CASE module = "init"
      <4>1. stage = 6 /\ held = Loaded[6]
        BY <2>1, <3>2, LoadMoves DEF HeldInv, UseInv
      <4> QED BY <4>1 DEF Loaded, All, Buffers
    <3> QED BY <2>1, <3>1, <3>2 DEF UseInv
  <2>2. ASSUME linked PROVE Buffers \subseteq held
    BY <2>2 DEF HeldInv, UseInv, All, Buffers
  <2> QED BY <2>1, <2>2 DEF UseInv, ThereWhileUsed
<1> QED
  BY DevAlways, <1>1, PTL

\* get_trigger_board_input_event_handler returns the last message whole unless
\* a write comes across it, for any number of writers, complete or not.
THEOREM UndisturbedFetch == DevSpec => []FetchesWhole
<1>1. HeldInv /\ UseInv /\ DataInv => FetchesWhole
  <2> SUFFICES ASSUME DataInv, gpc = "done", ~met
               PROVE  IF ret = 0 THEN last = Nothing \/ Cells(last) > cap
                                 ELSE /\ last # Nothing /\ ret = Cells(last)
                                      /\ ret <= cap /\ IsIn(last, out)
    BY DEF FetchesWhole
  <2>1. Sound /\ recv_len \in 0..2 /\ cap \in Nat /\ ret \in 0..2
    BY DEF DataInv, WriteTypes, FetchTypes, BufferInv, FetchInv, Copied, Cell
  <2>2. IF ret = 0 THEN recv_len = 0 \/ recv_len > cap
                   ELSE ret = recv_len /\ recv_len <= cap /\ Copied(recv_len + 1)
    BY DEF DataInv, FetchInv
  <2>3. CASE ret = 0
    BY <2>1, <2>2, <2>3 DEF Sound
  <2>4. CASE ret # 0
    BY <2>1, <2>2, <2>4 DEF Sound, IsIn, Copied, Cell
  <2> QED BY <2>3, <2>4
<1> QED
  BY DevAlways, <1>1, PTL

-----------------------------------------------------------------------------
(* IrqSig.                                                                 *)

\* The types of what the rest depends on.
Ranges ==
  /\ pin \in {0, 1} /\ pin_status \in {0, 1} /\ key_val \in {0, 1}
  /\ at \in 0..4 /\ runs \in Nat /\ actions \in Nat
  /\ key_async \subseteq Files
  /\ reading \in [Files -> {"no", "copy", "clear"}] /\ got \in [Files -> {0, 1}]

\* The handler runs only while the interrupt is requested, and once for each
\* request: free_irq waits for it.
Requested ==
  /\ edge \/ at # 0 => actions > 0
  /\ at # 0 => runs > 0
  /\ told \subseteq key_async

\* What the handler has sampled is the level unless an edge has come since, and
\* what it has stored is what it has sampled.
SampleIsFresh ==
  /\ ~edge /\ (at \in 2..4 \/ (at = 0 /\ told # {})) => pin_status = pin
  /\ at \in 3..4 \/ (at = 0 /\ told # {}) => key_val = pin_status

\* A process that was sent a SIGIO and is not about to copy has copied the last
\* value, up to the moment the handler stores the next.
CopyIsFresh ==
  \A f \in told : f \notin sigio /\ reading[f] # "copy" /\ at \in 0..2 => got[f] = key_val

\* A value nobody has copied is announced, or is going to be.
Announced == key_val # lastread => ev_press \/ erased \/ at = 3

\* A read that ev_press was not set in the middle of has copied the last value.
ClearsRightly ==
  \A f \in Files :
    reading[f] = "clear" /\ f \notin pressed /\ at # 3 => key_val = lastread

IrqInv == Ranges /\ Requested /\ SampleIsFresh /\ CopyIsFresh /\ Announced /\ ClearsRightly

\* The order of the handler's steps.
LEMMA OrderOfSteps ==
  ASSUME at \in 0..4, at # 0
  PROVE  /\ Order[at] = "gpio" => at = 1
         /\ Order[at] = "key_val" => at = 2
         /\ Order[at] = "ev_press" => at = 3
         /\ Order[at] = "kill_fasync" => at = 4
  BY DEF Order

LEMMA InitInv == IrqInit => IrqInv
<1> SUFFICES ASSUME IrqInit PROVE IrqInv
  OBVIOUS
<1>1. Ranges
  BY DEF IrqInit, Ranges
<1>2. Requested
  BY DEF IrqInit, Ranges, Requested
<1>3. SampleIsFresh
  BY DEF IrqInit, Ranges, Requested, SampleIsFresh
<1>4. CopyIsFresh
  BY DEF IrqInit, Ranges, CopyIsFresh
<1>5. Announced
  BY DEF IrqInit, Ranges, Announced, ClearsRightly
<1>6. ClearsRightly
  BY DEF IrqInit, Ranges, ClearsRightly
<1> QED BY <1>1, <1>2, <1>3, <1>4, <1>5, <1>6 DEF IrqInv

LEMMA HandlerInv ==
  ASSUME IrqInv, HandlerSamples \/ HandlerStores \/ HandlerPresses \/ HandlerSignals
  PROVE  IrqInv'
<1> USE DEF IrqInv
<1>1. CASE HandlerSamples
  <2>1. at = 1 /\ at' = 2 /\ runs' = runs
    BY <1>1, OrderOfSteps DEF HandlerSamples, Handling, Advance, Ranges
  <2> QED BY <2>1, <1>1 DEF HandlerSamples, Handling, Ranges, Requested, SampleIsFresh,
               CopyIsFresh, Announced, ClearsRightly, readers
<1>2. CASE HandlerStores
  <2>1. at = 2 /\ at' = 3 /\ runs' = runs
    BY <1>2, OrderOfSteps DEF HandlerStores, Handling, Advance, Ranges
  <2> QED BY <2>1, <1>2 DEF HandlerStores, Handling, Ranges, Requested, SampleIsFresh,
               CopyIsFresh, Announced, ClearsRightly, readers
<1>3. CASE HandlerPresses
  <2>1. at = 3 /\ at' = 4 /\ runs' = runs
    BY <1>3, OrderOfSteps DEF HandlerPresses, Handling, Advance, Ranges
  <2>2. Ranges'
    BY <2>1, <1>3 DEF HandlerPresses, Handling, readers, Ranges
  <2>3. Requested'
    BY <2>1, <1>3 DEF HandlerPresses, Handling, readers, Ranges, Requested
  <2>4. SampleIsFresh'
    BY <2>1, <1>3 DEF HandlerPresses, Handling, readers, Ranges, Requested, SampleIsFresh
  <2>5. CopyIsFresh'
    BY <2>1, <1>3 DEF HandlerPresses, Handling, readers, Ranges, CopyIsFresh
  <2>6. Announced'
    BY <2>1, <1>3 DEF HandlerPresses, Handling, readers, Ranges, Announced, ClearsRightly
  <2>7. ClearsRightly'
    BY <2>1, <1>3 DEF HandlerPresses, Handling, readers, Ranges, ClearsRightly
  <2> QED BY <2>2, <2>3, <2>4, <2>5, <2>6, <2>7
<1>4. CASE HandlerSignals
  <2>1. at = 4 /\ runs > 0 /\ runs \in Nat
    BY <1>4, OrderOfSteps DEF HandlerSignals, Handling, Ranges, Requested
  <2>2. /\ at' \in {0, 1} /\ runs' \in Nat
        /\ at' # 0 => runs' > 0
    BY <2>1, <1>4 DEF HandlerSignals, Handling, Advance
  <2> QED BY <2>1, <2>2, <1>4 DEF HandlerSignals, Handling, Ranges, Requested, SampleIsFresh,
               CopyIsFresh, Announced, ClearsRightly, readers
<1> QED BY <1>1, <1>2, <1>3, <1>4

LEMMA LineInv ==
  ASSUME IrqInv, KeyMoves \/ IrqEnter
  PROVE  IrqInv'
<1> USE DEF IrqInv, readers
<1>1. Ranges'
  BY DEF KeyMoves, IrqEnter, Ranges
<1>2. Requested'
  BY DEF KeyMoves, IrqEnter, Ranges, Requested
<1>3. SampleIsFresh'
  <2>1. CASE KeyMoves /\ actions > 0
    <3>1. edge' = TRUE /\ told' = told /\ UNCHANGED <<at, key_val, pin_status>>
      BY <2>1, Zenon DEF KeyMoves
    <3> QED BY <3>1 DEF SampleIsFresh
  <2>2. CASE KeyMoves /\ ~(actions > 0)
    <3>1. at = 0 /\ told' = {} /\ at' = at
      BY <2>2 DEF KeyMoves, Requested, Ranges
    <3> QED BY <3>1 DEF SampleIsFresh
  <2>3. CASE IrqEnter
    BY <2>3 DEF IrqEnter, SampleIsFresh
  <2> QED BY <2>1, <2>2, <2>3
<1>4. CopyIsFresh'
  BY DEF KeyMoves, IrqEnter, Ranges, CopyIsFresh
<1>5. Announced'
  BY DEF KeyMoves, IrqEnter, Ranges, Announced, ClearsRightly
<1>6. ClearsRightly'
  BY DEF KeyMoves, IrqEnter, Ranges, ClearsRightly
<1> QED BY <1>1, <1>2, <1>3, <1>4, <1>5, <1>6

LEMMA FileInv ==
  ASSUME IrqInv, NEW f \in Files, KeyOpen(f) \/ KeyRelease(f) \/ KeyFasync(f)
  PROVE  IrqInv'
<1> USE DEF IrqInv, Ranges, Requested, SampleIsFresh, CopyIsFresh, Announced,
            ClearsRightly, readers, wired
<1>1. CASE KeyOpen(f)
  <2>1. Ranges'
    BY <1>1 DEF KeyOpen, Ranges
  <2>2. Requested'
    BY <1>1 DEF KeyOpen, Ranges, Requested
  <2>3. SampleIsFresh'
    BY <1>1 DEF KeyOpen, Ranges, Requested, SampleIsFresh
  <2>4. CopyIsFresh'
    BY <1>1 DEF KeyOpen, Ranges, CopyIsFresh
  <2>5. Announced'
    BY <1>1 DEF KeyOpen, Ranges, Announced, ClearsRightly
  <2>6. ClearsRightly'
    BY <1>1 DEF KeyOpen, Ranges, ClearsRightly
  <2> QED BY <2>1, <2>2, <2>3, <2>4, <2>5, <2>6
<1>2. CASE KeyRelease(f)
  <2>1. /\ at = 0 /\ at' = 0 /\ reading[f] = "no" /\ actions' \in Nat
        /\ opened' = opened \ {f} /\ key_async' = key_async \ {f} /\ sigio' = sigio \ {f}
        /\ UNCHANGED <<pin, runs, pin_status, key_val, ev_press, readers, pressed, erased>>
    BY <1>2 DEF KeyRelease, KeyReleaseIf
  <2>2. CASE actions' > 0
    <3>1. edge' = (edge /\ TRUE) /\ told' = told \ {f}
      BY <1>2, <2>2, Zenon DEF KeyRelease, KeyReleaseIf
    <3>2. ~edge' => ~edge
      BY <3>1, Zenon
    <3> QED BY <2>1, <2>2, <3>1, <3>2
  <2>3. CASE ~(actions' > 0)
    <3>1. edge' = FALSE /\ told' = {}
      BY <1>2, <2>3, Zenon DEF KeyRelease, KeyReleaseIf
    <3> QED BY <2>1, <2>3, <3>1
  <2> QED BY <2>2, <2>3
<1>3. CASE KeyFasync(f)
  BY <1>3 DEF KeyFasync
<1> QED BY <1>1, <1>2, <1>3

LEMMA ReaderInv ==
  ASSUME IrqInv, NEW f \in Files, TakeSigio(f) \/ KeyPoll(f) \/ ReadCopies(f) \/ ReadClears(f)
  PROVE  IrqInv'
<1> USE DEF IrqInv, Ranges, Requested, SampleIsFresh, CopyIsFresh, Announced,
            ClearsRightly, wired
<1>1. CASE TakeSigio(f)
  BY <1>1 DEF TakeSigio
<1>2. CASE KeyPoll(f)
  BY <1>2 DEF KeyPoll
<1>3. CASE ReadCopies(f)
  BY <1>3 DEF ReadCopies
<1>4. CASE ReadClears(f)
  BY <1>4 DEF ReadClears
<1> QED BY <1>1, <1>2, <1>3, <1>4

LEMMA Invariance == IrqSpec => []IrqInv
<1>1. IrqInv /\ [IrqNext]_keyvars => IrqInv'
  <2> SUFFICES ASSUME IrqInv, [IrqNext]_keyvars PROVE IrqInv'
    OBVIOUS
  <2>1. CASE UNCHANGED keyvars
    BY <2>1 DEF keyvars, wired, readers, IrqInv, Ranges, Requested, SampleIsFresh,
                CopyIsFresh, Announced, ClearsRightly
  <2>2. CASE IrqNext
    BY <2>2, HandlerInv, LineInv, FileInv, ReaderInv DEF IrqNext
  <2> QED BY <2>1, <2>2
<1> QED BY <1>1, InitInv, PTL DEF IrqSpec

\* A process told by SIGIO ends up with the level of the key (eint9_interrupt,
\* key_read), for any number of processes and files.
THEOREM SigioReadersEndRight == IrqSpec => []SigioBringsTheLevel
<1>1. IrqInv => SigioBringsTheLevel
  BY DEF IrqInv, Ranges, SampleIsFresh, CopyIsFresh, SigioBringsTheLevel
<1> QED BY <1>1, Invariance, PTL

\* ev_press hides a new value only when an interrupt comes between lines 123 and
\* 124 of some read.
THEOREM NewsAreAnnounced == IrqSpec => []UnreadIsAnnounced
<1>1. IrqInv => UnreadIsAnnounced
  BY DEF IrqInv, Announced, UnreadIsAnnounced
<1> QED BY <1>1, Invariance, PTL

\* The last close leaves no handler behind (key_open, key_release).
THEOREM LastCloseFrees == IrqSpec => []NoHandlerWithoutFile
<1> DEFINE Inv == IsFiniteSet(opened) /\ actions \in Nat /\ NoHandlerWithoutFile
<1>1. IrqInit => Inv
  BY FS_EmptySet DEF IrqInit, NoHandlerWithoutFile
<1>2. Inv /\ [IrqNext]_keyvars => Inv'
  <2> SUFFICES ASSUME Inv, [IrqNext]_keyvars PROVE Inv'
    OBVIOUS
  <2>0. Cardinality(opened) \in Nat
    BY FS_CardinalityType
  <2>1. ASSUME NEW f \in Files, KeyOpen(f) PROVE Inv'
    <3>1. f \notin opened /\ opened' = opened \cup {f} /\ actions' \in {actions, actions + 1}
      BY <2>1 DEF KeyOpen
    <3>2. IsFiniteSet(opened') /\ Cardinality(opened') = Cardinality(opened) + 1
      BY <3>1, FS_AddElement
    <3> QED BY <3>1, <3>2, <2>0 DEF NoHandlerWithoutFile
  <2>2. ASSUME NEW f \in Files, KeyRelease(f) PROVE Inv'
    <3>1. /\ f \in opened /\ opened' = opened \ {f}
          /\ actions' = IF actions > 0 THEN actions - 1 ELSE actions
      BY <2>2 DEF KeyRelease, KeyReleaseIf
    <3>2. IsFiniteSet(opened') /\ Cardinality(opened') = Cardinality(opened) - 1
      BY <3>1, FS_RemoveElement
    <3>3. Cardinality(opened') \in Nat
      BY <3>2, FS_CardinalityType
    <3> QED BY <3>1, <3>2, <3>3, <2>0 DEF NoHandlerWithoutFile
  <2>3. CASE UNCHANGED <<opened, actions>>
    BY <2>3 DEF NoHandlerWithoutFile
  <2>4. IrqNext => \/ \E f \in Files : KeyOpen(f) \/ KeyRelease(f)
                   \/ UNCHANGED <<opened, actions>>
    BY DEF IrqNext, KeyMoves, IrqEnter, HandlerSamples, HandlerStores, HandlerPresses,
           HandlerSignals, Handling, KeyFasync, TakeSigio, KeyPoll, ReadCopies, ReadClears
  <2> QED BY <2>1, <2>2, <2>3, <2>4 DEF keyvars
<1>3. Inv => NoHandlerWithoutFile
  OBVIOUS
<1> QED BY <1>1, <1>2, <1>3, PTL DEF IrqSpec
=============================================================================
