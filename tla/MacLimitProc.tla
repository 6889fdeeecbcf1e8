---------------------------- MODULE MacLimitProc ----------------------------
(***************************************************************************)
(* write_maclimit_proc: how a line written to the proc file becomes        *)
(* limit_num and enable.  The line is copied to a buffer on the stack and  *)
(* not terminated, so that what the stack holds follows it.  The loop      *)
(* takes its first character, and every blank before something else, for   *)
(* the start of an argument, and uses two of them.                         *)
(***************************************************************************)
EXTENDS Naturals, Sequences

CONSTANTS
  Numbers,      (* what users write: numbers in decimal                    *)
  MaxBlanks,    (* between the numbers                                     *)
  Others,       (* further lines                                           *)
  Stacks        (* what the stack may hold after the line                  *)

VARIABLES
  limit_num, limit_enable,   (* maclimit_cfg                                  *)
  echoed        (* history: the last line written                          *)

procvars == <<limit_num, limit_enable, echoed>>

Digits == <<"0", "1", "2", "3", "4", "5", "6", "7", "8", "9">>
Blank  == " "
NewLine == "\n"
Null == "\\0"

\* simple_strtoul with base 0, at position i of b: a leading zero means octal.
\* It skips no blanks.  No line here has a hexadecimal number.
Base(b, i) == IF b[i] = "0" THEN 8 ELSE 10
IsDigit(c, base) == \E d \in 1..base : Digits[d] = c
DigitValue(c) == (CHOOSE d \in 1..10 : Digits[d] = c) - 1

simple_strtoul(b, i) ==
  LET base == Base(b, i)
      end  == CHOOSE j \in i..Len(b) + 1 :
                /\ \A k \in i..j - 1 : IsDigit(b[k], base)
                /\ j > Len(b) \/ ~IsDigit(b[j], base)
      value[j \in i - 1..end - 1] ==
        IF j < i THEN 0 ELSE value[j - 1] * base + DigitValue(b[j])
  IN  value[end - 1]

\* The positions the switch is reached at, for a line of n characters.
HitsIf(b, n, next) ==
  {i \in 1..n : i = 1 \/ (b[i] = Blank /\ b[i + 1] \notin next)}

Hits_everyBlank(b, n) == HitsIf(b, n, {Null})
Hits(b, n) == HitsIf(b, n, {Null, Blank})

ProcInit ==
  /\ limit_num = 1 /\ limit_enable = 0
  /\ echoed = <<>>

Write(text, stack) ==
  LET b    == text \o stack
      hits == Hits(b, Len(text))
      more == hits \ {1}
  IN  /\ echoed' = text
      /\ limit_num' = IF hits = {} THEN limit_num ELSE simple_strtoul(b, 1)
      /\ limit_enable' = IF more = {} THEN limit_enable
                         ELSE simple_strtoul(b, 1 + CHOOSE i \in more : \A j \in more : i <= j)
-----------------------------------------------------------------------------
\* The lines echo sends, as the README has them: echo [num] [enable/disable].
Decimal(n) ==
  IF n < 10 THEN <<Digits[n + 1]>> ELSE <<Digits[(n \div 10) + 1], Digits[(n % 10) + 1]>>
Blanks(n) == [i \in 1..n |-> Blank]
One(n, tail) == Decimal(n) \o tail \o <<NewLine>>
Two(n, k, e, tail) == Decimal(n) \o Blanks(k) \o Decimal(e) \o tail \o <<NewLine>>
Tails == {<<>>, <<Blank>>, <<Blank, "7">>}

Lines ==
  {One(n, <<>>) : n \in Numbers} \cup Others
    \cup {Two(n, k, e, t) : n \in Numbers, k \in 1..MaxBlanks, e \in {0, 1}, t \in Tails}

ProcNext == \E text \in Lines, stack \in Stacks : Write(text, stack)
ProcSpec == ProcInit /\ [][ProcNext]_procvars

\* Whatever the stack holds after it, a line with the two numbers of the README
\* sets both, however many blanks are between them and whatever follows; a line
\* with one number sets the limit and leaves enable alone.
EchoIsUnderstood ==
  [][procvars' # procvars =>
       \A n \in Numbers :
         /\ echoed' = One(n, <<>>) => limit_num' = n /\ limit_enable' = limit_enable
         /\ \A k \in 1..MaxBlanks, e \in {0, 1}, t \in Tails :
              echoed' = Two(n, k, e, t) => limit_num' = n /\ limit_enable' = e]_procvars
=============================================================================
