------------------------------ MODULE MCParts -------------------------------
(***************************************************************************)
(* Model checking of modules that share nothing: SpeedTestTraffic,         *)
(* KeyEventDevice, IrqSig, HttpRedirect, MacLimitProc and DesPadding.  A   *)
(* behaviour runs one of them and leaves the variables of the others at    *)
(* their initial values, so that their state spaces add up.                *)
(***************************************************************************)
EXTENDS SpeedTestTraffic, KeyEventDevice, IrqSig, HttpRedirect, MacLimitProc, DesPadding, TLC

VARIABLE part

Interchangeable == Permutations(Gens)

PartsInit ==
  /\ part \in {"traffic", "device", "irq", "http", "proc", "des3"}
  /\ TInit /\ DevInit /\ IrqInit /\ HttpInit /\ ProcInit /\ DesInit
  /\ part # "irq" => pin = 0
  /\ part # "des3" => username = <<>>

PartsNext ==
  /\ part' = part /\ username' = username
  /\ \/ part = "traffic" /\ TNext /\ UNCHANGED <<devvars, keyvars, httpvars, procvars>>
     \/ part = "device" /\ DevNext /\ UNCHANGED <<tvars, keyvars, httpvars, procvars>>
     \/ part = "irq" /\ IrqNext /\ UNCHANGED <<tvars, devvars, httpvars, procvars>>
     \/ part = "http" /\ HttpNext /\ UNCHANGED <<tvars, devvars, keyvars, procvars>>
     \/ part = "proc" /\ ProcNext /\ UNCHANGED <<tvars, devvars, keyvars, httpvars>>

PartsSpec == PartsInit /\ [][PartsNext]_<<part, username, tvars, devvars, keyvars, httpvars, procvars>>

-----------------------------------------------------------------------------
CharsDef == {"a", "b", "c"}
UrlsDef == {<<"a">>, <<"b", "c">>}

\* Lines no user means: nothing, a blank first, a blank last, no end of line.
OthersDef ==
  {<<>>, <<" ", "3", "\n">>, <<"3", " ", "\n">>, <<"3", " ", "1">>, <<"3", " ">>, <<"0", "1", "7", "\n">>}
StacksDef == {<<c, "1", Null>> : c \in {" ", "1", Null}}

\* Every length up to two blocks of sixteen, bytes that look like padding
\* included.
NamesDef == {[i \in 1..n |-> IF i = n THEN b ELSE 97] : n \in 0..32, b \in {1, 2, 8, 15, 16, 97}}
=============================================================================
