---------------------------- MODULE MacLimitTable ----------------------------
(***************************************************************************)
(* MacLimit implements AdmissionTable: a hook holds a claim from the walk  *)
(* that found room until it gives up or fills the mailbox; the mailbox     *)
(* holds one while the thread will read it, the thread while it inserts.   *)
(***************************************************************************)
EXTENDS MacLimit

\* c found the list below the limit and has not yet acted on it.
Claiming(c) ==
  \/ pc[c] = "decide" /\ seen[c] < MaxLimit
  \/ pc[c] \in {"post", "store"} /\ mode[c] = "ADD_IMMEDIATE"

\* An ADD_IMMEDIATE request that the thread is serving or will serve.  A
\* flag stored during a pass is erased at its end and is no claim.
Pending ==
  \/ tpc \in {"alloc", "lock", "insert"} /\ pos = 0
  \/ tpc \in {"top", "unparked", "sched"} /\ flag = "ADD_IMMEDIATE"

Claims == Cardinality({c \in Cpus : Claiming(c)}) + (IF Pending THEN 1 ELSE 0)

Table == INSTANCE AdmissionTable
           WITH Capacity <- MaxLimit, MaxClaims <- Cardinality(Cpus) + 1,
                size <- Len(list), claims <- Claims

\* Every step of hooks and thread is a claim, an admission, a claim given
\* up, or leaves the table alone.
ImplementsTable == Table!TSpec
=============================================================================
