--------------------------- MODULE AdmissionTable ---------------------------
(***************************************************************************)
(* What maclimit promises about the number of devices it lets through:     *)
(* somebody who finds the table below its capacity gets a claim to one     *)
(* slot, keeps it for as long as it likes, and may fill the slot later     *)
(* although the table has become full.  Slots are never given back; a      *)
(* device that takes over another one's slot does not change the size.     *)
(***************************************************************************)
EXTENDS Integers

CONSTANTS
  Capacity,  (* the configured limit                                       *)
  MaxClaims  (* how many claims can be outstanding                         *)

TableParameters == Capacity \in Nat \ {0} /\ MaxClaims \in Nat

VARIABLES
  size,      (* slots in use                                               *)
  claims     (* claims not yet used or given up                            *)

tvars == <<size, claims>>

TInit == size = 0 /\ claims = 0

Claim ==
  /\ size < Capacity /\ claims < MaxClaims
  /\ claims' = claims + 1 /\ size' = size

Admit == claims > 0 /\ claims' = claims - 1 /\ size' = size + 1

Forgo == claims > 0 /\ claims' = claims - 1 /\ size' = size

TNext == Claim \/ Admit \/ Forgo

TSpec == TInit /\ [][TNext]_tvars

-----------------------------------------------------------------------------
\* Used and claimed slots together stay below capacity plus claims: a full
\* table gives no claim any more, so a claim pays for every admission.  The
\* hooks of maclimit.c claim, its thread admits.
SlotsCovered ==
  /\ size \in Nat /\ claims \in 0..MaxClaims
  /\ size + claims < Capacity + MaxClaims
=============================================================================
