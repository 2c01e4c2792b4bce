------------------------------ MODULE RunChain -------------------------------
(***************************************************************************)
(* What the durable engine promises about a run, without queue, leases or  *)
(* workers: a run is one chain of slices.  It opens with its first slice,  *)
(* each slice either is followed by the next one or ends the run, and a    *)
(* run ends once.                                                          *)
(***************************************************************************)
EXTENDS Naturals

CONSTANT Run

VARIABLES
  stage,   \* stage[r]: where the run stands
  slices   \* slices[r]: how many slices it has had

chainVars == <<stage, slices>>

Final == {"completed", "parked", "failed"}
Stage == {"absent", "open"} \cup Final

ChainInit ==
  /\ stage = [r \in Run |-> "absent"]
  /\ slices = [r \in Run |-> 0]

Open(r) ==
  /\ stage[r] = "absent"
  /\ stage' = [stage EXCEPT ![r] = "open"]
  /\ slices' = [slices EXCEPT ![r] = 1]

Advance(r) ==
  /\ stage[r] = "open"
  /\ slices' = [slices EXCEPT ![r] = @ + 1]
  /\ UNCHANGED stage

Settle(r, how) ==
  /\ stage[r] = "open"
  /\ stage' = [stage EXCEPT ![r] = how]
  /\ UNCHANGED slices

ChainNext == \E r \in Run : Open(r) \/ Advance(r) \/ \E how \in Final : Settle(r, how)

ChainSpec == ChainInit /\ [][ChainNext]_chainVars

==============================================================================
