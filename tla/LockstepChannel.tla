-------------------------- MODULE LockstepChannel --------------------------
(***************************************************************************)
(* What a payment channel promises its two participants, without messages  *)
(* or signatures: each holds a state of one and the same history.  The     *)
(* participant that is ahead is ahead by one valid transition, and the     *)
(* other can only catch up to that very state.                             *)
(***************************************************************************)
EXTENDS PaymentState

VARIABLE held     \* state participant i can enforce, None before the opening

LInit == held = [i \in Idx |-> None]

\* The channel starts with the state both participants derive from a proposal.
LOpen(i) ==
  /\ held[i] = None
  /\ \E p \in ProposalIds, n \in Nonces :
       /\ held[Other(i)] \in {None, NewState(p, n)}
       /\ held' = [held EXCEPT ![i] = NewState(p, n)]

\* From a common state, one participant goes first ...
LAdvance(i) ==
  /\ held[i] # None
  /\ held[Other(i)] = held[i]
  /\ \E s \in State :
       /\ check_valid_transition(held[i], s)
       /\ held' = [held EXCEPT ![i] = s]

\* ... and the other follows.
LCatchUp(i) ==
  /\ held[i] # None
  /\ held[Other(i)] # None
  /\ check_valid_transition(held[i], held[Other(i)])
  /\ held' = [held EXCEPT ![i] = held[Other(i)]]

LNext ==
  /\ held' # held
  /\ \E i \in Idx : LOpen(i) \/ LAdvance(i) \/ LCatchUp(i)

LSpec == LInit /\ [][LNext]_held
=============================================================================
