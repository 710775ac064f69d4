-------------------------- MODULE SequentialNextable --------------------------
(***************************************************************************)
(* What a Nextable promises to the trainer that consumes it                *)
(* (data/nextable/nextable.py): one position, the items of the positions   *)
(* in order, a state_dict() that is the position of what was consumed,     *)
(* and a load_state_dict() that goes back to such a position.              *)
(***************************************************************************)
EXTENDS Integers

CONSTANTS
  DPSize, DPRank,  \* the data parallel group, and the rank of this trainer
  Size,            \* length of the sampled data set, which is looped over
  Saved            \* positions of checkpoints of earlier jobs

VARIABLES
  at,       \* position: the index of the next item of the whole group
  started,  \* whether an item or a state was asked for or loaded
  out       \* what the last call returned

\* DPMux over a looped sampler: the item of this rank, the next position.
ItemAt(pos) == (pos + DPRank) % Size

Advance(pos) == pos + DPSize

Nothing == [kind |-> "nothing", val |-> 0]
Error == [kind |-> "error", val |-> 0]
Item(i) == [kind |-> "item", val |-> i]
StateOf(pos) == [kind |-> "state", val |-> pos]
Repr(pos) == [kind |-> "repr", val |-> pos]

Init == at = 0 /\ started = FALSE /\ out = Nothing

\* A failure to prepare the item takes its place.
Take ==
  /\ out' \in {Item(ItemAt(at)), Error}
  /\ at' = Advance(at) /\ started' = TRUE

\* state_dict() and repr(); before the start there is nobody to answer.
Look ==
  /\ out' \in IF started THEN {StateOf(at), Repr(at)} ELSE {Error, Repr(at)}
  /\ UNCHANGED <<at, started>>

\* A checkpoint holds a position at which some job stood.
Load == at' \in Saved \cup 0 .. at /\ started' = TRUE /\ UNCHANGED out

Start == ~started /\ started' = TRUE /\ UNCHANGED <<at, out>>

Spec == Init /\ [][Take \/ Look \/ Load \/ Start]_<<at, started, out>>
=============================================================================
