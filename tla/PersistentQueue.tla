--------------------------- MODULE PersistentQueue ---------------------------
(***************************************************************************)
(* The PersistentQueue of utils/rl_utils.py: a FIFO with rollback.  A      *)
(* queue is a record                                                       *)
(*   data     the items waiting, oldest first (the code's deque keeps the  *)
(*            newest on the left: put is extendleft, pop takes the right   *)
(*            end, so the sequence here is the deque read right to left),  *)
(*   pending  the items handed out by get() and not yet acked, oldest      *)
(*            first (the OrderedDict in insertion order).                  *)
(* An item stands for its own uuid: ack(x) removes one occurrence of x.    *)
(* get() is two separate effects in the code (pop from the deque, then     *)
(* insert into pending), so it is given as two operators; Get is their     *)
(* composition, for callers that nobody can observe in between.            *)
(***************************************************************************)
EXTENDS Integers, Sequences, SequencesExt

EmptyQueue == [data |-> <<>>, pending |-> <<>>]

\* len(queue): the pending items do not count.
QLen(q) == Len(q.data)

Put(q, x) == [q EXCEPT !.data = Append(@, x)]

Peek(q) == Head(q.data)

Pop(q) == [q EXCEPT !.data = Tail(@)]

Pend(q, x) == [q EXCEPT !.pending = Append(@, x)]

Get(q) == Pend(Pop(q), Peek(q))

\* s without an occurrence of x.  (SequencesExt's RemoveFirst passes a LAMBDA,
\* which the provers cannot instantiate.)
Without(s, x) ==
  IF Contains(s, x) THEN RemoveAt(s, CHOOSE i \in 1 .. Len(s) : s[i] = x) ELSE s

\* pending.pop(id, None): silent when the item is not pending.
Ack(q, x) == [q EXCEPT !.pending = Without(@, x)]

\* Mutant: the un-acked items are left out.
DataOnly(pending, data) == data

\* What state_dict() returns, oldest first: un-acked items go back in front.
StateDict(pending, data) == pending \o data

\* load_state_dict() replaces the deque and leaves pending alone.
LoadState(q, sd) == [q EXCEPT !.data = sd]
=============================================================================
