-------------------------------- MODULE FIFO --------------------------------
(***************************************************************************)
(* What a bounded buffer promises: calls of put and get by any number of   *)
(* threads, each of which takes effect at one moment between its call and  *)
(* its return, on a queue of at most N items.                              *)
(***************************************************************************)
EXTENDS Naturals, Sequences

CONSTANTS Threads, Items, N

VARIABLES
  queue,
  op,    \* op[t]: "idle", "put" or "get" (called), "done" (to return)
  item   \* item[t]: the argument of put, the result of get

vars == <<queue, op, item>>

Init ==
  /\ queue = <<>>
  /\ op = [t \in Threads |-> "idle"]
  /\ item \in [Threads -> Items]

CallPut(t, v) ==
  /\ op[t] = "idle"
  /\ op' = [op EXCEPT ![t] = "put"]
  /\ item' = [item EXCEPT ![t] = v]
  /\ UNCHANGED queue

CallGet(t) ==
  /\ op[t] = "idle"
  /\ op' = [op EXCEPT ![t] = "get"]
  /\ UNCHANGED <<queue, item>>

Put(t) ==
  /\ op[t] = "put" /\ Len(queue) < N
  /\ queue' = Append(queue, item[t])
  /\ op' = [op EXCEPT ![t] = "done"]
  /\ UNCHANGED item

Get(t) ==
  /\ op[t] = "get" /\ queue # <<>>
  /\ item' = [item EXCEPT ![t] = Head(queue)]
  /\ queue' = Tail(queue)
  /\ op' = [op EXCEPT ![t] = "done"]

Return(t) ==
  /\ op[t] = "done"
  /\ op' = [op EXCEPT ![t] = "idle"]
  /\ UNCHANGED <<queue, item>>

Next ==
  \E t \in Threads :
    \/ \E v \in Items : CallPut(t, v)
    \/ CallGet(t) \/ Put(t) \/ Get(t) \/ Return(t)

Spec == Init /\ [][Next]_vars

=============================================================================
