----------------------------- MODULE KeyValueStore -----------------------------
(***************************************************************************)
(* What Memory promises of its long-term store: one key at a time changes,  *)
(* at once, while a call of store is under way and at no other time; what   *)
(* recall answers is what is stored; neither a failed call nor a crash      *)
(* changes anything; and a loss of power goes back to something that was    *)
(* stored since the storage last settled, never to anything else.           *)
(***************************************************************************)
CONSTANTS Keys, Values, None

VARIABLES
  contents,      \* what is stored
  recoverable,   \* what a loss of power may go back to
  view,          \* what recall answers, None while nobody can ask
  pending        \* the key and value a call of store is to change, or None

vars == <<contents, recoverable, view, pending>>

Init ==
  /\ contents = [k \in Keys |-> None] /\ recoverable = {contents}
  /\ view = None /\ pending = None

Call(k, v) ==
  /\ view # None
  /\ view' = None /\ pending' = <<k, v>>
  /\ UNCHANGED <<contents, recoverable>>

Put ==
  /\ pending # None
  /\ contents' = [contents EXCEPT ![pending[1]] = pending[2]]
  /\ recoverable' = recoverable \cup {contents'}
  /\ pending' = None
  /\ UNCHANGED view

(* The call returns or fails, or the program starts.                       *)
Answer ==
  /\ view = None
  /\ view' = contents /\ pending' = None
  /\ UNCHANGED <<contents, recoverable>>

(* The call gives up, or the program goes down.                            *)
Leave ==
  /\ view' = None /\ pending' = None
  /\ UNCHANGED <<contents, recoverable>>

Settle ==
  /\ recoverable' = {contents}
  /\ UNCHANGED <<contents, view, pending>>

LosePower ==
  /\ contents' \in recoverable /\ recoverable' = {contents'}
  /\ view' = None /\ pending' = None

Next ==
  \/ \E k \in Keys, v \in Values : Call(k, v)
  \/ Put \/ Answer \/ Leave \/ Settle \/ LosePower

Spec == Init /\ [][Next]_vars
=============================================================================
