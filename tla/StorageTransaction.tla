------------------------- MODULE StorageTransaction -------------------------
(***************************************************************************)
(* What the world state cache promises: a transaction reads its own writes *)
(* over the committed values, and its writes become visible to the next    *)
(* transaction all at once, or not at all.                                 *)
(***************************************************************************)
CONSTANTS Keys, Values, None, Empty

VARIABLES
    committed, \* key -> value before the transaction, or None
    pending,   \* key -> value inside the transaction, or None
    answer     \* of the last operation: <<operation, key, result>>, or <<>>

vars == <<committed, pending, answer>>

Init ==
    /\ committed \in [Keys -> Values \cup {None}]
    /\ pending = committed
    /\ answer = <<>>

Read(k) == answer' = <<"get", k, pending[k]>> /\ UNCHANGED <<committed, pending>>

\* next_epoch finds a value that it deleted empty.
EpochRead(k) ==
    /\ \/ answer' = <<"epoch_get", k, pending[k]>>
       \/ pending[k] = None /\ answer' = <<"epoch_get", k, Empty>>
    /\ UNCHANGED <<committed, pending>>

Write(k, v) ==
    /\ pending' = [pending EXCEPT ![k] = v]
    /\ answer' = <<>>
    /\ UNCHANGED committed

\* A key is contained if it has a value, or had one before the transaction.
Contains(k) ==
    /\ answer' = <<"contains", k, pending[k] # None \/ committed[k] # None>>
    /\ UNCHANGED <<committed, pending>>

Discard == pending' = committed /\ answer' = <<>> /\ UNCHANGED committed

\* The value of a key is taken out of the transaction ...
Purge(k) ==
    /\ answer' = <<"purge", k, pending[k]>>
    /\ pending' = [pending EXCEPT ![k] = committed[k]]
    /\ UNCHANGED committed

\* ... and replaced by one that stays, whatever becomes of the transaction.
Settle(k, v) ==
    /\ committed' = [committed EXCEPT ![k] = v]
    /\ pending' = [pending EXCEPT ![k] = v]
    /\ answer' = <<>>

Commit == committed' = pending /\ answer' = <<>> /\ UNCHANGED pending

Next ==
    \/ \E k \in Keys : Read(k) \/ EpochRead(k) \/ Contains(k) \/ Purge(k)
    \/ \E k \in Keys, v \in Values \cup {None} : Write(k, v)
    \/ \E k \in Keys, v \in Values : Settle(k, v)
    \/ Discard
    \/ Commit

Spec == Init /\ [][Next]_vars

=============================================================================
