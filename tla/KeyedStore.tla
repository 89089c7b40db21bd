----------------------------- MODULE KeyedStore -----------------------------
(***************************************************************************)
(* What the jdbc-upsert sink promises: "Insert new data or update existing *)
(* data".  A table has for each key nothing or the content of one message, *)
(* and each message is put into it in one step.                            *)
(***************************************************************************)
CONSTANTS Messages, Keys, KeyOf

VARIABLE table     \* table[key]: the messages visible under the key

Init == table = [key \in Keys |-> {}]

Put(m) == table' = [table EXCEPT ![KeyOf[m]] = {m}]

Next == \E m \in Messages : Put(m)

Spec == Init /\ [][Next]_table
=============================================================================
