------------------------------ MODULE MCUpsert ------------------------------
(* Two workers on three messages, two of them with the same key. *)
EXTENDS Upsert, TLC

CONSTANTS m1, m2, m3, k1, k2, w1, w2

MCMessages == {m1, m2, m3}
MCKeyOf == (m1 :> k1) @@ (m2 :> k1) @@ (m3 :> k2)
=============================================================================
