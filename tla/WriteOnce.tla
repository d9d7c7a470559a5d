----------------------------- MODULE WriteOnce -----------------------------
(***************************************************************************)
(* What the file-publishing stages of the OpenScore pipeline promise to    *)
(* whoever reads their results: a key has no value, or one value that was  *)
(* put there in a single step and that nothing ever replaces.              *)
(***************************************************************************)
CONSTANTS Key, Value, Absent

VARIABLE store

Init == store = [k \in Key |-> Absent]

Put(k) ==
  /\ store[k] = Absent
  /\ store'[k] \in Value
  /\ store' = [store EXCEPT ![k] = store'[k]]

Next == \E k \in Key : Put(k)

Spec == Init /\ [][Next]_store
=============================================================================
