----------------------------- MODULE AtMostOnce -----------------------------
(***************************************************************************)
(* What tracked invocations promise for a key, whatever keeps the evidence *)
(* (docs/tracked-invocations.md: one operation id is one logical side      *)
(* effect): an operation is started at most once until its evidence has    *)
(* passed its retention, and completes only after it was started.          *)
(***************************************************************************)
CONSTANT Key

VARIABLE owed   \* [Key -> "free", "started" or "completed"]

Init == owed = [k \in Key |-> "free"]

Start(k) == owed[k] = "free" /\ owed' = [owed EXCEPT ![k] = "started"]

\* An operation may still complete after its evidence expired.
Finish(k) ==
  owed[k] \in {"free", "started"} /\ owed' = [owed EXCEPT ![k] = "completed"]

\* Retention passes for some operations at once.
Expire(S) == owed' = [k \in Key |-> IF k \in S THEN "free" ELSE owed[k]]

Next == \/ \E k \in Key : Start(k) \/ Finish(k)
        \/ \E S \in SUBSET Key : Expire(S)

Spec == Init /\ [][Next]_owed

=============================================================================
