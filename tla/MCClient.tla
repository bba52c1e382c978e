------------------------------ MODULE MCClient ------------------------------
(* Instances of Client: batches of one and two, keys that repeat or are missing. *)
EXTENDS Client, TLC
CONSTANTS p1, p2, o1, k, u
MCItem(key, unique) == [idempotencyKey |-> key, uniqueKey |-> unique]
MCBatches == {<<MCItem(k, NoKey), MCItem(k, u)>>,
              <<MCItem(NoKey, u), MCItem(NoKey, NoKey)>>,
              <<MCItem(k, u), MCItem(NoKey, NoKey)>>,
              <<MCItem(NoKey, u)>>}
MCSymmetry == Permutations(Producer)
=============================================================================
