---------------------------- MODULE JobLifecycle ----------------------------
(***************************************************************************)
(* What the queue promises about one job row: the transition table of      *)
(* engine/state-machine.ts with what its descriptions say of attempts,     *)
(* reasons and run_at, and the attempt limit of the schema.  A step may    *)
(* move several rows at once, because the claim, reap, replay and prune    *)
(* statements do.                                                          *)
(***************************************************************************)
EXTENDS Naturals

CONSTANTS Job,          \* job ids
          MaxAttempts   \* max_attempts, the same for every job of the instance

VARIABLES state,        \* state of each row
          attempt,      \* attempt counter of each row
          dead_reason,  \* why a row is dead, or "none"
          due           \* run_at of the row has passed

vars == <<state, attempt, dead_reason, due>>

TerminalStates == {"succeeded", "dead", "cancelled"}
JobStates == {"available", "running"} \cup TerminalStates

\* A row that is not in the table has not been inserted yet, or was deleted.
RowStates == JobStates \cup {"absent", "deleted"}

Transition(f, t, r) == [from |-> f, to |-> t, reason |-> r]

TRANSITIONS ==
  { Transition("available", "running",   "claim"),
    Transition("available", "cancelled", "cancel"),
    Transition("running",   "succeeded", "succeed"),
    Transition("running",   "available", "retry"),
    Transition("running",   "dead",      "exhaust"),
    Transition("running",   "dead",      "non_retryable"),
    Transition("running",   "available", "reap_retry"),
    Transition("running",   "dead",      "reap_exhaust"),
    Transition("running",   "cancelled", "cancel_ack"),
    Transition("dead",      "available", "replay"),
    Transition("available", "available", "operator_retry") }

\* "with attempts remaining", "on the final permitted attempt": of a failure and
\* of an expired lease the attempt counter alone decides.
Permits(t, a) == /\ t.reason \in {"retry", "reap_retry"}     => a < MaxAttempts
                 /\ t.reason \in {"exhaust", "reap_exhaust"} => a = MaxAttempts

\* The attempt counter after a transition: a claim consumes one attempt and
\* never exceeds the limit, a replay starts over, nothing else touches it.
AttemptAfter(t, a) ==
  CASE t.reason = "claim"  -> a + 1
    [] t.reason = "replay" -> 0
    [] OTHER               -> a

ReasonAfter(t) ==
  CASE t.reason = "exhaust"       -> "attempts_exhausted"
    [] t.reason = "reap_exhaust"  -> "lease_expired"
    [] t.reason = "non_retryable" -> "non_retryable_error"
    [] OTHER                      -> "none"

\* A retry waits for its backoff; who asks for a run now gets it.
DueAfter(t, d) ==
  CASE t.reason \in {"retry", "reap_retry"}      -> FALSE
    [] t.reason \in {"replay", "operator_retry"} -> TRUE
    [] OTHER                                     -> d

\* enqueue: the row appears.
Enqueues(j) == /\ state[j] = "absent"  /\ state'[j] = "available"
               /\ attempt[j] = 0       /\ attempt'[j] = 0
               /\ dead_reason'[j] = "none"

\* One entry of the table fires.  (A run_at that passes looks like an
\* operator_retry.)
Moves(j) == \E t \in TRANSITIONS :
               /\ state[j] = t.from
               /\ Permits(t, attempt[j])
               /\ state'[j] = t.to
               /\ attempt'[j] = AttemptAfter(t, attempt[j])
               /\ attempt'[j] <= MaxAttempts
               /\ dead_reason'[j] = ReasonAfter(t)
               /\ due'[j] = DueAfter(t, due[j])

\* releaseJob is no entry of the table: a worker that shuts down gives the row
\* back, due at once and with the attempt consumed, be it the last one.
Releases(j) == /\ state[j] = "running"       /\ state'[j] = "available"
               /\ attempt'[j] = attempt[j]
               /\ dead_reason'[j] = "none"
               /\ due'[j]

\* Retention or a purge deletes the row; its id is never used again.
Leaves(j) == /\ state[j] \in JobStates /\ state'[j] = "deleted"
             /\ attempt'[j] = attempt[j]

Rests(j) == /\ state'[j] = state[j]
            /\ attempt'[j] = attempt[j]
            /\ dead_reason'[j] = dead_reason[j]
            /\ due'[j] = due[j]

Init == /\ state       = [j \in Job |-> "absent"]
        /\ attempt     = [j \in Job |-> 0]
        /\ dead_reason = [j \in Job |-> "none"]
        /\ due         = [j \in Job |-> FALSE]

Next == /\ state'       \in [Job -> RowStates]
        /\ attempt'     \in [Job -> Nat]
        /\ dead_reason' \in [Job -> {"none", "attempts_exhausted", "lease_expired",
                                     "non_retryable_error"}]
        /\ due'         \in [Job -> BOOLEAN]
        /\ \A j \in Job : Enqueues(j) \/ Moves(j) \/ Releases(j) \/ Leaves(j) \/ Rests(j)

Spec == Init /\ [][Next]_vars
=============================================================================
