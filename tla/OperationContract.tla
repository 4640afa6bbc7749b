------------------------- MODULE OperationContract -------------------------
(***************************************************************************)
(* What the caller of the executor sees of one task, whichever attempts    *)
(* and workers run it (spec sections 4.1, 4.3 and 7): stage-change events  *)
(* on the operation stream, ended by one terminal COMPLETED event after    *)
(* which nothing is sent, and the ActionResults the action cache receives. *)
(*   - a result goes under the action's own (canonical) digest only if the *)
(*     command exited 0 without error and the action is cacheable;         *)
(*   - a cached result is served only from the canonical digest;           *)
(*   - a fresh result is published only after it was stored;               *)
(*   - a terminal failure carries only an error Bazel's retry policy       *)
(*     understands; any other failure is retried invisibly.                *)
(* Retries change nothing the caller sees, so they are stuttering steps.   *)
(***************************************************************************)
EXTENDS Integers, Sequences

VARIABLES events, cache, task

NoError == "none"

(* Errors the caller's own retry policy handles (isBazelRetryableError). *)
CallerRetryable == {"ResourceExhausted", "FailedPreconditionDetails"}

Terminated == \E i \in 1..Len(events) : events[i].stage = "COMPLETED"

Cacheable(e) == e.exit = 0 /\ e.err = NoError /\ ~task.doNotCache

Init ==
    /\ events = <<>>
    /\ cache \subseteq {[key |-> "canonical", exit |-> 0, err |-> NoError]}
    /\ task.doNotCache \in BOOLEAN

Send(stage, kind, exit, err) ==
    /\ ~Terminated
    /\ events' = Append(events, [stage |-> stage, kind |-> kind,
                                 exit |-> exit, err |-> err])
    /\ UNCHANGED <<cache, task>>

Progress(stage) ==
    /\ stage \in {"CACHE_CHECK", "EXECUTING"}
    /\ Send(stage, "progress", 0, NoError)

Store(e) ==
    /\ ~Terminated
    /\ e.key = "canonical" => Cacheable(e)
    /\ cache' = cache \cup {e}
    /\ UNCHANGED <<events, task>>

CompleteFromCache ==
    \E e \in cache : e.key = "canonical" /\ Send("COMPLETED", "cached", e.exit, e.err)

CompleteWithResult ==
    \E e \in cache : Send("COMPLETED", "result", e.exit, e.err)

CompleteWithFailure(err) ==
    /\ err \in CallerRetryable
    /\ Send("COMPLETED", "failure", 0, err)

Next ==
    \/ \E s \in {"CACHE_CHECK", "EXECUTING"} : Progress(s)
    \/ \E e \in [key : {"canonical", "salted"}, exit : {0, 1, -1},
                 err : {NoError} \cup {"Unavailable", "ResourceExhausted",
                        "FailedPrecondition", "FailedPreconditionDetails",
                        "InvalidArgument", "Unknown", "DeadlineExceeded",
                        "SIGKILL", "NoSuchFile"}] : Store(e)
    \/ CompleteFromCache
    \/ CompleteWithResult
    \/ \E err \in CallerRetryable : CompleteWithFailure(err)

Spec == Init /\ [][Next]_<<events, cache, task>>
====
