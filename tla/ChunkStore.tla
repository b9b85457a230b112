----------------------------- MODULE ChunkStore -----------------------------
(***************************************************************************)
(* What the ChunkStore trait promises its callers, whatever stands behind  *)
(* it: a call ends in the bytes that hash to the name asked for, in an     *)
(* error, or with the death of the caller's process.                       *)
(***************************************************************************)
CONSTANTS Tasks, Chunks, None, Done, Err

VARIABLES call, \* the call a task is in, None between calls
          ret   \* what the task's last call came back with

vars == <<call, ret>>

Ops == {"get", "ensure"}
Calls == [op : Ops, sha : Chunks]

\* get hands out the plaintext the name stands for; ensure hands out nothing.
Answers(k) == {Err, IF k.op = "get" THEN k.sha ELSE Done}

Init == /\ call = [t \in Tasks |-> None]
        /\ ret = [t \in Tasks |-> None]

Call(t, k) == /\ call[t] = None
              /\ call' = [call EXCEPT ![t] = k]
              /\ ret' = [ret EXCEPT ![t] = None]

Answer(t) == /\ call[t] # None
             /\ call' = [call EXCEPT ![t] = None]
             /\ \E a \in Answers(call[t]) : ret' = [ret EXCEPT ![t] = a]

\* A process dies and takes the calls of its tasks with it.
Abort(S) == /\ call' = [t \in Tasks |-> IF t \in S THEN None ELSE call[t]]
            /\ ret' = [t \in Tasks |-> IF t \in S THEN None ELSE ret[t]]

Next == \/ \E t \in Tasks : \/ \E k \in Calls : Call(t, k)
                            \/ Answer(t)
        \/ \E S \in SUBSET Tasks : Abort(S)

Spec == Init /\ [][Next]_vars
=============================================================================
