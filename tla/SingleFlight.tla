---------------------------- MODULE SingleFlight ----------------------------
(***************************************************************************)
(* What the response cache of a coordinator promises the callers that send *)
(* it a named batch (the class docstring of ps3_cluster/dedup.py: "Runs a  *)
(* batch at most once per (request_id, fingerprint), within bounds"):      *)
(*                                                                         *)
(*   - two executions of one batch id never overlap;                       *)
(*   - a caller is answered by one execution of its own request, or is     *)
(*     refused without an answer.                                          *)
(*                                                                         *)
(* Nothing here says how: there is no table, no lock, no clock.  DedupCache *)
(* implements it for the ids whose responses fit the cache.                *)
(***************************************************************************)
CONSTANTS Calls,      \* calls of run(), each made once
          Requests,   \* what a call may ask for
          IdOf(_),    \* the batch id of a request
          NoRequest,  \* not a request
          NoCall      \* not a call

VARIABLES stage,      \* where each call stands
          asked,      \* the request of each call
          source      \* the execution that answered each call

vars == <<stage, asked, source>>

Init == /\ stage  = [c \in Calls |-> "idle"]
        /\ asked  = [c \in Calls |-> NoRequest]
        /\ source = [c \in Calls |-> NoCall]

Running(i) == {c \in Calls : stage[c] = "running" /\ IdOf(asked[c]) = i}

Ask(c, r) ==
    /\ stage[c] = "idle"
    /\ stage' = [stage EXCEPT ![c] = "asked"]
    /\ asked' = [asked EXCEPT ![c] = r]
    /\ UNCHANGED source

\* An execution begins only while no other execution of the same id runs.
Start(c) ==
    /\ stage[c] = "asked"
    /\ Running(IdOf(asked[c])) = {}
    /\ stage' = [stage EXCEPT ![c] = "running"]
    /\ UNCHANGED <<asked, source>>

Complete(c) ==
    /\ stage[c] = "running"
    /\ stage' = [stage EXCEPT ![c] = "ran"]
    /\ UNCHANGED <<asked, source>>

\* The call that ran its batch is answered by its own execution.
ReturnOwn(c) ==
    /\ stage[c] = "ran"
    /\ stage'  = [stage EXCEPT ![c] = "closed"]
    /\ source' = [source EXCEPT ![c] = c]
    /\ UNCHANGED asked

\* Any other call is answered by a completed execution of the same request.
ReturnShared(c, e) ==
    /\ stage[c] = "asked"
    /\ stage[e] \in {"ran", "closed"}
    /\ asked[e] = asked[c]
    /\ stage'  = [stage EXCEPT ![c] = "closed"]
    /\ source' = [source EXCEPT ![c] = e]
    /\ UNCHANGED asked

Refuse(c) ==
    /\ stage[c] = "asked"
    /\ stage' = [stage EXCEPT ![c] = "closed"]
    /\ UNCHANGED <<asked, source>>

Next == \E c \in Calls :
            \/ \E r \in Requests : Ask(c, r)
            \/ Start(c)
            \/ Complete(c)
            \/ ReturnOwn(c)
            \/ \E e \in Calls : ReturnShared(c, e)
            \/ Refuse(c)

Spec == Init /\ [][Next]_vars
=============================================================================
