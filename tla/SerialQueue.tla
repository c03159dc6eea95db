----------------------------- MODULE SerialQueue -----------------------------
(***************************************************************************)
(* What a JobQueue promises to its users: the jobs submitted to one queue  *)
(* are executed one at a time, in the order of their submission, each of   *)
(* them at most once, whatever thread executes them.  A clear may discard  *)
(* jobs that wait at the end of the queue, never the one that runs.        *)
(***************************************************************************)
EXTENDS Naturals, Sequences

CONSTANTS Queues, Jobs, NoJob

VARIABLES
    pending,    \* pending[q]: the jobs submitted to q that have not begun
    running     \* running[q]: the job of q that is being executed, or NoJob

vars == <<pending, running>>

Init ==
    /\ pending = [q \in Queues |-> <<>>]
    /\ running = [q \in Queues |-> NoJob]

Submit(q, j) ==
    /\ pending' = [pending EXCEPT ![q] = Append(@, j)]
    /\ UNCHANGED running

Begin(q) ==
    /\ running[q] = NoJob
    /\ pending[q] # <<>>
    /\ running' = [running EXCEPT ![q] = Head(pending[q])]
    /\ pending' = [pending EXCEPT ![q] = Tail(@)]

Finish(q) ==
    /\ running[q] # NoJob
    /\ running' = [running EXCEPT ![q] = NoJob]
    /\ UNCHANGED pending

Discard(q) ==
    /\ \E kept \in 0 .. Len(pending[q]) :
          pending' = [pending EXCEPT ![q] = SubSeq(@, 1, kept)]
    /\ UNCHANGED running

Next ==
    \E q \in Queues :
        \/ \E j \in Jobs : Submit(q, j)
        \/ Begin(q)
        \/ Finish(q)
        \/ Discard(q)

Spec == Init /\ [][Next]_vars

==============================================================================
