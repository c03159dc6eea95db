--------------------------------- MODULE RWLock ---------------------------------
(***************************************************************************)
(* What a readers-writer lock promises: one writer, or readers, where the   *)
(* writer may read as well but a reader never becomes the writer            *)
(* (the rule W -> R (O), R -> W (X) of ServerCore/Lock.h).                   *)
(***************************************************************************)
CONSTANTS Threads, Locks

VARIABLE holds      \* who holds which lock how: triples <<thread, lock, mode>>

Holders(l, mode) == {h[1] : h \in {k \in holds : k[2] = l /\ k[3] = mode}}
Readers(l) == Holders(l, "read")
Writers(l) == Holders(l, "write")

Init == holds = {}

BeginRead(t, l) ==
    /\ Writers(l) \subseteq {t}
    /\ holds' = holds \cup {<<t, l, "read">>}

BeginWrite(t, l) ==
    /\ Readers(l) = {} /\ Writers(l) = {}
    /\ holds' = holds \cup {<<t, l, "write">>}

EndRead(t, l) ==
    /\ t \in Readers(l)
    /\ holds' = holds \ {<<t, l, "read">>}

\* The writer gives up reading first.
EndWrite(t, l) ==
    /\ t \in Writers(l) /\ Readers(l) = {}
    /\ holds' = holds \ {<<t, l, "write">>}

\* A step is the beginning or the end of one hold; to begin it twice is no step.
Next ==
    /\ holds' # holds
    /\ \E t \in Threads, l \in Locks :
           BeginRead(t, l) \/ BeginWrite(t, l) \/ EndRead(t, l) \/ EndWrite(t, l)

Spec == Init /\ [][Next]_holds

=================================================================================
