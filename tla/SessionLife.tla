------------------------------- MODULE SessionLife -------------------------------
(***************************************************************************)
(* What a Session promises to the class derived from it, when nobody         *)
(* broadcasts: OnConnected comes first, the calls of OnRecv come one at a     *)
(* time and after it, OnDisconnected comes once and on a closed session, and  *)
(* the service lets go of the session last.  It does not promise that OnRecv   *)
(* is over, or will not come any more, when OnDisconnected is called.          *)
(***************************************************************************)
CONSTANT Threads

VARIABLES
    greeting,   \* OnConnected: "no", "in" or "done"
    reading,    \* the threads in OnRecv
    closed,     \* Disconnect has closed the session
    leaving,    \* OnDisconnected: "no", "in" or "done"
    released    \* the service has let go of the session

vars == <<greeting, reading, closed, leaving, released>>

Init ==
    /\ greeting = "no" /\ reading = {}
    /\ closed = FALSE /\ leaving = "no" /\ released = FALSE

Greet ==
    /\ \/ greeting = "no" /\ greeting' = "in"
       \/ greeting = "in" /\ greeting' = "done"
    /\ UNCHANGED <<reading, closed, leaving, released>>

BeginRead(t) ==
    /\ greeting = "done" /\ reading = {}
    /\ reading' = {t}
    /\ UNCHANGED <<greeting, closed, leaving, released>>

EndRead(t) ==
    /\ reading = {t}
    /\ reading' = {}
    /\ UNCHANGED <<greeting, closed, leaving, released>>

Close ==
    /\ greeting # "no" /\ ~closed
    /\ closed' = TRUE
    /\ UNCHANGED <<greeting, reading, leaving, released>>

Leave ==
    /\ closed
    /\ \/ leaving = "no" /\ leaving' = "in"
       \/ leaving = "in" /\ leaving' = "done"
    /\ UNCHANGED <<greeting, reading, closed, released>>

Release ==
    /\ leaving = "done" /\ ~released
    /\ released' = TRUE
    /\ UNCHANGED <<greeting, reading, closed, leaving>>

Next ==
    \/ Greet \/ Close \/ Leave \/ Release
    \/ \E t \in Threads : BeginRead(t) \/ EndRead(t)

Spec == Init /\ [][Next]_vars

=================================================================================
