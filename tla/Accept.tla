---------------------------------- MODULE Accept ----------------------------------
(***************************************************************************)
(* How sessions come and go on the server: the Listener keeps its accept     *)
(* events registered (ServerCore/Listener.cpp), the Service and the           *)
(* GameSessionManager keep their sets.  Each completion is handled by a        *)
(* worker of its own, so the handlers of different events and sessions        *)
(* interleave freely; the life of one session is the one Session.tla has      *)
(* in detail.  Module Game adds what the sessions do in between.              *)
(***************************************************************************)
EXTENDS Naturals, Sequences, FiniteSets

CONSTANTS
    AcceptEvents,   \* _acceptEvents, one for each of GetMaxSessionCount
    Sessions        \* bound: the sessions that CreateSession makes

ASSUME SessionsAssumption == IsFiniteSet(Sessions) /\ Cardinality(AcceptEvents) <= Cardinality(Sessions)

VARIABLES
    acceptSession,  \* per event, acceptEvent->session
    acceptPc,       \* per event, "pending" in the kernel or where its handler is
    life,           \* per session, how far it has come
    recv,           \* per session, its receive: "none", "registered" or its handler
    sessions,       \* Service::_sessions
    sessionCount,   \* Service::_sessionCount
    manager,        \* GSessionManager's _sessions
    crash           \* why the process died

acceptVars == <<acceptSession, acceptPc, life, recv, sessions, sessionCount, manager, crash>>

-------------------------------------------------------------------------------

AcceptPcs == {"pending", "add", "onConnected", "register"}
Lives == {"unused", "created", "added", "open", "closing", "leave", "clear", "release", "released"}

\* The values of the variables.
AcceptTypeOK ==
    /\ acceptSession \in [AcceptEvents -> Sessions]
    /\ acceptPc \in [AcceptEvents -> AcceptPcs]
    /\ life \in [Sessions -> Lives]
    /\ sessions \subseteq Sessions /\ manager \subseteq Sessions
    /\ sessionCount \in Nat

\* StartAccept has registered every event, each with a session of its own.
AcceptInit ==
    /\ acceptSession \in [AcceptEvents -> Sessions]
    /\ \A e, f \in AcceptEvents : acceptSession[e] = acceptSession[f] => e = f
    /\ acceptPc = [e \in AcceptEvents |-> "pending"]
    /\ life = [s \in Sessions |->
           IF \E e \in AcceptEvents : acceptSession[e] = s THEN "created" ELSE "unused"]
    /\ recv = [s \in Sessions |-> "none"]
    /\ sessions = {} /\ sessionCount = 0 /\ manager = {}
    /\ crash = "no"

Handles(e, pc) == crash = "no" /\ acceptPc[e] = pc
Goto(e, pc) == acceptPc' = [acceptPc EXCEPT ![e] = pc]
Becomes(s, now) == life' = [life EXCEPT ![s] = now]

-------------------------------------------------------------------------------
(* Faulty variants of the steps below, used to test the properties. *)

\* RegisterAccept uses the event's session again.
RegisterAcceptSame(e) ==
    /\ Handles(e, "register")
    /\ Goto(e, "pending")
    /\ UNCHANGED <<acceptSession, life, recv, sessions, sessionCount, manager, crash>>

-------------------------------------------------------------------------------
(* Listener *)

\* CreateSession and AcceptEx.  When AcceptEx fails at once, the session is given up
\* and RegisterAccept calls itself.
RegisterAccept(e) ==
    /\ Handles(e, "register")
    /\ \E s \in Sessions :
           /\ life[s] = "unused"
           /\ Becomes(s, "created")
           /\ acceptSession' = [acceptSession EXCEPT ![e] = s]
    /\ Goto(e, "pending") \/ UNCHANGED acceptPc
    /\ UNCHANGED <<recv, sessions, sessionCount, manager, crash>>

\* ProcessAccept: SetUpdateAcceptSocket and getpeername succeed, or one fails and
\* the accept is registered again.
AcceptCompleted(e) ==
    /\ Handles(e, "pending")
    /\ Goto(e, "add") \/ Goto(e, "register")
    /\ UNCHANGED <<acceptSession, life, recv, sessions, sessionCount, manager, crash>>

\* ProcessConnect of the accepted session: _connected, and Service::AddSession.
AddSession(e) ==
    LET s == acceptSession[e] IN
    /\ Handles(e, "add")
    /\ sessions' = sessions \cup {s}
    /\ sessionCount' = sessionCount + 1
    /\ Becomes(s, "added")
    /\ Goto(e, "onConnected")
    /\ UNCHANGED <<acceptSession, recv, manager, crash>>

\* GameSession::OnConnected, then RegisterRecv at the end of ProcessConnect: nobody
\* sends on the session in between.  The accept event comes next.
OnConnected(e) ==
    LET s == acceptSession[e] IN
    /\ Handles(e, "onConnected")
    /\ manager' = manager \cup {s}
    /\ Becomes(s, "open")
    /\ recv' = [recv EXCEPT ![s] = "registered"]
    /\ Goto(e, "register")
    /\ UNCHANGED <<acceptSession, sessions, sessionCount, crash>>

AcceptStep(e) ==
    \/ RegisterAccept(e) \/ AcceptCompleted(e)
    \/ AddSession(e) \/ OnConnected(e)

-------------------------------------------------------------------------------
(* The end of a session. *)

\* Session::Disconnect by whoever is first; the kernel gets DisconnectEx.
Disconnect(s) == life[s] = "open" /\ Becomes(s, "closing")

\* GameSession::OnDisconnected begins with GSessionManager.Remove.
Remove(s) ==
    /\ crash = "no" /\ life[s] = "closing"
    /\ manager' = manager \ {s}
    /\ Becomes(s, "leave")
    /\ UNCHANGED <<acceptSession, acceptPc, recv, sessions, sessionCount, crash>>

\* Service::ReleaseSession, with its assertion.
ReleaseSession(s) ==
    /\ crash = "no" /\ life[s] = "release"
    /\ IF s \in sessions
       THEN /\ sessions' = sessions \ {s} /\ sessionCount' = sessionCount - 1
            /\ Becomes(s, "released") /\ UNCHANGED crash
       ELSE crash' = "notInService" /\ UNCHANGED <<sessions, sessionCount, life>>
    /\ UNCHANGED <<acceptSession, acceptPc, recv, manager>>

-------------------------------------------------------------------------------

\* The service holds and counts exactly the sessions between AddSession and
\* ReleaseSession, the manager those between OnConnected and OnDisconnected, and a
\* session that a pending accept waits with is a new one.
ServiceExact ==
    /\ AcceptTypeOK
    /\ crash # "notInService"
    /\ sessions = {s \in Sessions : life[s] \notin {"unused", "created", "released"}}
    /\ sessionCount = Cardinality(sessions)
    /\ manager = {s \in Sessions : life[s] \in {"open", "closing"}}
    /\ \A e \in AcceptEvents : acceptPc[e] = "pending" => life[acceptSession[e]] = "created"

=================================================================================
