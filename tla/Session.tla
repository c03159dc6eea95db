-------------------------------- MODULE Session --------------------------------
(***************************************************************************)
(* One Session (ServerCore/Session.cpp) with the threads that use it: the   *)
(* IOCP workers that dispatch its completions, the threads of the game that *)
(* call Send, and Service::Broadcast, which sends under the service's lock. *)
(*                                                                         *)
(* A thread is in at most one handler (handlerPc), in it or on its own in   *)
(* one call of Send or RegisterSend (sendPc), and below both in one call of *)
(* Disconnect (discPc); the innermost one runs.  The kernel is external: an *)
(* overlapped operation that was accepted completes at any later time, with *)
(* or without bytes, and a call may fail at once with an error of Errors.   *)
(***************************************************************************)
EXTENDS Naturals, Sequences, FiniteSets

CONSTANTS
    Threads,        \* the workers and the threads of the game
    NoThread,       \* a lock is free
    Errors,         \* what WSASend, WSARecv and DisconnectEx may fail with at once:
                    \* "reset" (WSAECONNRESET, WSAECONNABORTED), "other", "disconnect"
    Broadcasts,     \* TRUE iff some thread calls Service::Broadcast
    MaxSends        \* bound: calls of Send

ASSUME ThreadsAssumption == IsFiniteSet(Threads) /\ NoThread \notin Threads
ASSUME ErrorsAssumption == Errors \subseteq {"reset", "other", "disconnect"}
ASSUME BroadcastsAssumption == Broadcasts \in BOOLEAN
ASSUME BoundAssumption == MaxSends \in Nat

VARIABLES
    (* the Session object *)
    connected,          \* _connected
    sendRegistered,     \* _sendRegistered
    sendQueue,          \* _sendQueue: the messages, by the number of their push
    sendBuffers,        \* _sendEvent.sendBuffers
    owner,              \* the events of the session whose owner is not null
    sessionLock,        \* the thread that holds the session's lock between two steps
    (* its Service *)
    inService,          \* the session is in _sessions
    serviceLock,        \* the thread that holds the service's lock between two steps
    (* the kernel *)
    pending,            \* the events whose overlapped operation is under way
    (* the threads *)
    handlerPc,
    sendPc,
    discPc,
    (* history *)
    sends,              \* how many calls of Send were made
    pushed,             \* how many messages entered _sendQueue
    wire,               \* the messages the kernel accepted, in order
    onConnected,        \* the callback: "no", "in" or "done"
    onDisconnected

sessionVars == <<connected, sendRegistered, sendQueue, sendBuffers, owner, sessionLock>>
serviceVars == <<inService, serviceLock>>
pcVars == <<handlerPc, sendPc, discPc>>
historyVars == <<sends, pushed, wire, onConnected, onDisconnected>>
vars == <<sessionVars, serviceVars, pending, pcVars, historyVars>>

-------------------------------------------------------------------------------

Events == {"connect", "disconnect", "recv", "send"}
HandlerPcs == {"none", "addSession", "enter", "onConnected", "registerRecv", "wsaRecv",
               "recvFailed", "onRecv", "onDisconnected", "release", "sendDone",
               "unlock", "broadcast"}
SendPcs == {"none", "check", "queue", "register", "drain", "wsaSend", "failed"}
DiscPcs == {"none", "exchange", "disconnectEx"}

\* The values of the variables, and who holds the two locks.
TypeOK ==
    /\ connected \in BOOLEAN /\ sendRegistered \in BOOLEAN /\ inService \in BOOLEAN
    /\ sendQueue \in Seq(Nat) /\ sendBuffers \in Seq(Nat) /\ wire \in Seq(Nat)
    /\ owner \subseteq Events /\ pending \subseteq Events
    /\ sessionLock \in Threads \cup {NoThread}
    /\ serviceLock \in Threads \cup {NoThread}
    /\ handlerPc \in [Threads -> HandlerPcs]
    /\ sendPc \in [Threads -> SendPcs]
    /\ discPc \in [Threads -> DiscPcs]
    /\ sends \in Nat /\ pushed \in Nat
    /\ onConnected \in {"no", "in", "done"} /\ onDisconnected \in {"no", "in", "done"}
    /\ \A t \in Threads : sessionLock = t <=> handlerPc[t] = "unlock"
    /\ \A t \in Threads : serviceLock = t <=> handlerPc[t] = "broadcast"

\* RegisterConnect (client) or the listener's accept (server) is under way.
Init ==
    /\ connected = FALSE /\ sendRegistered = FALSE
    /\ sendQueue = <<>> /\ sendBuffers = <<>>
    /\ owner = {"connect"} /\ pending = {"connect"}
    /\ sessionLock = NoThread /\ serviceLock = NoThread
    /\ inService = FALSE
    /\ handlerPc = [t \in Threads |-> "none"]
    /\ sendPc = [t \in Threads |-> "none"]
    /\ discPc = [t \in Threads |-> "none"]
    /\ sends = 0 /\ pushed = 0 /\ wire = <<>>
    /\ onConnected = "no" /\ onDisconnected = "no"

InDisconnect(t, pc) == discPc[t] = pc
InSend(t, pc) == sendPc[t] = pc /\ discPc[t] = "none"
InHandler(t, pc) == handlerPc[t] = pc /\ sendPc[t] = "none" /\ discPc[t] = "none"
Idle(t) == InHandler(t, "none")

Handler(t, pc) == handlerPc' = [handlerPc EXCEPT ![t] = pc]
SendTo(t, pc) == sendPc' = [sendPc EXCEPT ![t] = pc]
DiscTo(t, pc) == discPc' = [discPc EXCEPT ![t] = pc]

CanLock(lock, t) == lock \in {NoThread, t}

-------------------------------------------------------------------------------
(* Faulty variants of the steps below, used to test the properties. *)

\* Send registers whenever the queue was empty, in place of the exchange.
SendQueueIfEmpty(t) ==
    /\ InSend(t, "queue")
    /\ CanLock(sessionLock, t)
    /\ pushed' = pushed + 1
    /\ sendQueue' = Append(sendQueue, pushed')
    /\ sendRegistered' = TRUE
    /\ SendTo(t, IF sendQueue # <<>> THEN "none" ELSE "register")
    /\ UNCHANGED <<connected, sendBuffers, owner, sessionLock, serviceVars, pending,
                   handlerPc, discPc, sends, wire, onConnected, onDisconnected>>

\* RegisterRecv without ADD_REF.
RegisterRecvNoOwner(t) ==
    /\ InHandler(t, "registerRecv")
    /\ Handler(t, IF connected THEN "wsaRecv" ELSE "none")
    /\ UNCHANGED <<sessionVars, serviceVars, pending, sendPc, discPc, historyVars>>

\* ProcessSend forgets to clear the buffers of the event.
ProcessSendKeepBuffers(t, bytes) ==
    /\ InHandler(t, "none") /\ "send" \in pending
    /\ pending' = pending \ {"send"}
    /\ owner' = owner \ {"send"}
    /\ IF bytes = 0
       THEN DiscTo(t, "exchange") /\ UNCHANGED handlerPc
       ELSE Handler(t, "sendDone") /\ UNCHANGED discPc
    /\ UNCHANGED <<connected, sendRegistered, sendQueue, sendBuffers, sessionLock,
                   serviceVars, sendPc, historyVars>>

\* ProcessConnect adds the session to the service after OnConnected.
AddSessionLate(t) ==
    /\ \/ InHandler(t, "addSession") /\ Handler(t, "enter") /\ UNCHANGED inService
       \/ InHandler(t, "registerRecv") /\ inService' = TRUE /\ UNCHANGED handlerPc
    /\ UNCHANGED <<sessionVars, serviceLock, pending, sendPc, discPc, historyVars>>

\* AddSession with the first receive registered by it already.
AddSessionAndReceive(t) ==
    /\ InHandler(t, "addSession")
    /\ serviceLock = NoThread
    /\ inService' = TRUE
    /\ owner' = owner \cup {"recv"} /\ pending' = pending \cup {"recv"}
    /\ Handler(t, "enter")
    /\ UNCHANGED <<connected, sendRegistered, sendQueue, sendBuffers, sessionLock,
                   serviceLock, sendPc, discPc, historyVars>>

\* ProcessSend unregisters the send although the queue is not empty.
SendDoneNoMore(t) ==
    /\ InHandler(t, "sendDone")
    /\ sessionLock = NoThread
    /\ sendQueue # <<>>
    /\ sendRegistered' = FALSE
    /\ Handler(t, "none")
    /\ UNCHANGED <<connected, sendQueue, sendBuffers, owner, sessionLock, serviceVars,
                   pending, sendPc, discPc, historyVars>>

\* ProcessRecv does not register the next receive.
OnRecvEndSilent(t) ==
    /\ InHandler(t, "onRecv")
    /\ Handler(t, "none")
    /\ UNCHANGED <<sessionVars, serviceVars, pending, sendPc, discPc, historyVars>>

\* Disconnect marks the session and does not register the disconnect.
DisconnectExchangeOnly(t) ==
    /\ InDisconnect(t, "exchange")
    /\ connected' = FALSE
    /\ DiscTo(t, "none")
    /\ UNCHANGED <<sendRegistered, sendQueue, sendBuffers, owner, sessionLock,
                   serviceVars, pending, handlerPc, sendPc, historyVars>>

-------------------------------------------------------------------------------
(* Session::Send and RegisterSend *)

\* Content code that knows the session calls Send: a thread of the game, or a
\* worker inside one of the callbacks OnConnected and OnRecv.
SendBegin(t) ==
    /\ onConnected # "no"
    /\ InHandler(t, "none") \/ InHandler(t, "onConnected") \/ InHandler(t, "onRecv")
    /\ sends < MaxSends
    /\ sends' = sends + 1
    /\ SendTo(t, "check")
    /\ UNCHANGED <<sessionVars, serviceVars, pending, handlerPc, discPc, pushed, wire,
                   onConnected, onDisconnected>>

\* Service::Broadcast, lines 22-25: it holds the service's lock during Send.
BroadcastBegin(t) ==
    /\ Broadcasts
    /\ Idle(t)
    /\ serviceLock = NoThread /\ inService
    /\ sends < MaxSends
    /\ sends' = sends + 1
    /\ serviceLock' = t
    /\ Handler(t, "broadcast")
    /\ SendTo(t, "check")
    /\ UNCHANGED <<sessionVars, inService, pending, discPc, pushed, wire,
                   onConnected, onDisconnected>>

BroadcastEnd(t) ==
    /\ InHandler(t, "broadcast")
    /\ serviceLock' = NoThread
    /\ Handler(t, "none")
    /\ UNCHANGED <<sessionVars, inService, pending, sendPc, discPc, historyVars>>

\* Line 18.
SendCheck(t) ==
    /\ InSend(t, "check")
    /\ SendTo(t, IF connected THEN "queue" ELSE "none")
    /\ UNCHANGED <<sessionVars, serviceVars, pending, handlerPc, discPc, historyVars>>

\* Lines 25-34, under the lock: whoever finds no send registered registers it.
SendQueue(t) ==
    /\ InSend(t, "queue")
    /\ CanLock(sessionLock, t)
    /\ pushed' = pushed + 1
    /\ sendQueue' = Append(sendQueue, pushed')
    /\ sendRegistered' = TRUE
    /\ SendTo(t, IF sendRegistered THEN "none" ELSE "register")
    /\ UNCHANGED <<connected, sendBuffers, owner, sessionLock, serviceVars, pending,
                   handlerPc, discPc, sends, wire, onConnected, onDisconnected>>

\* Lines 164-168: a closed session is left with _sendRegistered true.
RegisterSend(t) ==
    /\ InSend(t, "register")
    /\ IF connected
       THEN SendTo(t, "drain") /\ owner' = owner \cup {"send"}
       ELSE SendTo(t, "none") /\ UNCHANGED owner
    /\ UNCHANGED <<connected, sendRegistered, sendQueue, sendBuffers, sessionLock,
                   serviceVars, pending, handlerPc, discPc, historyVars>>

\* Lines 171-185, under the lock, which ProcessSend already holds.
DrainQueue(t) ==
    /\ InSend(t, "drain")
    /\ CanLock(sessionLock, t)
    /\ sendBuffers' = sendBuffers \o sendQueue
    /\ sendQueue' = <<>>
    /\ SendTo(t, "wsaSend")
    /\ UNCHANGED <<connected, sendRegistered, owner, sessionLock, serviceVars, pending,
                   handlerPc, discPc, historyVars>>

\* Lines 198-210: the kernel takes the buffers.
WSASendAccepted(t) ==
    /\ InSend(t, "wsaSend")
    /\ pending' = pending \cup {"send"}
    /\ wire' = wire \o sendBuffers
    /\ SendTo(t, "none")
    /\ UNCHANGED <<sessionVars, serviceVars, handlerPc, discPc, sends, pushed,
                   onConnected, onDisconnected>>

\* Lines 199-204 and HandleError: only a reset connection is disconnected.
WSASendFailed(t, error) ==
    /\ InSend(t, "wsaSend")
    /\ SendTo(t, "failed")
    /\ DiscTo(t, IF error = "reset" THEN "exchange" ELSE "none")
    /\ UNCHANGED <<sessionVars, serviceVars, pending, handlerPc, historyVars>>

\* Lines 205-207: what was drained is dropped.
SendFailed(t) ==
    /\ InSend(t, "failed")
    /\ owner' = owner \ {"send"}
    /\ sendBuffers' = <<>>
    /\ sendRegistered' = FALSE
    /\ SendTo(t, "none")
    /\ UNCHANGED <<connected, sendQueue, sessionLock, serviceVars, pending,
                   handlerPc, discPc, historyVars>>

-------------------------------------------------------------------------------
(* Disconnect and RegisterDisconnect *)

\* Line 45: the first caller goes on.
DisconnectExchange(t) ==
    /\ InDisconnect(t, "exchange")
    /\ connected' = FALSE
    /\ DiscTo(t, IF connected THEN "disconnectEx" ELSE "none")
    /\ UNCHANGED <<sendRegistered, sendQueue, sendBuffers, owner, sessionLock,
                   serviceVars, pending, handlerPc, sendPc, historyVars>>

\* Lines 114-117: the completion is under way.
DisconnectExAccepted(t) ==
    /\ InDisconnect(t, "disconnectEx")
    /\ owner' = owner \cup {"disconnect"}
    /\ pending' = pending \cup {"disconnect"}
    /\ DiscTo(t, "none")
    /\ UNCHANGED <<connected, sendRegistered, sendQueue, sendBuffers, sessionLock,
                   serviceVars, handlerPc, sendPc, historyVars>>

\* Lines 119-124: the owner is released again and nothing will complete.
DisconnectExFailed(t) ==
    /\ "disconnect" \in Errors
    /\ InDisconnect(t, "disconnectEx")
    /\ owner' = owner \ {"disconnect"}
    /\ DiscTo(t, "none")
    /\ UNCHANGED <<connected, sendRegistered, sendQueue, sendBuffers, sessionLock,
                   serviceVars, pending, handlerPc, sendPc, historyVars>>

-------------------------------------------------------------------------------
(* The handlers of the completions: IocpCore::Dispatch and Session::Dispatch *)

\* GetQueuedCompletionStatus returns the completion of an event to thread t.
Dequeue(t, event) ==
    /\ Idle(t)
    /\ event \in pending
    /\ pending' = pending \ {event}
    /\ owner' = owner \ {event}

\* ProcessConnect, lines 215-217.
ProcessConnect(t) ==
    /\ Dequeue(t, "connect")
    /\ connected' = TRUE
    /\ Handler(t, "addSession")
    /\ UNCHANGED <<sendRegistered, sendQueue, sendBuffers, sessionLock, serviceVars,
                   sendPc, discPc, historyVars>>

\* Line 220, under the service's lock.
AddSession(t) ==
    /\ InHandler(t, "addSession")
    /\ serviceLock = NoThread
    /\ inService' = TRUE
    /\ Handler(t, "enter")
    /\ UNCHANGED <<sessionVars, serviceLock, pending, sendPc, discPc, historyVars>>

\* Line 223: the callback is called, and returns.
OnConnectedBegin(t) ==
    /\ InHandler(t, "enter")
    /\ onConnected' = "in"
    /\ Handler(t, "onConnected")
    /\ UNCHANGED <<sessionVars, serviceVars, pending, sendPc, discPc, sends, pushed,
                   wire, onDisconnected>>

OnConnectedEnd(t) ==
    /\ InHandler(t, "onConnected")
    /\ onConnected' = "done"
    /\ Handler(t, "registerRecv")
    /\ UNCHANGED <<sessionVars, serviceVars, pending, sendPc, discPc, sends, pushed,
                   wire, onDisconnected>>

\* RegisterRecv, lines 132-136.
RegisterRecv(t) ==
    /\ InHandler(t, "registerRecv")
    /\ IF connected
       THEN Handler(t, "wsaRecv") /\ owner' = owner \cup {"recv"}
       ELSE Handler(t, "none") /\ UNCHANGED owner
    /\ UNCHANGED <<connected, sendRegistered, sendQueue, sendBuffers, sessionLock,
                   serviceVars, pending, sendPc, discPc, historyVars>>

\* Lines 144-149.
WSARecvAccepted(t) ==
    /\ InHandler(t, "wsaRecv")
    /\ pending' = pending \cup {"recv"}
    /\ Handler(t, "none")
    /\ UNCHANGED <<sessionVars, serviceVars, sendPc, discPc, historyVars>>

WSARecvFailed(t, error) ==
    /\ InHandler(t, "wsaRecv")
    /\ Handler(t, "recvFailed")
    /\ DiscTo(t, IF error = "reset" THEN "exchange" ELSE "none")
    /\ UNCHANGED <<sessionVars, serviceVars, pending, sendPc, historyVars>>

\* Line 150.
RecvFailed(t) ==
    /\ InHandler(t, "recvFailed")
    /\ owner' = owner \ {"recv"}
    /\ Handler(t, "none")
    /\ UNCHANGED <<connected, sendRegistered, sendQueue, sendBuffers, sessionLock,
                   serviceVars, pending, sendPc, discPc, historyVars>>

\* ProcessRecv, lines 239-255: no bytes end the session, others go to OnRecv.
ProcessRecv(t, bytes) ==
    /\ Dequeue(t, "recv")
    /\ IF bytes = 0
       THEN DiscTo(t, "exchange") /\ UNCHANGED handlerPc
       ELSE Handler(t, "onRecv") /\ UNCHANGED discPc
    /\ UNCHANGED <<connected, sendRegistered, sendQueue, sendBuffers, sessionLock,
                   serviceVars, sendPc, historyVars>>

\* Lines 255-266: a good length registers the next receive.
OnRecvEnd(t) ==
    /\ InHandler(t, "onRecv")
    /\ Handler(t, "registerRecv")
    /\ UNCHANGED <<sessionVars, serviceVars, pending, sendPc, discPc, historyVars>>

\* Lines 248-260: a bad one ends the session.
OnRecvBad(t) ==
    /\ InHandler(t, "onRecv")
    /\ Handler(t, "none")
    /\ DiscTo(t, "exchange")
    /\ UNCHANGED <<sessionVars, serviceVars, pending, sendPc, historyVars>>

\* ProcessSend, lines 271-281.
ProcessSend(t, bytes) ==
    /\ Dequeue(t, "send")
    /\ sendBuffers' = <<>>
    /\ IF bytes = 0
       THEN DiscTo(t, "exchange") /\ UNCHANGED handlerPc
       ELSE Handler(t, "sendDone") /\ UNCHANGED discPc
    /\ UNCHANGED <<connected, sendRegistered, sendQueue, sessionLock, serviceVars,
                   sendPc, historyVars>>

\* Lines 283-285, under the lock: nothing more to send.
SendDoneEmpty(t) ==
    /\ InHandler(t, "sendDone")
    /\ sessionLock = NoThread
    /\ sendQueue = <<>>
    /\ sendRegistered' = FALSE
    /\ Handler(t, "none")
    /\ UNCHANGED <<connected, sendQueue, sendBuffers, owner, sessionLock, serviceVars,
                   pending, sendPc, discPc, historyVars>>

\* Lines 283-287: RegisterSend is called with the lock held.
SendDoneMore(t) ==
    /\ InHandler(t, "sendDone")
    /\ sessionLock = NoThread
    /\ sendQueue # <<>>
    /\ sessionLock' = t
    /\ Handler(t, "unlock")
    /\ SendTo(t, "register")
    /\ UNCHANGED <<connected, sendRegistered, sendQueue, sendBuffers, owner, serviceVars,
                   pending, discPc, historyVars>>

\* Line 288: the lock is released on return.
Unlock(t) ==
    /\ InHandler(t, "unlock")
    /\ sessionLock' = NoThread
    /\ Handler(t, "none")
    /\ UNCHANGED <<connected, sendRegistered, sendQueue, sendBuffers, owner, serviceVars,
                   pending, sendPc, discPc, historyVars>>

\* ProcessDisconnect, lines 231-233.
ProcessDisconnect(t) ==
    /\ Dequeue(t, "disconnect")
    /\ onDisconnected' = "in"
    /\ Handler(t, "onDisconnected")
    /\ UNCHANGED <<connected, sendRegistered, sendQueue, sendBuffers, sessionLock,
                   serviceVars, sendPc, discPc, sends, pushed, wire, onConnected>>

OnDisconnectedEnd(t) ==
    /\ InHandler(t, "onDisconnected")
    /\ onDisconnected' = "done"
    /\ Handler(t, "release")
    /\ UNCHANGED <<sessionVars, serviceVars, pending, sendPc, discPc, sends, pushed,
                   wire, onConnected>>

\* Line 234 and Service::ReleaseSession.
ReleaseSession(t) ==
    /\ InHandler(t, "release")
    /\ serviceLock = NoThread
    /\ inService' = FALSE
    /\ Handler(t, "none")
    /\ UNCHANGED <<sessionVars, serviceLock, pending, sendPc, discPc, historyVars>>

-------------------------------------------------------------------------------

SendErrors == Errors \cap {"reset", "other"}

SendStep(t) ==
    \/ SendCheck(t)
    \/ SendQueue(t)
    \/ RegisterSend(t)
    \/ DrainQueue(t)
    \/ WSASendAccepted(t)
    \/ \E error \in SendErrors : WSASendFailed(t, error)
    \/ SendFailed(t)
    \/ BroadcastEnd(t)

DisconnectStep(t) ==
    \/ DisconnectExchange(t)
    \/ DisconnectExAccepted(t)
    \/ DisconnectExFailed(t)

HandlerStep(t) ==
    \/ AddSession(t)
    \/ OnConnectedBegin(t)
    \/ OnConnectedEnd(t)
    \/ RegisterRecv(t)
    \/ WSARecvAccepted(t)
    \/ \E error \in SendErrors : WSARecvFailed(t, error)
    \/ RecvFailed(t)
    \/ OnRecvEnd(t)
    \/ OnRecvBad(t)
    \/ SendDoneEmpty(t)
    \/ SendDoneMore(t)
    \/ Unlock(t)
    \/ OnDisconnectedEnd(t)
    \/ ReleaseSession(t)

Completion(t) ==
    \/ ProcessConnect(t)
    \/ \E bytes \in {0, 1} : ProcessRecv(t, bytes) \/ ProcessSend(t, bytes)
    \/ ProcessDisconnect(t)

Running(t) == SendStep(t) \/ DisconnectStep(t) \/ HandlerStep(t)

Next ==
    \E t \in Threads :
        \/ SendBegin(t) \/ BroadcastBegin(t)
        \/ Running(t)
        \/ Completion(t)

Spec == Init /\ [][Next]_vars

\* Threads run.  Nothing is assumed of the kernel and of the peer: an operation that
\* was accepted may stay under way for ever.
Fairness == \A t \in Threads : WF_vars(Running(t))

FairSpec == Spec /\ Fairness

-------------------------------------------------------------------------------
(* Properties *)

\* Inside RegisterSend, or about to call it, on behalf of _sendRegistered.
HoldsSend(t) ==
    \/ sendPc[t] \in {"register", "drain", "wsaSend", "failed"}
    \/ handlerPc[t] = "sendDone"
WillDisconnect(t) == discPc[t] = "exchange"

\* "So that only one thread does it" (lines 23-24): _sendEvent and its buffers are
\* in use by one thread or by the kernel, never by two, and only while registered.
SendExclusive ==
    /\ \A t, u \in Threads : HoldsSend(t) /\ HoldsSend(u) => t = u
    /\ \A t \in Threads : HoldsSend(t) => sendRegistered /\ "send" \notin pending
    /\ "send" \in pending => sendRegistered

\* While the kernel works on an operation its event has an owner, so the session
\* that holds the event lives, and an accepted send keeps the buffers it reads
\* (ADD_REF and RELEASE_REF of Session.cpp).
OwnerWhilePending ==
    /\ TypeOK
    /\ pending \subseteq owner
    /\ "send" \in pending => sendBuffers # <<>>

\* The kernel gets each message at most once and in the order of the pushes, and
\* what is still queued comes after (the point of the comment at 157-162).
WireOrdered ==
    LET all == wire \o sendQueue IN
    \A i, k \in DOMAIN all : i < k => all[i] < all[k]

\* ASSERT_CRASH(_sessions.erase(session) != 0) of Service.cpp:50 never fires.
ReleaseInService ==
    \A t \in Threads : handlerPc[t] = "release" => inService

\* A message waits in the queue of a connected session only while a send is
\* registered with somebody to go on: a thread in RegisterSend or ProcessSend, the
\* kernel, or a thread about to disconnect ("if RegisterSend is not registered,
\* register it", lines 23-24).
NoStrandedSend ==
    connected /\ sendQueue # <<>> =>
        \/ sendRegistered /\ ("send" \in pending \/ \E t \in Threads : HoldsSend(t))
        \/ \E t \in Threads : WillDisconnect(t)

\* A connected session always has a receive under way, or a thread on its way to
\* register one or to disconnect (lines 226, 266).
Receiving(t) ==
    handlerPc[t] \in {"addSession", "enter", "onConnected", "registerRecv", "wsaRecv",
                      "onRecv"}
ReceiveAlive ==
    connected =>
        \/ "recv" \in pending
        \/ \E t \in Threads : Receiving(t) \/ WillDisconnect(t)

\* What the application can tell of the session.
Reading == {t \in Threads : handlerPc[t] = "onRecv"}
Closed == ~connected /\ onConnected # "no"
LetGo == onDisconnected = "done" /\ ~inService

Life == INSTANCE SessionLife WITH
    greeting <- onConnected,
    reading <- Reading,
    closed <- Closed,
    leaving <- onDisconnected,
    released <- LetGo

\* Unless the service broadcasts, the application sees the callbacks in the order of
\* SessionLife whichever workers make them and whoever disconnects: the events, their
\* handlers and the errors of the kernel's calls implement that order.
ImplementsSessionLife == Life!Spec

\* A session that was disconnected leaves the service's set, whoever disconnects it and
\* whatever else is under way, provided that the kernel does not keep a DisconnectEx
\* for ever (lines 51, 229-235).
DisconnectsComplete == []<>("disconnect" \notin pending)

Released ==
    DisconnectsComplete =>
        (inService /\ onConnected = "done" /\ ~connected) ~> ~inService

\* A queued message is handed to the kernel unless the connection is lost, provided
\* that the kernel does not keep a WSASend for ever, as it does when the peer stops
\* reading: then the queue behind it waits as long (lines 30-34, 283-287).
SendsComplete == []<>("send" \notin pending)

Delivered ==
    SendsComplete =>
        \A n \in 1 .. MaxSends :
            pushed >= n ~> (~connected \/ \E i \in DOMAIN wire : wire[i] = n)

================================================================================
