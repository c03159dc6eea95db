----------------------------------- MODULE Game -----------------------------------
(***************************************************************************)
(* The chat server (Server/): the packet handlers of its sessions, the       *)
(* callbacks of GameSession and the Room, on the sessions of module Accept.   *)
(*                                                                         *)
(* The handlers of one session's receives come one after the other; a handler *)
(* runs at the same time as OnDisconnected of its session, which another       *)
(* worker executes, or even after it, when the receive had completed before.  *)
(* The Room is a JobQueue and promises what SerialQueue does: DoAsync appends  *)
(* a job, and some worker executes the jobs one at a time, in order.           *)
(***************************************************************************)
EXTENDS Accept

CONSTANTS
    Indices,        \* the players Handle_C_LOGIN makes for a session
    NoPlayer,       \* a null PlayerRef
    FirstIndices,   \* bound: the indices of a first enter, all players being alike till then
    AgainIndices,   \* bound: the indices of the enters after it
    MaxChats,       \* bound: chat packets, and enters after the first
    MaxOdd          \* bound: enters after the first, and chats before it, are among the
                    \* first MaxOdd of these

ASSUME NoPlayerAssumption == NoPlayer \notin Sessions \X Indices
ASSUME ChatsAssumption == MaxChats \in Nat /\ MaxOdd \in Nat
ASSUME IndicesAssumption ==
    Indices # {} /\ FirstIndices \subseteq Indices /\ AgainIndices \subseteq Indices

VARIABLES
    players,        \* per session, _players; a player is the pair of session and index
    currentPlayer,  \* per session, _currentPlayer, and _room unless it is NoPlayer
    jobs,           \* the jobs of GRoom that have not begun
    broadcasts,     \* the BroadCast that is being executed, with the players it has not reached
    roomPlayers,    \* Room::_players
    inbox,          \* per session, the chats sent to it
    asked,          \* history: what the client of a session has sent, see Requests
    authors,        \* history: who sent each chat, NoPlayer before he had entered
    late,           \* history: the sessions a handler of which has met OnDisconnected
    repeats,        \* history: how many enters were not the first of their session
    crashed         \* history: the session whose handler or job used a player that is not there

roomVars == <<jobs, broadcasts, roomPlayers, inbox>>
gameVars == <<players, currentPlayer, roomVars, asked, authors, late, repeats, crashed>>
vars == <<acceptVars, gameVars>>

-------------------------------------------------------------------------------

Players == Sessions \X Indices
\* A job with a null player keeps the session that reserved it.
Jobs == [kind : {"enter", "leave"}, player : Players]
            \cup [kind : {"null"}, session : Sessions]
            \cup [kind : {"chat"}, chat : 1 .. MaxChats]
\* A client that behaves like DummyClient logs in and then enters, once, with an index
\* that S_LOGIN offered; "again" and "wrong" are what others do.
Requests == {"login", "enter", "again", "wrong"}
RecvPcs == {"none", "registered", "packet", "enterJob", "enterSend"}

\* The values of the variables.
TypeOK ==
    /\ recv \in [Sessions -> RecvPcs]
    /\ players \in [Sessions -> SUBSET Players]
    /\ currentPlayer \in [Sessions -> Players \cup {NoPlayer}]
    /\ jobs \in Seq(Jobs)
    /\ broadcasts \subseteq [chat : 1 .. MaxChats, rest : SUBSET Players]
    /\ roomPlayers \subseteq Players
    /\ inbox \in [Sessions -> Seq(1 .. MaxChats)]
    /\ asked \in [Sessions -> SUBSET Requests]
    /\ authors \in Seq(Sessions \cup {NoPlayer})
    /\ late \subseteq Sessions /\ repeats \in Nat /\ crashed \subseteq Sessions
    /\ crash \in {"no", "notInService", "noPlayer", "nullPlayer"}

Init ==
    /\ AcceptInit
    /\ players = [s \in Sessions |-> {}]
    /\ currentPlayer = [s \in Sessions |-> NoPlayer]
    /\ jobs = <<>> /\ broadcasts = {} /\ roomPlayers = {}
    /\ inbox = [s \in Sessions |-> <<>>]
    /\ asked = [s \in Sessions |-> {}]
    /\ authors = <<>> /\ late = {} /\ repeats = 0 /\ crashed = {}

InRecv(s, pc) == crash = "no" /\ recv[s] = pc
RecvTo(s, pc) == recv' = [recv EXCEPT ![s] = pc]
Handling(s) == recv[s] \notin {"none", "registered"}
Gone(s) == life[s] \in {"leave", "clear", "release", "released"}
DoAsync(job) == jobs' = Append(jobs, job)
Asks(s, what) == asked' = [asked EXCEPT ![s] = @ \cup {what}]
Dies(s, why) == crash' = why /\ crashed' = {s}

\* The job Room::Enter or Room::Leave of the current player, perhaps a null one.
PlayerJob(s, kind) ==
    IF currentPlayer[s] = NoPlayer THEN [kind |-> "null", session |-> s]
    ELSE [kind |-> kind, player |-> currentPlayer[s]]

acceptRest == <<acceptSession, acceptPc, sessions, sessionCount, manager>>

-------------------------------------------------------------------------------
(* Faulty variants of the steps below, used to test the properties. *)

\* OnDisconnected clears the session and pushes no Leave.
LeaveForgotten(s) ==
    /\ crash = "no" /\ life[s] = "leave"
    /\ Becomes(s, "clear")
    /\ UNCHANGED <<acceptRest, recv, crash, gameVars>>

\* The Room is executed by two workers at a time.
MayRunAlways == TRUE

\* DoAsync puts a broadcast before the jobs that wait.
PushChatFirst(s) ==
    /\ InRecv(s, "packet") /\ Len(authors) + repeats < MaxChats
    /\ "enter" \notin asked[s] => Len(authors) + repeats < MaxOdd
    /\ authors' = Append(authors, IF "enter" \in asked[s] THEN s ELSE NoPlayer)
    /\ jobs' = <<[kind |-> "chat", chat |-> Len(authors) + 1]>> \o jobs
    /\ UNCHANGED <<acceptVars, players, currentPlayer, broadcasts, roomPlayers, inbox, asked, late, repeats, crashed>>

\* OnDisconnected pushes a Leave without looking at _currentPlayer.
LeaveUnchecked(s) ==
    /\ crash = "no" /\ life[s] = "leave"
    /\ DoAsync(PlayerJob(s, "leave"))
    /\ Becomes(s, "clear")
    /\ UNCHANGED <<acceptRest, recv, crash, players, currentPlayer, broadcasts, roomPlayers,
                   inbox, asked, authors, late, repeats, crashed>>

-------------------------------------------------------------------------------
(* The receives of a session: GameSession::OnRecvPacket and its handlers. *)

\* Bytes arrive.
RecvBegin(s) ==
    /\ InRecv(s, "registered")
    /\ RecvTo(s, "packet")
    /\ late' = IF Gone(s) THEN late \cup {s} ELSE late
    /\ UNCHANGED <<acceptRest, life, crash, players, currentPlayer, roomVars, asked, authors, repeats, crashed>>

\* The receive completes with no bytes: the peer has closed, or the session was closed.
RecvNothing(s) ==
    /\ InRecv(s, "registered")
    /\ RecvTo(s, "none")
    /\ Disconnect(s) \/ (life[s] # "open" /\ UNCHANGED life)
    /\ UNCHANGED <<acceptRest, crash, gameVars>>

\* Handle_C_LOGIN: the players are made, S_LOGIN is sent.
Handle_C_LOGIN(s) ==
    /\ InRecv(s, "packet") /\ "login" \notin asked[s]
    /\ Asks(s, "login")
    /\ players' = [players EXCEPT ![s] = {s} \X Indices]
    /\ UNCHANGED <<acceptVars, currentPlayer, roomVars, authors, late, repeats, crashed>>

\* Handle_C_ENTER_GAME up to the choice of the player, by whatever index (NoPlayer: none
\* that a login offers).  Nothing is checked: neither that the client has logged in, nor
\* that it has entered before, nor that OnDisconnected has not cleared the players.
Handle_C_ENTER_GAME(s) ==
    /\ InRecv(s, "packet")
    /\ "enter" \in asked[s] => Len(authors) + repeats < MaxOdd
    /\ \E p \in ({s} \X Indices) \cup {NoPlayer} :
           IF p \in players[s]
           THEN /\ p[2] \in IF "enter" \in asked[s] THEN AgainIndices ELSE FirstIndices
                /\ currentPlayer' = [currentPlayer EXCEPT ![s] = p]
                /\ RecvTo(s, "enterJob")
                /\ Asks(s, IF "enter" \in asked[s] THEN "again" ELSE "enter")
                /\ repeats' = IF "enter" \in asked[s] THEN repeats + 1 ELSE repeats
                /\ UNCHANGED <<crash, crashed>>
           ELSE /\ Dies(s, "noPlayer")
                /\ IF p = NoPlayer \/ "login" \notin asked[s]
                   THEN Asks(s, "wrong") ELSE UNCHANGED asked
                /\ UNCHANGED <<recv, currentPlayer, repeats>>
    /\ UNCHANGED <<acceptRest, life, players, roomVars, authors, late>>

\* DoAsync(&Room::Enter, _currentPlayer)
EnterJob(s) ==
    /\ InRecv(s, "enterJob")
    /\ DoAsync(PlayerJob(s, "enter"))
    /\ RecvTo(s, "enterSend")
    /\ UNCHANGED <<acceptRest, life, crash, players, currentPlayer, broadcasts, roomPlayers,
                   inbox, asked, authors, late, repeats, crashed>>

\* _currentPlayer->ownerSession->Send: S_ENTER_GAME.
EnterSend(s) ==
    /\ InRecv(s, "enterSend")
    /\ RecvTo(s, "packet")
    /\ IF currentPlayer[s] = NoPlayer THEN Dies(s, "nullPlayer") ELSE UNCHANGED <<crash, crashed>>
    /\ UNCHANGED <<acceptRest, life, players, currentPlayer, roomVars, asked, authors, late, repeats>>

\* DoAsync(&Room::BroadCast, sendBuffer)
Handle_C_CHAT(s) ==
    /\ InRecv(s, "packet") /\ Len(authors) + repeats < MaxChats
    /\ "enter" \notin asked[s] => Len(authors) + repeats < MaxOdd
    /\ authors' = Append(authors, IF "enter" \in asked[s] THEN s ELSE NoPlayer)
    /\ DoAsync([kind |-> "chat", chat |-> Len(authors) + 1])
    /\ UNCHANGED <<acceptVars, players, currentPlayer, broadcasts, roomPlayers, inbox, asked, late, repeats, crashed>>

\* OnRecv is over; RegisterRecv unless the session was closed.
RecvEnd(s) ==
    /\ InRecv(s, "packet")
    /\ RecvTo(s, IF life[s] = "open" THEN "registered" ELSE "none")
    /\ UNCHANGED <<acceptRest, life, crash, gameVars>>

\* A send of the session fails.
SendFails(s) ==
    /\ crash = "no" /\ asked[s] # {} /\ Disconnect(s)
    /\ UNCHANGED <<acceptRest, recv, crash, gameVars>>

-------------------------------------------------------------------------------
(* GameSession::OnDisconnected, on the worker that dequeues the disconnect. *)

OnDisconnected(s) ==
    /\ Remove(s)
    /\ late' = IF Handling(s) THEN late \cup {s} ELSE late
    /\ UNCHANGED <<players, currentPlayer, roomVars, asked, authors, repeats, crashed>>

\* DoAsync(&Room::Leave, _currentPlayer), if there is one.
Leave(s) ==
    /\ crash = "no" /\ life[s] = "leave"
    /\ IF currentPlayer[s] = NoPlayer THEN UNCHANGED jobs
       ELSE DoAsync(PlayerJob(s, "leave"))
    /\ Becomes(s, "clear")
    /\ UNCHANGED <<acceptRest, recv, crash, players, currentPlayer, broadcasts, roomPlayers,
                   inbox, asked, authors, late, repeats, crashed>>

Clear(s) ==
    /\ crash = "no" /\ life[s] = "clear"
    /\ currentPlayer' = [currentPlayer EXCEPT ![s] = NoPlayer]
    /\ players' = [players EXCEPT ![s] = {}]
    /\ Becomes(s, "release")
    /\ UNCHANGED <<acceptRest, recv, crash, roomVars, asked, authors, late, repeats, crashed>>

-------------------------------------------------------------------------------
(* The jobs of the Room. *)

\* The job before has ended: JobQueue executes one at a time.
MayRun == broadcasts = {}

RoomJob(kind) == crash = "no" /\ jobs # <<>> /\ MayRun /\ Head(jobs).kind = kind

\* Room::Enter and Room::Leave, and either with a null player.
EnterOrLeave ==
    /\ RoomJob("enter") \/ RoomJob("leave")
    /\ jobs' = Tail(jobs)
    /\ LET p == Head(jobs).player IN
       roomPlayers' = IF Head(jobs).kind = "enter" THEN roomPlayers \cup {p} ELSE roomPlayers \ {p}
    /\ UNCHANGED <<acceptVars, players, currentPlayer, broadcasts, inbox, asked, authors, late,
                   repeats, crashed>>

NullPlayerJob ==
    /\ RoomJob("null")
    /\ jobs' = Tail(jobs)
    /\ Dies(Head(jobs).session, "nullPlayer")
    /\ UNCHANGED <<acceptRest, life, recv, players, currentPlayer, broadcasts, roomPlayers,
                   inbox, asked, authors, late, repeats>>

\* Room::BroadCast, which goes through the players of the room.
BroadCast ==
    /\ RoomJob("chat")
    /\ jobs' = Tail(jobs)
    /\ broadcasts' = broadcasts \cup
           {b \in {[chat |-> Head(jobs).chat, rest |-> roomPlayers]} : b.rest # {}}
    /\ UNCHANGED <<acceptVars, players, currentPlayer, roomPlayers, inbox, asked, authors, late, repeats, crashed>>

\* ownerSession->Send: nothing is sent when the session is closed.
SendChat(b) ==
    /\ crash = "no" /\ b \in broadcasts
    /\ \E p \in b.rest :
           /\ inbox' = IF life[p[1]] = "open"
                       THEN [inbox EXCEPT ![p[1]] = Append(@, b.chat)] ELSE inbox
           /\ broadcasts' = (broadcasts \ {b}) \cup
                  {c \in {[b EXCEPT !.rest = @ \ {p}]} : c.rest # {}}
    /\ UNCHANGED <<acceptVars, players, currentPlayer, jobs, roomPlayers, asked, authors, late, repeats, crashed>>

-------------------------------------------------------------------------------

HandlerStep(s) ==
    \/ Handle_C_LOGIN(s) \/ Handle_C_ENTER_GAME(s) \/ EnterJob(s) \/ EnterSend(s)
    \/ Handle_C_CHAT(s) \/ RecvEnd(s)
CloseStep(s) ==
    OnDisconnected(s) \/ Leave(s) \/ Clear(s) \/ (ReleaseSession(s) /\ UNCHANGED gameVars)
RoomStep == EnterOrLeave \/ NullPlayerJob \/ BroadCast \/ (\E b \in broadcasts : SendChat(b))

Next ==
    \/ \E e \in AcceptEvents : AcceptStep(e) /\ UNCHANGED gameVars
    \/ \E s \in Sessions :
           RecvBegin(s) \/ RecvNothing(s) \/ SendFails(s) \/ HandlerStep(s) \/ CloseStep(s)
    \/ RoomStep

Spec == Init /\ [][Next]_vars

-------------------------------------------------------------------------------
(* Properties. *)

\* A player of a session that is gone is in the room, or about to enter it, only
\* while his Leave waits behind: no ghost stays, provided no handler of the session
\* met its OnDisconnected and the client entered once.
NoGhost ==
    /\ TypeOK
    /\ \A p \in Players :
           /\ life[p[1]] \in {"clear", "release", "released"}
           /\ p[1] \notin late /\ "again" \notin asked[p[1]]
           => \A i \in 0 .. Len(jobs) :
                  IF i = 0 THEN p \in roomPlayers => \E k \in DOMAIN jobs :
                                   jobs[k] = [kind |-> "leave", player |-> p]
                  ELSE jobs[i] = [kind |-> "enter", player |-> p] =>
                           \E k \in DOMAIN jobs : k > i /\ jobs[k] = [kind |-> "leave", player |-> p]

\* The process dies of a player that is not there only through a session whose own
\* handler met its OnDisconnected, or whose client entered before its login or with an
\* index it was not offered.  A null player, in a handler or in a job of the Room, has
\* the first cause alone, and entering twice is none.
CrashOnlyLate ==
    /\ crash \in {"noPlayer", "nullPlayer"} => crashed # {}
    /\ \A s \in crashed : s \in late \/ (crash = "noPlayer" /\ "wrong" \in asked[s])

\* Chats reach every session in the order in which they were pushed on the Room, so
\* any two members see them in the same order, and each once unless the client
\* entered twice.
ChatOrder ==
    \A s \in Sessions : \A i, k \in DOMAIN inbox[s] : i < k =>
        /\ inbox[s][i] <= inbox[s][k]
        /\ "again" \notin asked[s] => inbox[s][i] # inbox[s][k]

\* Who chats after he has entered gets his own chat, although Enter and BroadCast are
\* only reserved when the handlers answer (the TODO of ClientPacketHandler.cpp:79).
OwnChatHeard ==
    \A n \in DOMAIN authors :
        LET s == authors[n] IN
        s # NoPlayer /\ life[s] = "open" =>
            \/ \E k \in DOMAIN jobs : jobs[k] = [kind |-> "chat", chat |-> n]
            \/ \E b \in broadcasts : b.chat = n
            \/ \E k \in DOMAIN inbox[s] : inbox[s][k] = n

=================================================================================
