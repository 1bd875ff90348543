----------------------------- MODULE ChatSockets -----------------------------
(***************************************************************************)
(* Websockets and the messages that go over them.  flight-service,         *)
(* bus-service and chat-service each keep the last connection of a user in *)
(* a map; the connection's own handler puts it there, reads until the      *)
(* connection fails, and then removes whatever the map has for that user.  *)
(* Pushes take the connection out of the map under the lock and write to   *)
(* it after the lock is released.  In chat-service a message is a row      *)
(* first, and the rows are what a page shows when it is loaded.            *)
(***************************************************************************)
EXTENDS Naturals

CONSTANTS Socket,    \* connections, over time
          UserOf,    \* UserOf[s]: the identity the gateway gave to connection s
          Person,
          Message,   \* messages, by the user's side or by an administrator
          ToPerson,  \* ToPerson[x]: the user whose conversation x belongs to
          Replies,   \* the messages that an administrator writes
          NoSocket

ASSUME SocketAssumption ==
  /\ UserOf \in [Socket -> Person] /\ ToPerson \in [Message -> Person]
  /\ Replies \subseteq Message
  /\ NoSocket \notin Socket

VARIABLES
  serving,   \* connections whose handler is running
  failed,    \* connections that are gone at one of their ends
  clients,   \* clients[p]: the connection in the map
  pushing,   \* writes of an administrator's reply that have left the lock
  rows,      \* messages saved
  deleted,   \* rows with is_deleted = true
  shown,     \* messages that have been on the user's page
  requested  \* replies for which the administrator's request was made

socketVars == <<serving, failed, clients, pushing, rows, deleted, shown, requested>>

SocketInit ==
  /\ serving = {} /\ failed = {}
  /\ clients = [p \in Person |-> NoSocket]
  /\ pushing = {} /\ rows = {} /\ deleted = {} /\ shown = {} /\ requested = {}
-----------------------------------------------------------------------------
(* Manager and ChatManager. *)

\* AddConnection, AddClient: an older connection of the user is overwritten.
Connect(s) ==
  /\ s \notin serving \cup failed
  /\ serving' = serving \cup {s}
  /\ clients' = [clients EXCEPT ![UserOf[s]] = s]
  /\ UNCHANGED <<failed, pushing, rows, deleted, shown, requested>>

\* The browser goes away, or the network does.
ConnectionFails(s) ==
  /\ s \in serving \ failed
  /\ failed' = failed \cup {s}
  /\ UNCHANGED <<serving, clients, pushing, rows, deleted, shown, requested>>

\* Mutated form: the connection is closed and its entry left behind.
CloseOnly(p) == clients

\* RemoveConnection, RemoveClient.
Removed(p) == [clients EXCEPT ![p] = NoSocket]

\* Reading has failed and the handler ends.  What it removes and closes is the
\* connection that the user has by now.
HandlerEnds(s) ==
  /\ s \in serving \cap failed
  /\ serving' = serving \ {s}
  /\ failed' = failed \cup ({clients[UserOf[s]]} \ {NoSocket})
  /\ clients' = Removed(UserOf[s])
  /\ UNCHANGED <<pushing, rows, deleted, shown, requested>>
-----------------------------------------------------------------------------
(* The conversation. *)

\* handleSend: the row, then the answer to the connection it came from.
HandleSend(s, x) ==
  /\ s \in serving \ failed
  /\ x \in Message \ (rows \cup Replies) /\ ToPerson[x] = UserOf[s]
  /\ rows' = rows \cup {x}
  /\ shown' = shown \cup {x}
  /\ UNCHANGED <<serving, failed, clients, pushing, deleted, requested>>

\* handleDelete: a row of the user's conversation, whoever wrote it.
HandleDelete(s, x) ==
  /\ s \in serving \ failed
  /\ x \in rows \ deleted /\ ToPerson[x] = UserOf[s]
  /\ deleted' = deleted \cup {x}
  /\ UNCHANGED <<serving, failed, clients, pushing, rows, shown, requested>>

\* Mutated form: the map is not asked whether there is a connection.
PushedAnyhow(x) == {[socket |-> clients[ToPerson[x]], message |-> x]}

\* PushMessageToUser: to the connection that the map has, if any.
Pushed(x) == {[socket |-> s, message |-> x] : s \in {clients[ToPerson[x]]} \ {NoSocket}}

\* The administrator's reply: the row, or an error and nothing else.
AdminReply(x) ==
  /\ x \in Replies \ requested
  /\ requested' = requested \cup {x}
  /\ \/ /\ rows' = rows \cup {x}
        /\ pushing' = pushing \cup Pushed(x)
     \/ UNCHANGED <<rows, pushing>>
  /\ UNCHANGED <<serving, failed, clients, deleted, shown>>

\* Each push is a goroutine of its own, so they may overtake each other, and
\* come after the connection has failed; the error is not looked at.
Write(w) ==
  /\ w \in pushing
  /\ pushing' = pushing \ {w}
  /\ shown' = IF w.socket \in failed THEN shown ELSE shown \cup {w.message}
  /\ UNCHANGED <<serving, failed, clients, rows, deleted, requested>>

\* GET /messages.
History(p) == {x \in rows \ deleted : ToPerson[x] = p}

LoadPage(p) ==
  /\ shown' = shown \cup History(p)
  /\ UNCHANGED <<serving, failed, clients, pushing, rows, deleted, requested>>

SocketNext ==
  \/ \E s \in Socket :
       \/ Connect(s) \/ ConnectionFails(s) \/ HandlerEnds(s)
       \/ \E x \in Message : HandleSend(s, x) \/ HandleDelete(s, x)
  \/ \E x \in Message : AdminReply(x)
  \/ \E w \in pushing : Write(w)
  \/ \E p \in Person : LoadPage(p)

SocketSpec == SocketInit /\ [][SocketNext]_socketVars
-----------------------------------------------------------------------------
SocketTypeOK ==
  /\ serving \subseteq Socket /\ failed \subseteq Socket
  /\ clients \in [Person -> Socket \cup {NoSocket}]
  /\ pushing \subseteq [socket : Socket, message : Replies]
  /\ rows \subseteq Message /\ deleted \subseteq rows
  /\ shown \subseteq Message /\ requested \subseteq Replies

\* The map never holds a connection whose handler has returned, which the
\* library then uses for somebody else: although a handler removes connections
\* that are not its own, and its own may have been overwritten, each is either
\* served or out of the map.  It may have failed already: nothing promises that
\* a push to it arrives, or that a user who is connected is in the map.
RegisteredIsServed ==
  \A p \in Person : clients[p] # NoSocket =>
    clients[p] \in serving /\ UserOf[clients[p]] = p
=============================================================================
