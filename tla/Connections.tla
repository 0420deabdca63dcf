----------------------------- MODULE Connections -----------------------------
(***************************************************************************)
(* The TCP connections between nodes (transport.cpp, TCPConnectionManager  *)
(* and TCPConnection): opened for the first message to a node, shared by   *)
(* both nodes, and reduced to one when two nodes connect to each other at  *)
(* the same time.                                                          *)
(*                                                                         *)
(* All handlers of a node run in its one io_service thread: a handler is   *)
(* one step.  What a handler that delivers a message sends in return is a  *)
(* Send of its own, as it cannot involve the connection that is read.  TCP *)
(* keeps the order of what is written; what was written may be lost when a *)
(* connection ends.  A failed assertion ends the program of the node:      *)
(* broken names it.                                                        *)
(***************************************************************************)
EXTENDS Integers, Sequences, SequencesExt

CONSTANTS
  Node,         \* node ids, compared by node_id_t::operator<
  Conn,         \* bound: the connections that are ever tried, each used once
  None,         \* no connection
  Temporary,    \* the id of a node known by the port of its incoming connection only
  Stopping,     \* bound: the nodes that stop their server
  MaxMessages,  \* bound: messages sent by all nodes
  MaxFaults     \* bound: connections that fail, by the network or for being idle

ASSUME NodeAssumption == Node \subseteq Int /\ Temporary \notin Node /\ Stopping \subseteq Node
ASSUME ConnAssumption == Conn \subseteq Int /\ None \notin Conn
ASSUME BoundAssumption == MaxMessages \in Nat /\ MaxFaults \in Nat

VARIABLES
  mgr,        \* per node, its TCPConnectionManager, see Manager
  end,        \* per node and connection, its TCPConnection, see End
  resolving,  \* per node, the messages that wait for async_resolve
  link,       \* per connection, who tries it to whom, and whether TCP has made it
  sent,       \* the messages sent so far
  server,     \* "up", "stopping" after stop_server, "stopped" after delayed_stop
  broken,     \* the assertion that has ended the node's program, "none" so far
  faults      \* connections that have failed so far

vars == <<mgr, end, resolving, link, sent, server, broken, faults>>

Message == [src : Node, dst : Node, id : 1..MaxMessages]

(***************************************************************************)
(* _connections under the ids of nodes and under temporary ones, and       *)
(* _connection_establishment_in_progress, the messages of _pending to each *)
(* node (only those to one node are ever gone through), and whether an     *)
(* async_accept is outstanding.                                            *)
(***************************************************************************)
Manager == [table : [Node -> Conn \cup {None}], fresh : SUBSET Conn,
            progress : [Node -> Conn \cup {None}], pending : [Node -> Seq(Message)],
            accepting : BOOLEAN]

(***************************************************************************)
(* The socket ("aborted": closed before handle_connect), _remote_node,     *)
(* _to_be_deleted, _pending, _msg_out while _send_in_progress, and what    *)
(* was written and not yet read at the other end.                          *)
(***************************************************************************)
End == [sock : {"none", "connecting", "aborted", "open", "closed"}, mapped : Node \cup {Temporary},
        dead : BOOLEAN, queue : Seq(Message), out : {<<>>} \cup {<<msg>> : msg \in Message},
        wire : Seq(Message)]

NoEnd == [sock |-> "none", mapped |-> Temporary, dead |-> FALSE,
          queue |-> <<>>, out |-> <<>>, wire |-> <<>>]

NoLink == [from |-> Temporary, to |-> Temporary, made |-> FALSE]

Peer(n, i) == IF n = link[i].from THEN link[i].to ELSE link[i].from

-----------------------------------------------------------------------------
(* The parts of the handlers.  s and e stand for the manager and the       *)
(* connections of a node as the handler has left them so far.              *)

Becomes(n, s, e) ==
  /\ mgr' = [mgr EXCEPT ![n] = s]
  /\ end' = [end EXCEPT ![n] = e]
  /\ UNCHANGED broken

Abort(n, assertion) ==
  /\ broken' = [broken EXCEPT ![n] = assertion]
  /\ UNCHANGED <<mgr, end>>

\* Mutant: without _send_in_progress.
SendOnAtOnce(e, i, msg) == [e EXCEPT ![i].out = Append(@, msg), ![i].wire = Append(@, msg)]

\* TCPConnection::send
SendOn(e, i, msg) ==
  IF e[i].out = <<>>
    THEN [e EXCEPT ![i].out = <<msg>>, ![i].wire = Append(@, msg)]
    ELSE [e EXCEPT ![i].queue = Append(@, msg)]

\* terminate and mark_to_be_deleted
Close(e, i) ==
  [e EXCEPT ![i].sock = IF @ = "connecting" THEN "aborted" ELSE "closed", ![i].dead = TRUE]

\* Mutant: the messages are left in _pending.
WithPendingTo(s, m) == s

WithoutPendingTo(s, m) == [s EXCEPT !.pending[m] = <<>>]

\* TCPConnection::send for each of msgs: all but the first find _send_in_progress
SendAllOn(e, i, msgs) ==
  IF msgs = <<>> THEN e ELSE [SendOn(e, i, Head(msgs)) EXCEPT ![i].queue = @ \o Tail(msgs)]

\* handle_tcp_resolve2
Connect(n, s, msg) ==
  \E i \in Conn :
    /\ link[i] = NoLink
    /\ \A j \in Conn : j < i => link[j] # NoLink
    /\ link' = [link EXCEPT ![i] = [from |-> n, to |-> msg.dst, made |-> FALSE]]
    /\ Becomes(n, [s EXCEPT !.progress[msg.dst] = i, !.pending[msg.dst] = Append(@, msg)],
                  [end[n] EXCEPT ![i] = [NoEnd EXCEPT !.sock = "connecting", !.mapped = msg.dst]])

Disconnect(n, i, s, e) ==
  LET m == e[i].mapped
  IN  \/ m = Temporary /\ Becomes(n, [s EXCEPT !.fresh = @ \ {i}], Close(e, i))
      \/ /\ m # Temporary /\ s.table[m] = i
         /\ Becomes(n, [s EXCEPT !.table[m] = None], Close(e, i))
      \/ /\ m # Temporary /\ s.table[m] = None /\ s.progress[m] = i
         /\ Becomes(n, WithoutPendingTo([s EXCEPT !.progress[m] = None], m), Close(e, i))
      \/ /\ m # Temporary /\ s.table[m] = None /\ s.progress[m] = None /\ e[i].dead
         /\ Becomes(n, s, e)
      \/ /\ m # Temporary
         /\ \/ s.table[m] \notin {i, None}
            \/ s.table[m] = None /\ s.progress[m] \notin {i, None}
            \/ s.table[m] = None /\ s.progress[m] = None /\ ~e[i].dead
         /\ Abort(n, "disconnect")

-----------------------------------------------------------------------------

Init ==
  /\ mgr = [n \in Node |-> [table |-> [m \in Node |-> None], fresh |-> {},
                            progress |-> [m \in Node |-> None],
                            pending |-> [m \in Node |-> <<>>], accepting |-> TRUE]]
  /\ end = [n \in Node |-> [i \in Conn |-> NoEnd]]
  /\ resolving = [n \in Node |-> {}]
  /\ link = [i \in Conn |-> NoLink]
  /\ sent = 0
  /\ server = [n \in Node |-> "up"]
  /\ broken = [n \in Node |-> "none"]
  /\ faults = 0

Running(n) == broken[n] = "none"

Refuses(m) == server[m] = "stopped" \/ ~Running(m)

\* Transport::send refuses while stopping; the address of m is cached for 8 hours
Send(n, m) ==
  LET s == mgr[n]  msg == [src |-> n, dst |-> m, id |-> sent + 1]
  IN  /\ Running(n) /\ server[n] = "up" /\ sent < MaxMessages
      /\ sent' = sent + 1
      /\ \/ /\ s.table[m] # None
            /\ Becomes(n, s, SendOn(end[n], s.table[m], msg))
            /\ UNCHANGED <<resolving, link>>
         \/ /\ s.table[m] = None /\ s.progress[m] # None
            /\ Becomes(n, [s EXCEPT !.pending[m] = Append(@, msg)], end[n])
            /\ UNCHANGED <<resolving, link>>
         \/ /\ s.table[m] = None /\ s.progress[m] = None
            /\ \/ Connect(n, s, msg) /\ UNCHANGED resolving
               \/ /\ resolving' = [resolving EXCEPT ![n] = @ \cup {msg}]
                  /\ UNCHANGED <<mgr, end, link, broken>>
      /\ UNCHANGED <<server, faults>>

\* Mutant: no look for a connection that is being opened, either.
ResolvedBlindly(n, msg) ==
  /\ Running(n) /\ msg \in resolving[n]
  /\ resolving' = [resolving EXCEPT ![n] = @ \ {msg}]
  /\ Connect(n, mgr[n], msg)
  /\ UNCHANGED <<sent, server, faults>>

\* handle_tcp_resolve, which does not look for a connection that has been made since
Resolved(n, msg) ==
  LET s == mgr[n]
  IN  /\ Running(n) /\ msg \in resolving[n]
      /\ resolving' = [resolving EXCEPT ![n] = @ \ {msg}]
      /\ \/ UNCHANGED <<mgr, end, link, broken>>
         \/ /\ s.progress[msg.dst] # None
            /\ Becomes(n, [s EXCEPT !.pending[msg.dst] = Append(@, msg)], end[n])
            /\ UNCHANGED link
         \/ s.progress[msg.dst] = None /\ Connect(n, s, msg)
      /\ UNCHANGED <<sent, server, faults>>

\* handle_connect
Connected(n, i) ==
  LET s == mgr[n]  m == end[n][i].mapped
      t == WithoutPendingTo([s EXCEPT !.progress[m] = None], m)
      e == [end[n] EXCEPT ![i].sock = "open"]
  IN  /\ Running(n) /\ end[n][i].sock = "connecting" /\ ~Refuses(m)
      /\ link' = [link EXCEPT ![i].made = TRUE]
      /\ \/ s.progress[m] # i /\ Abort(n, "handle_connect")
         \/ /\ s.progress[m] = i /\ s.table[m] = None
            /\ Becomes(n, [t EXCEPT !.table[m] = i], SendAllOn(e, i, s.pending[m]))
         \/ /\ s.progress[m] = i /\ s.table[m] # None
            /\ \/ end[n][s.table[m]].dead /\ Abort(n, "handle_connect")
               \/ /\ ~end[n][s.table[m]].dead
                  /\ Becomes(n, t, Close(SendAllOn(e, s.table[m], s.pending[m]), i))
      /\ UNCHANGED <<resolving, sent, server, faults>>

\* unless the reason is at the other end, a failure is one of MaxFaults
Faults(otherEnd) ==
  \/ otherEnd /\ UNCHANGED faults
  \/ ~otherEnd /\ faults < MaxFaults /\ faults' = faults + 1

\* handle_connect with an error
ConnectFails(n, i) ==
  /\ Running(n) /\ end[n][i].sock = "connecting"
  /\ Faults(Refuses(end[n][i].mapped))
  /\ Disconnect(n, i, mgr[n], [end[n] EXCEPT ![i].sock = "closed"])
  /\ UNCHANGED <<resolving, link, sent, server>>

\* handle_connect with operation_aborted
ConnectAborted(n, i) ==
  /\ Running(n) /\ end[n][i].sock = "aborted"
  /\ Disconnect(n, i, mgr[n], [end[n] EXCEPT ![i].sock = "closed"])
  /\ UNCHANGED <<resolving, link, sent, server, faults>>

\* handle_tcp_accept, accept_incoming_connection: old are those deleted after 7 minutes
Accept(n, i) ==
  /\ Running(n) /\ mgr[n].accepting /\ server[n] # "stopped"
  /\ link[i].to = n /\ link[i].from # n /\ end[n][i].sock = "none"
  /\ link[i].made \/ end[link[i].from][i].sock = "connecting"
  /\ \E old \in SUBSET {j \in Conn : end[n][j].dead /\ end[n][j].queue # <<>>} :
       Becomes(n, [mgr[n] EXCEPT !.fresh = @ \cup {i}, !.accepting = server[n] = "up"],
                  [j \in Conn |-> IF j = i THEN [NoEnd EXCEPT !.sock = "open"]
                                  ELSE IF j \in old THEN [end[n][j] EXCEPT !.queue = <<>>]
                                  ELSE end[n][j]])
  /\ UNCHANGED <<resolving, link, sent, server, faults>>

-----------------------------------------------------------------------------

\* Mutant: the old connection is forgotten, not closed.
HandOverOnly(e, i, old, src) ==
  [e EXCEPT ![i].mapped = src, ![i].queue = e[old].queue, ![old].queue = <<>>]

\* Mutant: clear_pending_messages is left out.
TakeOverCopy(e, i, old, src) ==
  Close([e EXCEPT ![i].mapped = src, ![i].queue = e[old].queue], old)

\* Mutant: what is being written is taken over as well, and sent again.
TakeOverUnfinished(e, i, old, src) ==
  Close([e EXCEPT ![i].mapped = src, ![i].queue = e[old].out \o e[old].queue,
                  ![old].queue = <<>>, ![old].out = <<>>], old)

\* Mutant: the old connection's messages are cleared before they are taken over.
TakeOverCleared(e, i, old, src) ==
  Close([e EXCEPT ![i].mapped = src, ![old].queue = <<>>], old)

\* "killing old connection"
TakeOver(e, i, old, src) ==
  Close([e EXCEPT ![i].mapped = src, ![i].queue = e[old].queue, ![old].queue = <<>>], old)

\* Mutant: both nodes keep the connection that came in.
KeepIncoming(n, src) == TRUE

\* "canonical method in preserving a connection"
KeepNew(n, src) == src < n

(***************************************************************************)
(* handle_read of a message: the first one on an incoming connection names *)
(* the node (remap).  If there is a connection to that node already, the   *)
(* one that the node with the smaller id has opened is kept.               *)
(***************************************************************************)
Read(n, i) ==
  LET p == Peer(n, i)  src == Head(end[p][i].wire).src
      s == mgr[n]  e == end[n]  old == s.table[src]
      first == e[i].mapped = Temporary
      becomes(t, f) == /\ mgr' = [mgr EXCEPT ![n] = t]
                       /\ end' = [end EXCEPT ![n] = f, ![p][i].wire = Tail(@)]
                       /\ UNCHANGED broken
      known == [s EXCEPT !.fresh = @ \ {i}, !.table[src] = i]
  IN  /\ Running(n) /\ e[i].sock = "open" /\ end[p][i].wire # <<>>
      /\ \/ ~first /\ becomes(s, e)
         \/ first /\ i \notin s.fresh /\ Abort(n, "remap")
         \/ first /\ i \in s.fresh /\ old = None /\ becomes(known, [e EXCEPT ![i].mapped = src])
         \/ first /\ i \in s.fresh /\ old # None /\ KeepNew(n, src) /\ becomes(known, TakeOver(e, i, old, src))
         \/ /\ first /\ i \in s.fresh /\ old # None /\ ~KeepNew(n, src)
            /\ becomes([s EXCEPT !.fresh = @ \ {i}], Close(e, i))
      /\ UNCHANGED <<resolving, link, sent, server, faults>>

\* a read or write ends with an error, or the connection was idle for transport_conn_timeout
Fails(n, i) ==
  LET other == end[Peer(n, i)][i].sock
  IN  /\ Running(n) /\ end[n][i].sock = "open"
      /\ Faults(\/ other \in {"closed", "aborted"} \/ ~Running(Peer(n, i))
                \/ other = "none" /\ Refuses(Peer(n, i)))
      /\ \E e \in {end[n], [end[n] EXCEPT ![i].out = <<>>]} : Disconnect(n, i, mgr[n], e)
      /\ UNCHANGED <<resolving, link, sent, server>>

\* handle_write; on a closed socket it only frees the message
Written(n, i) ==
  LET e == end[n][i]
  IN  /\ Running(n) /\ e.out # <<>>
      /\ end' = [end EXCEPT ![n][i] =
                   IF e.sock = "open" /\ e.queue # <<>>
                     THEN [e EXCEPT !.out = <<Head(e.queue)>>, !.queue = Tail(@),
                                    !.wire = Append(@, Head(e.queue))]
                     ELSE [e EXCEPT !.out = <<>>]]
      /\ UNCHANGED <<mgr, resolving, link, sent, server, broken, faults>>

StopServer(n) ==
  /\ Running(n) /\ n \in Stopping /\ server[n] = "up"
  /\ server' = [server EXCEPT ![n] = "stopping"]
  /\ UNCHANGED <<mgr, end, resolving, link, sent, broken, faults>>

(***************************************************************************)
(* delayed_stop, disconnect_all.  For a connection that is not made yet,   *)
(* disconnect looks for the pending messages with a reference into the map *)
(* entry it has just erased: it may or may not find them.                  *)
(***************************************************************************)
DelayedStop(n) ==
  LET s == mgr[n]
      trying == {m \in Node : s.progress[m] # None}
      known == s.fresh \cup {s.table[m] : m \in Node} \cup {s.progress[m] : m \in trying}
  IN  /\ Running(n) /\ server[n] = "stopping"
      /\ server' = [server EXCEPT ![n] = "stopped"]
      /\ \E found \in SUBSET trying :
           Becomes(n, [table |-> [m \in Node |-> None], fresh |-> {}, progress |-> [m \in Node |-> None],
                       pending |-> [m \in Node |-> IF m \in found THEN <<>> ELSE s.pending[m]],
                       accepting |-> FALSE],
                      [i \in Conn |-> IF i \in known THEN Close(end[n], i)[i] ELSE end[n][i]])
      /\ UNCHANGED <<resolving, link, sent, faults>>

Next ==
  \E n \in Node :
    \/ \E m \in Node \ {n} : Send(n, m)
    \/ \E msg \in resolving[n] : Resolved(n, msg)
    \/ \E i \in Conn :
         \/ Connected(n, i) \/ ConnectFails(n, i) \/ ConnectAborted(n, i)
         \/ Accept(n, i) \/ Read(n, i) \/ Fails(n, i) \/ Written(n, i)
    \/ StopServer(n) \/ DelayedStop(n)

Spec == Init /\ [][Next]_vars

-----------------------------------------------------------------------------

TypeOK ==
  /\ mgr \in [Node -> Manager]
  /\ end \in [Node -> [Conn -> End]]
  /\ resolving \in [Node -> SUBSET Message]
  /\ link \in [Conn -> [from : Node \cup {Temporary}, to : Node \cup {Temporary}, made : BOOLEAN]]
  /\ sent \in 0..MaxMessages
  /\ server \in [Node -> {"up", "stopping", "stopped"}]
  /\ broken \in [Node -> {"none", "disconnect", "handle_connect", "remap"}]
  /\ faults \in 0..MaxFaults

\* Of the assertions of the connection manager only the one of disconnect can fail,
\* "conn == conn2": a connection to a node cannot be made while there is one from it
\* (handle_connect, remap).
AssertionsHold == \A n \in Node : broken[n] \in {"none", "disconnect"}

\* The assertion of disconnect, "conn == conn2" (transport.cpp:800), can fail only when an
\* attempt to connect fails beside another connection to the same node: whatever remap has
\* killed or taken over, an established connection that fails is the one found under the id
\* of its node, and so are all others when they come to fail.
OnlyAttemptsFailIt ==
  [][\A n \in Node : broken'[n] # broken[n] => \E i \in Conn : ConnectFails(n, i) \/ ConnectAborted(n, i)]_vars

\* However connects cross, are doubled by two resolutions, fail or are refused, what is
\* open or being opened is found by the manager under the node it leads to, so that it
\* can be used and closed, and the manager holds on to nothing that was closed
\* (handle_connect, remap, disconnect).
ConnectionsKnown ==
  \A n \in Node : Running(n) =>
    /\ \A i \in Conn :
         LET e == end[n][i]  s == mgr[n]
         IN  /\ e.sock = "connecting" => s.progress[e.mapped] = i
             /\ e.sock = "open" => IF e.mapped = Temporary THEN i \in s.fresh ELSE s.table[e.mapped] = i
    /\ \A m \in Node : mgr[n].table[m] # None => end[n][mgr[n].table[m]].sock = "open"

\* A message in _pending of the manager waits for a connection that is being opened:
\* otherwise nobody would ever send it, nor free it (send, handle_connect, disconnect).
PendingIsAwaited ==
  \A n \in Node : Running(n) /\ server[n] # "stopped" =>
    \A m \in Node : mgr[n].pending[m] # <<>> => mgr[n].progress[m] # None

At(n, place) ==
  CASE place[1] = "pending" -> mgr[n].pending[place[2]]
    [] place[1] = "queue" -> end[n][place[2]].queue
    [] place[1] = "out" -> end[n][place[2]].out
    [] place[1] = "wire" -> end[n][place[2]].wire

\* Where node n keeps messages: those that async_write works on are its own still (out)
\* and on the wire as well, until the other node reads them.
Holding(n, sending) ==
  {place \in ({"pending"} \X Node) \cup ({"queue", sending} \X Conn) : At(n, place) # <<>>}

\* The payload of a message is freed once: a node has it at one place at most, when the
\* messages of a connection are handed to another and when a connection is closed
\* (remap, disconnect, ~TCPConnection).
OneOwner ==
  \A n \in Node : \A x \in Holding(n, "out") :
    /\ IsInjective(At(n, x))
    /\ ToSet(At(n, x)) \cap resolving[n] = {}
    /\ \A y \in Holding(n, "out") : x # y => ToSet(At(n, x)) \cap ToSet(At(n, y)) = {}

InTransit ==
  UNION {resolving[n] \cup UNION {ToSet(At(n, x)) : x \in Holding(n, "wire")} : n \in Node}

\* What the layers above rely on: a message is delivered once at most.  However it has
\* been put off, handed from a killed connection to another or sent again after a
\* resolution, when it is read it is nowhere on its way any more, and nothing but a new
\* send puts a message on its way (handle_read, remap, handle_write).
AtMostOnce ==
  [][/\ \A msg \in InTransit' \ InTransit : msg.id > sent
     /\ \A n \in Node, i \in Conn : Len(end'[n][i].wire) < Len(end[n][i].wire) =>
          Head(end[n][i].wire) \notin InTransit']_vars

\* The messages of node n to m that wait for a connect, or for the write before them.
WaitingFor(n, m) ==
  ToSet(mgr[n].pending[m])
    \cup IF mgr[n].table[m] = None THEN {} ELSE ToSet(end[n][mgr[n].table[m]].queue)

\* No waiting message is dropped while its node is connected to the one it goes to,
\* whichever of several connections that is before and after: it goes on waiting there,
\* or is being written on the one that is left (remap, handle_connect, handle_write).
NothingWaitingIsDropped ==
  [][\A n, m \in Node : mgr'[n].table[m] # None =>
       WaitingFor(n, m) \ WaitingFor(n, m)' \subseteq ToSet(end'[n][mgr'[n].table[m]].out)]_vars

\* made, and not closed at either end; the other end may have to accept it yet
Alive(i) == end[link[i].from][i].sock = "open" /\ end[link[i].to][i].sock \in {"none", "open"}

\* Two nodes that have opened connections to each other never both close the one that
\* the other keeps: as long as no connection has failed, one of those that were made
\* between them is left (remap and handle_connect choose independently at each end).
ConnectionSurvives ==
  \A i \in Conn : faults = 0 /\ link[i].made =>
    \/ \E n \in {link[i].from, link[i].to} : Refuses(n)
    \/ \E j \in Conn : /\ {link[j].from, link[j].to} = {link[i].from, link[i].to}
                       /\ link[j].made /\ Alive(j)

=============================================================================
