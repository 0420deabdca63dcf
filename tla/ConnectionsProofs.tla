-------------------------- MODULE ConnectionsProofs --------------------------
(***************************************************************************)
(* Proofs about Connections, for every set of nodes and connections and    *)
(* every bound: its types, that the connection manager knows all of its    *)
(* live connections and no others, that no message waits for nothing, and  *)
(* which assertion can fail, and when.                                     *)
(***************************************************************************)
EXTENDS Connections, TLAPS

-----------------------------------------------------------------------------
(* The inductive invariant.                                                *)

\* what the maps of a manager and the sockets of its node say of each other
Kept(s, e) ==
  /\ \A i \in Conn : e[i].sock = "connecting" =>
       e[i].mapped \in Node /\ ~e[i].dead /\ s.progress[e[i].mapped] = i
  /\ \A i \in Conn : e[i].sock = "open" =>
       ~e[i].dead /\ IF e[i].mapped = Temporary THEN i \in s.fresh ELSE s.table[e[i].mapped] = i
  /\ \A m \in Node : s.table[m] # None => e[s.table[m]].sock = "open" /\ e[s.table[m]].mapped = m
  /\ \A m \in Node : s.progress[m] # None =>
       e[s.progress[m]].sock = "connecting" /\ e[s.progress[m]].mapped = m
  /\ \A i \in s.fresh : e[i].sock = "open" /\ e[i].mapped = Temporary

Awaited(s) == \A m \in Node : s.pending[m] # <<>> => s.progress[m] # None

Tried(i) == link[i].from \in Node /\ link[i].to \in Node

Linked ==
  /\ \A i \in Conn : link[i] = NoLink \/ Tried(i)
  /\ \A n \in Node, i \in Conn : end[n][i].sock # "none" => Tried(i)

IInv ==
  /\ TypeOK
  /\ AssertionsHold
  /\ Linked
  /\ \A n \in Node : Running(n) => Kept(mgr[n], end[n])
  /\ \A n \in Node : Running(n) /\ server[n] # "stopped" => Awaited(mgr[n])

-----------------------------------------------------------------------------
(* How a step of a node preserves it: what it has to show.                 *)

SameShape(e, f) ==
  \A i \in Conn : f[i].sock = e[i].sock /\ f[i].mapped = e[i].mapped /\ f[i].dead = e[i].dead

SameMaps(s, t) == t.table = s.table /\ t.fresh = s.fresh /\ t.progress = s.progress

\* the part of a step that is not about mgr, end and broken
RestOK(n) ==
  /\ resolving' \in [Node -> SUBSET Message]
  /\ link' \in [Conn -> [from : Node \cup {Temporary}, to : Node \cup {Temporary}, made : BOOLEAN]]
  /\ sent' \in 0..MaxMessages
  /\ server' \in [Node -> {"up", "stopping", "stopped"}]
  /\ faults' \in 0..MaxFaults
  /\ \A m \in Node \ {n} : server'[m] = server[m]
  /\ \A i \in Conn : link'[i] = link[i] \/ Tried(i)'

\* the node ends the step with manager t and connections f
Fine(n, t, f) ==
  /\ t \in Manager
  /\ f \in [Conn -> End]
  /\ Kept(t, f)
  /\ server'[n] # "stopped" => Awaited(t)
  /\ \A i \in Conn : f[i].sock # "none" => Tried(i)'

\* up to messages, which another node may take from the wire
Ends(n, t, f) ==
  /\ mgr' = [mgr EXCEPT ![n] = t]
  /\ end' \in [Node -> [Conn -> End]]
  /\ SameShape(f, end'[n])
  /\ \A m \in Node \ {n} : SameShape(end[m], end'[m])
  /\ UNCHANGED broken

LEMMA KeptFrame ==
  ASSUME NEW s, NEW t, NEW e, NEW f, s \in Manager, Kept(s, e), SameMaps(s, t), SameShape(e, f)
  PROVE  Kept(t, f)
<1>1. \A m \in Node : s.table[m] \in Conn \cup {None} /\ s.progress[m] \in Conn \cup {None}
  BY DEF Manager
<1>2. s.fresh \subseteq Conn
  BY DEF Manager
<1> QED BY <1>1, <1>2 DEF Kept, SameMaps, SameShape

LEMMA NodeMoves ==
  ASSUME NEW n \in Node, NEW t, NEW f, IInv, RestOK(n), Fine(n, t, f), Ends(n, t, f)
  PROVE  IInv'
<1>1. TypeOK'
  BY DEF IInv, TypeOK, RestOK, Fine, Ends
<1>2. AssertionsHold'
  BY DEF IInv, AssertionsHold, Ends
<1>3. \A i \in Conn : Tried(i) => Tried(i)'
  BY DEF RestOK, Tried
<1>4. Linked'
  <2>1. \A i \in Conn : link'[i] = NoLink \/ Tried(i)'
    BY <1>3 DEF IInv, Linked, RestOK
  <2>2. ASSUME NEW m \in Node, NEW i \in Conn, end'[m][i].sock # "none"
        PROVE  Tried(i)'
    <3>1. CASE m = n
      BY <3>1, <2>2 DEF Fine, Ends, SameShape
    <3>2. CASE m # n
      BY <3>2, <2>2, <1>3 DEF Ends, SameShape, IInv, Linked
    <3> QED BY <3>1, <3>2
  <2> QED BY <2>1, <2>2 DEF Linked, NoLink
<1>5. mgr' \in [Node -> Manager] /\ mgr'[n] = t /\ \A m \in Node \ {n} : mgr'[m] = mgr[m]
  BY DEF IInv, TypeOK, Fine, Ends
<1>6. ASSUME NEW m \in Node, Running(m)'
      PROVE  Kept(mgr'[m], end'[m])
  <2>1. CASE m = n
    <3>1. SameMaps(t, mgr'[n]) /\ SameShape(f, end'[n])
      BY <1>5 DEF Ends, SameMaps
    <3> QED BY <3>1, <2>1, KeptFrame DEF Fine
  <2>2. CASE m # n
    <3>1. Running(m) /\ mgr[m] \in Manager
      BY <1>6 DEF Running, Ends, IInv, TypeOK
    <3>2. Kept(mgr[m], end[m])
      BY <3>1 DEF IInv
    <3>3. SameMaps(mgr[m], mgr'[m]) /\ SameShape(end[m], end'[m])
      BY <2>2, <1>5 DEF Ends, SameMaps
    <3> QED BY <3>1, <3>2, <3>3, KeptFrame
  <2> QED BY <2>1, <2>2
<1>7. ASSUME NEW m \in Node, Running(m)', server'[m] # "stopped"
      PROVE  Awaited(mgr'[m])
  <2>1. CASE m = n
    BY <2>1, <1>5, <1>7 DEF Fine
  <2>2. CASE m # n
    BY <2>2, <1>5, <1>7 DEF IInv, RestOK, Running, Ends
  <2> QED BY <2>1, <2>2
<1> QED BY <1>1, <1>2, <1>4, <1>6, <1>7 DEF IInv, Kept, Awaited, Running

LEMMA NodeAborts ==
  ASSUME NEW n \in Node, IInv, RestOK(n), Abort(n, "disconnect")
  PROVE  IInv'
<1>1. TypeOK'
  BY DEF IInv, TypeOK, RestOK, Abort
<1>2. AssertionsHold'
  BY DEF IInv, TypeOK, AssertionsHold, Abort
<1>3. Linked'
  BY DEF IInv, Linked, RestOK, Abort, Tried, NoLink
<1>4. \A m \in Node : Running(m)' => m # n /\ Running(m)
  BY DEF IInv, TypeOK, Running, Abort
<1> QED BY <1>1, <1>2, <1>3, <1>4 DEF IInv, Kept, Awaited, Abort, RestOK

-----------------------------------------------------------------------------
(* What the parts of the handlers do to types and maps.                    *)

LEMMA SendOnIsFine ==
  ASSUME NEW e \in [Conn -> End], NEW i \in Conn, NEW msg \in Message
  PROVE  SendOn(e, i, msg) \in [Conn -> End] /\ SameShape(e, SendOn(e, i, msg))
<1>1. e[i] \in End /\ e[i].queue \in Seq(Message) /\ e[i].wire \in Seq(Message)
  BY DEF End
<1>2. [e[i] EXCEPT !.out = <<msg>>, !.wire = Append(@, msg)] \in End
  <2>1. Append(e[i].wire, msg) \in Seq(Message) /\ <<msg>> \in {<<m>> : m \in Message}
    BY <1>1
  <2> QED BY <2>1, <1>1 DEF End
<1>3. [e[i] EXCEPT !.queue = Append(@, msg)] \in End
  <2>1. Append(e[i].queue, msg) \in Seq(Message)
    BY <1>1
  <2> QED BY <2>1, <1>1 DEF End
<1> QED BY <1>1, <1>2, <1>3 DEF SendOn, SameShape, End

LEMMA SendAllOnIsFine ==
  ASSUME NEW e \in [Conn -> End], NEW i \in Conn, NEW all \in Seq(Message)
  PROVE  SendAllOn(e, i, all) \in [Conn -> End] /\ SameShape(e, SendAllOn(e, i, all))
<1>1. CASE all = <<>>
  BY <1>1 DEF SendAllOn, SameShape
<1>2. CASE all # <<>>
  <2> DEFINE f == SendOn(e, i, Head(all))
  <2>1. Head(all) \in Message /\ Tail(all) \in Seq(Message)
    BY <1>2
  <2>2. f \in [Conn -> End] /\ SameShape(e, f)
    BY <2>1, SendOnIsFine
  <2>3. SendAllOn(e, i, all) = [f EXCEPT ![i].queue = @ \o Tail(all)]
    BY <1>2 DEF SendAllOn
  <2> HIDE DEF f
  <2>4. f[i] \in End /\ f[i].queue \o Tail(all) \in Seq(Message)
    BY <2>1, <2>2 DEF End
  <2>5. [f[i] EXCEPT !.queue = @ \o Tail(all)] \in End
    BY <2>4 DEF End
  <2>6. [f EXCEPT ![i].queue = @ \o Tail(all)] \in [Conn -> End]
    BY <2>2, <2>5
  <2>7. SameShape(f, [f EXCEPT ![i].queue = @ \o Tail(all)])
    BY <2>2, <2>4 DEF SameShape, End
  <2> QED BY <2>2, <2>3, <2>6, <2>7 DEF SameShape
<1> QED BY <1>1, <1>2

LEMMA NewEndIsFine ==
  /\ [NoEnd EXCEPT !.sock = "open"] \in End
  /\ \A m \in Node : [NoEnd EXCEPT !.sock = "connecting", !.mapped = m] \in End
<1>1. <<>> \in Seq(Message) /\ <<>> \in {<<>>} \cup {<<msg>> : msg \in Message}
  OBVIOUS
<1>2. NoEnd \in End
  BY <1>1 DEF NoEnd, End
<1> QED BY <1>2 DEF End

LEMMA CloseIsFine ==
  ASSUME NEW e \in [Conn -> End], NEW i \in Conn
  PROVE  /\ Close(e, i) \in [Conn -> End]
         /\ Close(e, i)[i].sock \in {"aborted", "closed"}
         /\ \A j \in Conn \ {i} : Close(e, i)[j] = e[j]
<1>1. e[i] \in End
  OBVIOUS
<1>2. [e[i] EXCEPT !.sock = IF @ = "connecting" THEN "aborted" ELSE "closed", !.dead = TRUE] \in End
  BY <1>1 DEF End
<1> QED BY <1>1, <1>2 DEF Close, End

LEMMA NodeBecomes ==
  ASSUME NEW n \in Node, NEW t, NEW f, IInv, RestOK(n), Fine(n, t, f), Becomes(n, t, f)
  PROVE  IInv'
<1>1. end' \in [Node -> [Conn -> End]] /\ end'[n] = f /\ \A m \in Node \ {n} : end'[m] = end[m]
  BY DEF IInv, TypeOK, Becomes, Fine
<1>2. Ends(n, t, f)
  BY <1>1 DEF Ends, Becomes, SameShape
<1> QED BY <1>2, NodeMoves

-----------------------------------------------------------------------------
(* What the maps say after a connection is closed or gets its name.        *)

\* nothing but connection i changes, up to messages
OnlyAt(i, e, f) ==
  \A j \in Conn \ {i} : f[j].sock = e[j].sock /\ f[j].mapped = e[j].mapped /\ f[j].dead = e[j].dead

\* t is s without connection i
Forgets(i, s, t) ==
  /\ t.fresh = s.fresh \ {i}
  /\ \A m \in Node : t.table[m] = IF s.table[m] = i THEN None ELSE s.table[m]
  /\ \A m \in Node : t.progress[m] = IF s.progress[m] = i THEN None ELSE s.progress[m]

LEMMA KeptWithout ==
  ASSUME NEW s \in Manager, NEW t \in Manager, NEW e \in [Conn -> End], NEW f \in [Conn -> End],
         NEW i \in Conn, Kept(s, e), OnlyAt(i, e, f), Forgets(i, s, t),
         f[i].sock \in {"aborted", "closed"}
  PROVE  Kept(t, f)
<1>1. /\ s.table \in [Node -> Conn \cup {None}] /\ s.progress \in [Node -> Conn \cup {None}]
      /\ s.fresh \subseteq Conn
  BY DEF Manager
<1>2. \A j \in Conn : e[j].mapped \in Node \cup {Temporary}
  BY DEF End
<1>3. ASSUME NEW j \in Conn, f[j].sock = "connecting"
      PROVE  f[j].mapped \in Node /\ ~f[j].dead /\ t.progress[f[j].mapped] = j
  BY <1>3 DEF Kept, OnlyAt, Forgets
<1>4. ASSUME NEW j \in Conn, f[j].sock = "open"
      PROVE  ~f[j].dead /\ IF f[j].mapped = Temporary THEN j \in t.fresh ELSE t.table[f[j].mapped] = j
  BY <1>2, <1>4 DEF Kept, OnlyAt, Forgets
<1>5. ASSUME NEW m \in Node, t.table[m] # None
      PROVE  f[t.table[m]].sock = "open" /\ f[t.table[m]].mapped = m
  BY <1>1, <1>5 DEF Kept, OnlyAt, Forgets
<1>6. ASSUME NEW m \in Node, t.progress[m] # None
      PROVE  f[t.progress[m]].sock = "connecting" /\ f[t.progress[m]].mapped = m
  BY <1>1, <1>6 DEF Kept, OnlyAt, Forgets
<1>7. ASSUME NEW j \in t.fresh
      PROVE  f[j].sock = "open" /\ f[j].mapped = Temporary
  BY <1>1, <1>7 DEF Kept, OnlyAt, Forgets
<1> QED BY <1>3, <1>4, <1>5, <1>6, <1>7 DEF Kept

\* connection i has become the connection with m
Names(i, m, s, t) ==
  /\ t.fresh = s.fresh \ {i}
  /\ t.table = [s.table EXCEPT ![m] = i]
  /\ \A k \in Node : t.progress[k] = IF s.progress[k] = i THEN None ELSE s.progress[k]

LEMMA Owners ==
  ASSUME NEW s, NEW e, NEW i \in Conn, NEW m \in Node, Kept(s, e)
  PROVE  /\ s.table[m] = i => e[i].sock = "open" /\ e[i].mapped = m
         /\ s.progress[m] = i => e[i].sock = "connecting" /\ e[i].mapped = m
BY ConnAssumption DEF Kept

LEMMA ManagerTypes ==
  ASSUME NEW s \in Manager, NEW m \in Node
  PROVE  /\ s.table \in [Node -> Conn \cup {None}] /\ s.progress \in [Node -> Conn \cup {None}]
         /\ s.fresh \subseteq Conn /\ s.pending \in [Node -> Seq(Message)] /\ s.accepting \in BOOLEAN
         /\ [s EXCEPT !.progress[m] = None] \in Manager
         /\ [s EXCEPT !.progress[m] = None].table = s.table
         /\ [s EXCEPT !.progress[m] = None].fresh = s.fresh
         /\ [s EXCEPT !.progress[m] = None].progress = [s.progress EXCEPT ![m] = None]
         /\ [s EXCEPT !.progress[m] = None].pending = s.pending
BY DEF Manager

LEMMA WithoutPendingIsFine ==
  ASSUME NEW s \in Manager, NEW m \in Node
  PROVE  /\ WithoutPendingTo(s, m) \in Manager
         /\ SameMaps(s, WithoutPendingTo(s, m))
         /\ WithoutPendingTo(s, m).pending = [s.pending EXCEPT ![m] = <<>>]
<1>1. s.pending \in [Node -> Seq(Message)]
  BY ManagerTypes
<1>2. <<>> \in Seq(Message)
  OBVIOUS
<1>3. [s.pending EXCEPT ![m] = <<>>] \in [Node -> Seq(Message)]
  BY <1>1, <1>2
<1>4. WithoutPendingTo(s, m) = [s EXCEPT !.pending = [s.pending EXCEPT ![m] = <<>>]]
  BY DEF WithoutPendingTo, Manager
<1> QED BY <1>3, <1>4 DEF Manager, SameMaps

\* the end of an attempt to connect to m
Given(s, m) == WithoutPendingTo([s EXCEPT !.progress[m] = None], m)

LEMMA GivenIsFine ==
  ASSUME NEW s \in Manager, NEW m \in Node
  PROVE  /\ Given(s, m) \in Manager
         /\ Given(s, m).table = s.table /\ Given(s, m).fresh = s.fresh
         /\ Given(s, m).progress = [s.progress EXCEPT ![m] = None]
         /\ Given(s, m).pending = [s.pending EXCEPT ![m] = <<>>]
         /\ Awaited(s) => Awaited(Given(s, m))
<1> DEFINE r == [s EXCEPT !.progress[m] = None]
<1>1. /\ r \in Manager /\ r.table = s.table /\ r.fresh = s.fresh
      /\ r.progress = [s.progress EXCEPT ![m] = None] /\ r.pending = s.pending
  BY ManagerTypes
<1>2. Given(s, m) = WithoutPendingTo(r, m)
  BY DEF Given
<1> HIDE DEF r
<1>3. /\ WithoutPendingTo(r, m) \in Manager /\ SameMaps(r, WithoutPendingTo(r, m))
      /\ WithoutPendingTo(r, m).pending = [r.pending EXCEPT ![m] = <<>>]
  BY <1>1, WithoutPendingIsFine
<1>4. s.progress \in [Node -> Conn \cup {None}] /\ s.pending \in [Node -> Seq(Message)]
  BY ManagerTypes
<1> QED BY <1>1, <1>2, <1>3, <1>4 DEF SameMaps, Awaited

-----------------------------------------------------------------------------
(* disconnect, for each of its callers.                                    *)

\* e are the connections of n, of which i has just failed
Failed(n, i, e) ==
  /\ Running(n)
  /\ end[n][i].sock # "none"
  /\ e \in [Conn -> End]
  /\ OnlyAt(i, end[n], e)
  /\ e[i].mapped = end[n][i].mapped /\ e[i].dead = end[n][i].dead
  /\ \/ e[i].sock = "open" /\ end[n][i].sock = "open"
     \/ e[i].sock = "closed" /\ end[n][i].sock \in {"connecting", "aborted"}

LEMMA NodeDisconnects ==
  ASSUME NEW n \in Node, NEW i \in Conn, NEW e, IInv, RestOK(n), Failed(n, i, e),
         UNCHANGED <<link, server>>, Disconnect(n, i, mgr[n], e)
  PROVE  IInv'
<1> DEFINE s == mgr[n]  m == e[i].mapped
<1>1. s \in Manager /\ end[n] \in [Conn -> End] /\ Kept(s, end[n]) /\ m \in Node \cup {Temporary}
  BY DEF IInv, TypeOK, Failed, End
<1>2. /\ s.table \in [Node -> Conn \cup {None}] /\ s.progress \in [Node -> Conn \cup {None}]
      /\ s.fresh \subseteq Conn /\ s.pending \in [Node -> Seq(Message)]
  BY <1>1 DEF Manager
<1>3. server'[n] # "stopped" => Awaited(s)
  BY DEF IInv, Failed
<1>4. \A j \in Conn : e[j].sock # "none" => Tried(j)'
  BY DEF IInv, Linked, Failed, Tried, OnlyAt
<1> DEFINE f == Close(e, i)
<1>5. /\ f \in [Conn -> End] /\ f[i].sock \in {"aborted", "closed"} /\ OnlyAt(i, e, f)
  BY CloseIsFine DEF Failed, OnlyAt
<1> HIDE DEF f
<1>6. OnlyAt(i, end[n], f) /\ \A j \in Conn : f[j].sock # "none" => Tried(j)'
  BY <1>4, <1>5 DEF Failed, IInv, Linked, Tried, OnlyAt
<1>7. ASSUME NEW t \in Manager, Forgets(i, s, t), Awaited(s) => Awaited(t), Becomes(n, t, f)
      PROVE  IInv'
  <2>1. Kept(t, f)
    BY <1>1, <1>5, <1>6, <1>7, KeptWithout
  <2>2. Fine(n, t, f)
    BY <2>1, <1>3, <1>5, <1>6, <1>7 DEF Fine
  <2> QED BY <2>2, <1>7, NodeBecomes
<1>8. CASE m = Temporary /\ Becomes(n, [s EXCEPT !.fresh = @ \ {i}], f)
  <2> DEFINE t == [s EXCEPT !.fresh = @ \ {i}]
  <2>1. /\ t \in Manager /\ t.fresh = s.fresh \ {i}
        /\ t.table = s.table /\ t.progress = s.progress /\ t.pending = s.pending
    BY <1>1, <1>2 DEF Manager
  <2>2. Becomes(n, t, f)
    BY <1>8
  <2> HIDE DEF t
  <2>3. \A k \in Node : s.table[k] # i /\ s.progress[k] # i
    <3>1. end[n][i].mapped = Temporary
      BY <1>8 DEF Failed
    <3>2. \A k \in Node : k # Temporary
      BY NodeAssumption
    <3> QED BY <3>1, <3>2, <1>1, Owners
  <2>4. Forgets(i, s, t)
    BY <2>1, <2>3 DEF Forgets
  <2>5. Awaited(s) => Awaited(t)
    BY <2>1 DEF Awaited
  <2> QED BY <2>1, <2>2, <2>4, <2>5, <1>7
<1>9. CASE m # Temporary /\ s.table[m] = i /\ Becomes(n, [s EXCEPT !.table[m] = None], f)
  <2> DEFINE t == [s EXCEPT !.table[m] = None]
  <2>0. m \in Node
    BY <1>1, <1>9
  <2>1. /\ t \in Manager /\ t.fresh = s.fresh /\ t.progress = s.progress /\ t.pending = s.pending
        /\ t.table = [s.table EXCEPT ![m] = None]
    BY <1>1, <1>2, <2>0 DEF Manager
  <2>2. Becomes(n, t, f)
    BY <1>9
  <2> HIDE DEF t
  <2>3. end[n][i].sock = "open" /\ end[n][i].mapped = m
    BY <2>0, <1>1, <1>9, ConnAssumption DEF Kept
  <2>4. /\ \A k \in Node : s.progress[k] # i /\ (s.table[k] = i => k = m)
        /\ i \notin s.fresh
    BY <2>0, <2>3, <1>1, <1>2, <1>9, ConnAssumption DEF Kept
  <2>5. Forgets(i, s, t)
    BY <2>1, <2>4, <1>2, <1>9 DEF Forgets
  <2>6. Awaited(s) => Awaited(t)
    BY <2>1 DEF Awaited
  <2> QED BY <2>1, <2>2, <2>5, <2>6, <1>7
<1>10. CASE m # Temporary /\ s.table[m] = None /\ s.progress[m] = i /\ Becomes(n, Given(s, m), f)
  <2> DEFINE t == Given(s, m)
  <2>0. m \in Node
    BY <1>1, <1>10
  <2>1. /\ t \in Manager /\ t.fresh = s.fresh /\ t.table = s.table
        /\ t.progress = [s.progress EXCEPT ![m] = None]
        /\ Awaited(s) => Awaited(t)
    BY <1>1, <2>0, GivenIsFine
  <2>2. Becomes(n, t, f)
    BY <1>10
  <2> HIDE DEF t
  <2>3. end[n][i].sock = "connecting" /\ end[n][i].mapped = m
    BY <2>0, <1>1, <1>10, ConnAssumption DEF Kept
  <2>4. \A k \in Node : s.table[k] # i /\ (s.progress[k] = i => k = m)
    BY <2>3, <1>1, Owners
  <2>5. i \notin s.fresh
    BY <2>3, <1>1 DEF Kept
  <2>6. Forgets(i, s, t)
    BY <2>1, <2>4, <2>5, <1>2, <1>10 DEF Forgets
  <2> QED BY <2>1, <2>2, <2>6, <1>7
<1>11. CASE /\ m # Temporary /\ s.table[m] = None /\ s.progress[m] = None /\ e[i].dead
            /\ Becomes(n, s, e)
  <2>1. e[i].sock = "closed"
    BY <1>1, <1>11, ConnAssumption DEF Kept, Failed
  <2>2. end[n][i].sock \notin {"open", "connecting"}
    BY <2>1, <1>1, <1>11, ConnAssumption DEF Kept, Failed
  <2>3. \A k \in Node : s.table[k] # i /\ s.progress[k] # i
    BY <2>2, <1>1, Owners
  <2>4. Forgets(i, s, s)
    BY <2>2, <2>3, <1>1 DEF Forgets, Kept
  <2>5. Kept(s, e)
    BY <2>1, <2>4, <1>1, KeptWithout DEF Failed
  <2>6. Fine(n, s, e)
    BY <2>5, <1>1, <1>3, <1>4 DEF Fine, Failed
  <2> QED BY <2>6, <1>11, NodeBecomes
<1>12. CASE Abort(n, "disconnect")
  BY <1>12, NodeAborts
<1> QED BY <1>8, <1>9, <1>10, <1>11, <1>12 DEF Disconnect, Given, f

-----------------------------------------------------------------------------
(* Messages are sent, and connections are opened for them.                 *)

LEMMA NodeAsKept ==
  ASSUME NEW n \in Node, IInv, Running(n)
  PROVE  /\ mgr[n] \in Manager /\ end[n] \in [Conn -> End] /\ Kept(mgr[n], end[n])
         /\ server[n] # "stopped" => Awaited(mgr[n])
         /\ \A i \in Conn : end[n][i].sock # "none" => Tried(i)
BY DEF IInv, TypeOK, Linked

LEMMA RestUnchanged ==
  ASSUME NEW n \in Node, IInv, UNCHANGED <<link, sent, server, faults>>,
         resolving' \in [Node -> SUBSET Message]
  PROVE  RestOK(n) /\ \A i \in Conn : Tried(i) <=> Tried(i)'
BY DEF IInv, TypeOK, RestOK, Tried

LEMMA PendingIsFine ==
  ASSUME NEW s \in Manager, NEW m \in Node, NEW msg \in Message
  PROVE  /\ [s EXCEPT !.pending[m] = Append(@, msg)] \in Manager
         /\ SameMaps(s, [s EXCEPT !.pending[m] = Append(@, msg)])
         /\ [s EXCEPT !.pending[m] = Append(@, msg)].pending
              = [s.pending EXCEPT ![m] = Append(@, msg)]
<1>1. s.pending \in [Node -> Seq(Message)]
  BY ManagerTypes
<1>2. Append(s.pending[m], msg) \in Seq(Message)
  BY <1>1
<1>3. [s.pending EXCEPT ![m] = Append(s.pending[m], msg)] \in [Node -> Seq(Message)]
  BY <1>1, <1>2
<1>4. [s EXCEPT !.pending[m] = Append(@, msg)]
        = [s EXCEPT !.pending = [s.pending EXCEPT ![m] = Append(s.pending[m], msg)]]
  BY DEF Manager
<1> QED BY <1>3, <1>4 DEF Manager, SameMaps

\* a message joins those that wait for the connection to m
LEMMA PendingKeeps ==
  ASSUME NEW n \in Node, NEW m \in Node, NEW msg \in Message, IInv, RestOK(n), Running(n),
         UNCHANGED <<link, server>>, mgr[n].progress[m] # None,
         Becomes(n, [mgr[n] EXCEPT !.pending[m] = Append(@, msg)], end[n])
  PROVE  IInv'
<1> DEFINE s == mgr[n]  t == [s EXCEPT !.pending[m] = Append(@, msg)]
<1>1. /\ s \in Manager /\ end[n] \in [Conn -> End] /\ Kept(s, end[n])
      /\ server[n] # "stopped" => Awaited(s)
      /\ \A i \in Conn : end[n][i].sock # "none" => Tried(i)
  BY NodeAsKept
<1>2. /\ t \in Manager /\ SameMaps(s, t)
      /\ t.pending = [s.pending EXCEPT ![m] = Append(@, msg)]
  BY <1>1, PendingIsFine
<1>3. Becomes(n, t, end[n])
  OBVIOUS
<1> HIDE DEF t
<1>4. Kept(t, end[n])
  BY <1>1, <1>2, KeptFrame DEF SameShape
<1>5. s.pending \in [Node -> Seq(Message)]
  BY <1>1, ManagerTypes
<1>6. Awaited(s) => Awaited(t)
  BY <1>2, <1>5 DEF Awaited, SameMaps
<1>7. Fine(n, t, end[n])
  BY <1>1, <1>2, <1>4, <1>6 DEF Fine, Tried
<1> QED BY <1>3, <1>7, NodeBecomes

LEMMA ConnectKeeps ==
  ASSUME NEW n \in Node, NEW msg \in Message, IInv, Running(n),
         mgr[n].progress[msg.dst] = None, Connect(n, mgr[n], msg),
         resolving' \in [Node -> SUBSET Message], sent' \in 0..MaxMessages,
         UNCHANGED <<server, faults>>
  PROVE  IInv'
<1> DEFINE s == mgr[n]  e == end[n]  m == msg.dst
<1>1. /\ s \in Manager /\ e \in [Conn -> End] /\ Kept(s, e)
      /\ server[n] # "stopped" => Awaited(s)
      /\ \A i \in Conn : e[i].sock # "none" => Tried(i)
  BY NodeAsKept
<1>2. m \in Node
  BY DEF Message
<1>3. PICK i \in Conn :
        /\ link[i] = NoLink
        /\ link' = [link EXCEPT ![i] = [from |-> n, to |-> m, made |-> FALSE]]
        /\ Becomes(n, [s EXCEPT !.progress[m] = i, !.pending[m] = Append(@, msg)],
                      [e EXCEPT ![i] = [NoEnd EXCEPT !.sock = "connecting", !.mapped = m]])
  BY DEF Connect
<1> DEFINE t == [s EXCEPT !.progress[m] = i, !.pending[m] = Append(@, msg)]
           f == [e EXCEPT ![i] = [NoEnd EXCEPT !.sock = "connecting", !.mapped = m]]
<1>4. RestOK(n) /\ \A j \in Conn : Tried(j) => Tried(j)'
  BY <1>2, <1>3 DEF RestOK, IInv, TypeOK, Tried
<1>5. e[i].sock = "none"
  BY <1>1, <1>3, NodeAssumption DEF Tried, NoLink
<1>6. /\ f \in [Conn -> End] /\ OnlyAt(i, e, f)
      /\ f[i].sock = "connecting" /\ f[i].mapped = m /\ ~f[i].dead
  <2>1. [NoEnd EXCEPT !.sock = "connecting", !.mapped = m] \in End
    BY <1>2, NewEndIsFine
  <2> QED BY <2>1, <1>1 DEF OnlyAt, NoEnd
<1>7. /\ t \in Manager /\ t.table = s.table /\ t.fresh = s.fresh
      /\ t.progress = [s.progress EXCEPT ![m] = i]
      /\ t.pending = [s.pending EXCEPT ![m] = Append(@, msg)]
  <2> DEFINE r == [s EXCEPT !.pending[m] = Append(@, msg)]
  <2>1. /\ r \in Manager /\ SameMaps(s, r)
        /\ r.pending = [s.pending EXCEPT ![m] = Append(@, msg)]
    BY <1>1, <1>2, PendingIsFine
  <2>2. t = [r EXCEPT !.progress[m] = i]
    BY <1>1 DEF Manager
  <2> HIDE DEF r
  <2> QED BY <2>1, <2>2, <1>2 DEF Manager, SameMaps
<1>8. Becomes(n, t, f)
  BY <1>3
<1> HIDE DEF t, f
<1>9. \A j \in Conn : f[j].sock # "none" => Tried(j)'
  <2>1. Tried(i)'
    BY <1>2, <1>3 DEF Tried, IInv, TypeOK
  <2> QED BY <2>1, <1>1, <1>4, <1>6 DEF OnlyAt
<1>10. /\ s.table \in [Node -> Conn \cup {None}] /\ s.progress \in [Node -> Conn \cup {None}]
       /\ s.fresh \subseteq Conn /\ s.pending \in [Node -> Seq(Message)]
  BY <1>1, <1>2, ManagerTypes
<1>11. Kept(t, f)
  <2>1. \A k \in Node : s.table[k] # i /\ s.progress[k] # i
    BY <1>1, <1>5, Owners
  <2>2. i \notin s.fresh
    BY <1>1, <1>5 DEF Kept
  <2>3. ASSUME NEW j \in Conn, f[j].sock = "connecting"
        PROVE  f[j].mapped \in Node /\ ~f[j].dead /\ t.progress[f[j].mapped] = j
    <3>1. CASE j = i
      BY <3>1, <1>2, <1>6, <1>7, <1>10
    <3>2. CASE j # i
      <4>1. e[j].mapped \in Node /\ ~e[j].dead /\ s.progress[e[j].mapped] = j
        BY <3>2, <2>3, <1>1, <1>6 DEF Kept, OnlyAt
      <4>2. e[j].mapped # m
        BY <4>1, ConnAssumption
      <4> QED BY <4>1, <4>2, <3>2, <1>2, <1>6, <1>7, <1>10 DEF OnlyAt
    <3> QED BY <3>1, <3>2
  <2>4. ASSUME NEW j \in Conn, f[j].sock = "open"
        PROVE  ~f[j].dead /\ IF f[j].mapped = Temporary THEN j \in t.fresh ELSE t.table[f[j].mapped] = j
    BY <2>4, <1>1, <1>6, <1>7 DEF Kept, OnlyAt
  <2>5. ASSUME NEW k \in Node, t.table[k] # None
        PROVE  f[t.table[k]].sock = "open" /\ f[t.table[k]].mapped = k
    <3>1. s.table[k] \in Conn \ {i}
      BY <2>1, <2>5, <1>7, <1>10
    <3> QED BY <3>1, <2>5, <1>1, <1>6, <1>7 DEF Kept, OnlyAt
  <2>6. ASSUME NEW k \in Node, t.progress[k] # None
        PROVE  f[t.progress[k]].sock = "connecting" /\ f[t.progress[k]].mapped = k
    <3>1. CASE k = m
      BY <3>1, <1>2, <1>6, <1>7, <1>10
    <3>2. CASE k # m
      <4>1. t.progress[k] = s.progress[k] /\ s.progress[k] \in Conn \ {i}
        BY <3>2, <2>1, <2>6, <1>2, <1>7, <1>10
      <4> QED BY <4>1, <2>6, <1>1, <1>6 DEF Kept, OnlyAt
    <3> QED BY <3>1, <3>2
  <2>7. ASSUME NEW j \in t.fresh
        PROVE  f[j].sock = "open" /\ f[j].mapped = Temporary
    <3>1. j \in s.fresh /\ j \in Conn /\ j # i
      BY <2>2, <2>7, <1>7, <1>10
    <3> QED BY <3>1, <1>1, <1>6 DEF Kept, OnlyAt
  <2> QED BY <2>3, <2>4, <2>5, <2>6, <2>7 DEF Kept
<1>12. Awaited(s) => Awaited(t)
  BY <1>2, <1>7, <1>10, ConnAssumption DEF Awaited
<1>13. Fine(n, t, f)
  BY <1>1, <1>6, <1>7, <1>9, <1>11, <1>12 DEF Fine
<1> QED BY <1>4, <1>8, <1>13, NodeBecomes

LEMMA SendKeeps ==
  ASSUME NEW n \in Node, NEW m \in Node \ {n}, IInv, Send(n, m)
  PROVE  IInv'
<1> DEFINE s == mgr[n]  msg == [src |-> n, dst |-> m, id |-> sent + 1]
<1>1. /\ Running(n) /\ UNCHANGED <<server, faults>>
      /\ sent' \in 0..MaxMessages /\ msg \in Message
  BY BoundAssumption DEF Send, IInv, TypeOK, Message
<1>2. /\ s \in Manager /\ end[n] \in [Conn -> End] /\ Kept(s, end[n])
      /\ server[n] # "stopped" => Awaited(s)
      /\ \A i \in Conn : end[n][i].sock # "none" => Tried(i)
  BY <1>1, NodeAsKept
<1>3. ASSUME UNCHANGED link, resolving' \in [Node -> SUBSET Message]
      PROVE  RestOK(n) /\ \A i \in Conn : Tried(i) <=> Tried(i)'
  BY <1>1, <1>3 DEF RestOK, IInv, TypeOK, Tried
<1>4. resolving \in [Node -> SUBSET Message]
  BY DEF IInv, TypeOK
<1>5. CASE /\ s.table[m] # None
           /\ Becomes(n, s, SendOn(end[n], s.table[m], msg))
           /\ UNCHANGED <<resolving, link>>
  <2> DEFINE f == SendOn(end[n], s.table[m], msg)
  <2>1. s.table[m] \in Conn
    BY <1>2, <1>5 DEF Manager
  <2>2. f \in [Conn -> End] /\ SameShape(end[n], f)
    BY <2>1, <1>1, <1>2, SendOnIsFine
  <2>3. Becomes(n, s, f)
    BY <1>5
  <2> HIDE DEF f
  <2>4. Kept(s, f)
    BY <2>2, <1>2, KeptFrame DEF SameMaps
  <2>5. RestOK(n) /\ \A i \in Conn : Tried(i) <=> Tried(i)'
    BY <1>3, <1>4, <1>5
  <2>6. Fine(n, s, f)
    BY <2>2, <2>4, <2>5, <1>1, <1>2 DEF Fine, SameShape
  <2> QED BY <2>3, <2>5, <2>6, NodeBecomes
<1>6. CASE /\ s.progress[m] # None
           /\ Becomes(n, [s EXCEPT !.pending[m] = Append(@, msg)], end[n])
           /\ UNCHANGED <<resolving, link>>
  <2>1. RestOK(n)
    BY <1>3, <1>4, <1>6
  <2> HIDE DEF msg
  <2> QED BY <2>1, <1>1, <1>6, PendingKeeps
<1>7. CASE s.progress[m] = None /\ Connect(n, s, msg) /\ UNCHANGED resolving
  <2>1. msg.dst = m
    OBVIOUS
  <2> HIDE DEF msg
  <2> QED BY <2>1, <1>1, <1>4, <1>7, ConnectKeeps
<1>8. CASE /\ resolving' = [resolving EXCEPT ![n] = @ \cup {msg}]
           /\ UNCHANGED <<mgr, end, link, broken>>
  <2>1. RestOK(n) /\ \A i \in Conn : Tried(i) <=> Tried(i)'
    BY <1>1, <1>3, <1>4, <1>8
  <2>2. Fine(n, s, end[n])
    BY <2>1, <1>1, <1>2 DEF Fine
  <2>3. Ends(n, s, end[n])
    BY <1>8 DEF Ends, SameShape, IInv, TypeOK
  <2> QED BY <2>1, <2>2, <2>3, NodeMoves
<1> QED BY <1>5, <1>6, <1>7, <1>8 DEF Send

LEMMA ResolvedKeeps ==
  ASSUME NEW n \in Node, NEW msg \in resolving[n], IInv, Resolved(n, msg)
  PROVE  IInv'
<1> DEFINE s == mgr[n]
<1>1. /\ Running(n) /\ UNCHANGED <<sent, server, faults>> /\ msg \in Message /\ msg.dst \in Node
      /\ resolving' \in [Node -> SUBSET Message] /\ sent' \in 0..MaxMessages
  BY DEF Resolved, IInv, TypeOK, Message
<1>2. CASE UNCHANGED <<mgr, end, link, broken>>
  <2>1. /\ s \in Manager /\ end[n] \in [Conn -> End] /\ Kept(s, end[n])
        /\ server[n] # "stopped" => Awaited(s)
        /\ \A i \in Conn : end[n][i].sock # "none" => Tried(i)
    BY <1>1, NodeAsKept
  <2>2. RestOK(n) /\ \A i \in Conn : Tried(i) <=> Tried(i)'
    BY <1>1, <1>2, RestUnchanged
  <2>3. Fine(n, s, end[n])
    BY <2>1, <2>2, <1>1 DEF Fine
  <2>4. Ends(n, s, end[n])
    BY <1>2 DEF Ends, SameShape, IInv, TypeOK
  <2> QED BY <2>2, <2>3, <2>4, NodeMoves
<1>3. CASE /\ s.progress[msg.dst] # None /\ UNCHANGED link
           /\ Becomes(n, [s EXCEPT !.pending[msg.dst] = Append(@, msg)], end[n])
  <2>1. RestOK(n)
    BY <1>1, <1>3, RestUnchanged
  <2> QED BY <2>1, <1>1, <1>3, PendingKeeps
<1>4. CASE s.progress[msg.dst] = None /\ Connect(n, s, msg)
  BY <1>1, <1>4, ConnectKeeps
<1> QED BY <1>2, <1>3, <1>4 DEF Resolved

-----------------------------------------------------------------------------
(* Connections are made, accepted, named and closed.                       *)

LEMMA KeptNamed ==
  ASSUME NEW s \in Manager, NEW t \in Manager, NEW e \in [Conn -> End], NEW f \in [Conn -> End],
         NEW i \in Conn, NEW m \in Node, Kept(s, e), OnlyAt(i, e, f), Names(i, m, s, t),
         s.table[m] = None, e[i].sock # "open" \/ e[i].mapped = Temporary,
         f[i].sock = "open" /\ f[i].mapped = m /\ ~f[i].dead
  PROVE  Kept(t, f)
<1>1. /\ s.table \in [Node -> Conn \cup {None}] /\ s.progress \in [Node -> Conn \cup {None}]
      /\ s.fresh \subseteq Conn
  BY DEF Manager
<1>2. \A j \in Conn : e[j].mapped \in Node \cup {Temporary}
  BY DEF End
<1>3. \A k \in Node : s.table[k] # i
  BY Owners, NodeAssumption
<1>4. ASSUME NEW j \in Conn, f[j].sock = "connecting"
      PROVE  f[j].mapped \in Node /\ ~f[j].dead /\ t.progress[f[j].mapped] = j
  <2>1. j # i
    BY <1>4
  <2>2. e[j].mapped \in Node /\ ~e[j].dead /\ s.progress[e[j].mapped] = j
    BY <2>1, <1>4 DEF Kept, OnlyAt
  <2> QED BY <2>1, <2>2 DEF OnlyAt, Names
<1>5. ASSUME NEW j \in Conn, f[j].sock = "open"
      PROVE  ~f[j].dead /\ IF f[j].mapped = Temporary THEN j \in t.fresh ELSE t.table[f[j].mapped] = j
  <2>1. CASE j = i
    BY <2>1, <1>1, NodeAssumption DEF Names
  <2>2. CASE j # i
    <3>1. ~e[j].dead /\ IF e[j].mapped = Temporary THEN j \in s.fresh ELSE s.table[e[j].mapped] = j
      BY <2>2, <1>5 DEF Kept, OnlyAt
    <3>2. e[j].mapped = m => FALSE
      BY <3>1, NodeAssumption, ConnAssumption
    <3> QED BY <3>1, <3>2, <2>2, <1>1, <1>2 DEF Names, OnlyAt
  <2> QED BY <2>1, <2>2
<1>6. ASSUME NEW k \in Node, t.table[k] # None
      PROVE  f[t.table[k]].sock = "open" /\ f[t.table[k]].mapped = k
  <2>1. CASE k = m
    BY <2>1, <1>1 DEF Names
  <2>2. CASE k # m
    <3>1. t.table[k] = s.table[k] /\ s.table[k] \in Conn \ {i}
      BY <2>2, <1>1, <1>3, <1>6 DEF Names
    <3> QED BY <3>1, <1>6 DEF Kept, OnlyAt
  <2> QED BY <2>1, <2>2
<1>7. ASSUME NEW k \in Node, t.progress[k] # None
      PROVE  f[t.progress[k]].sock = "connecting" /\ f[t.progress[k]].mapped = k
  <2>1. t.progress[k] = s.progress[k] /\ s.progress[k] \in Conn \ {i}
    BY <1>1, <1>7 DEF Names
  <2> QED BY <2>1, <1>7 DEF Kept, OnlyAt
<1>8. ASSUME NEW j \in t.fresh
      PROVE  f[j].sock = "open" /\ f[j].mapped = Temporary
  <2>1. j \in s.fresh /\ j \in Conn /\ j # i
    BY <1>1, <1>8 DEF Names
  <2> QED BY <2>1 DEF Kept, OnlyAt
<1> QED BY <1>4, <1>5, <1>6, <1>7, <1>8 DEF Kept

LEMMA ConnectedKeeps ==
  ASSUME NEW n \in Node, NEW i \in Conn, IInv, Connected(n, i)
  PROVE  IInv'
<1> DEFINE s == mgr[n]  m == end[n][i].mapped  t == Given(s, m)
           e == [end[n] EXCEPT ![i].sock = "open"]
<1>1. /\ Running(n) /\ end[n][i].sock = "connecting"
      /\ link' = [link EXCEPT ![i].made = TRUE]
      /\ UNCHANGED <<resolving, sent, server, faults>>
  BY DEF Connected
<1>2. /\ s \in Manager /\ end[n] \in [Conn -> End] /\ Kept(s, end[n])
      /\ server[n] # "stopped" => Awaited(s)
      /\ \A j \in Conn : end[n][j].sock # "none" => Tried(j)
  BY <1>1, NodeAsKept
<1>3. m \in Node /\ s.progress[m] = i /\ ~end[n][i].dead
  BY <1>1, <1>2 DEF Kept
<1>4. RestOK(n) /\ \A j \in Conn : Tried(j) => Tried(j)'
  <2> DEFINE Link == [from : Node \cup {Temporary}, to : Node \cup {Temporary}, made : BOOLEAN]
  <2>1. link \in [Conn -> Link]
    BY DEF IInv, TypeOK
  <2>2. link[i] \in Link
    BY <2>1
  <2>3. [link[i] EXCEPT !.made = TRUE] \in Link
    BY <2>2
  <2>4. link' \in [Conn -> Link]
    BY <2>1, <2>3, <1>1
  <2>5. \A j \in Conn : link'[j].from = link[j].from /\ link'[j].to = link[j].to
    BY <2>1, <2>2, <1>1
  <2>6. \A j \in Conn \ {i} : link'[j] = link[j]
    BY <2>1, <1>1
  <2>7. \A j \in Conn : Tried(j) => Tried(j)'
    BY <2>5 DEF Tried
  <2>8. Tried(i)
    BY <1>1, <1>2
  <2> QED BY <2>4, <2>6, <2>7, <2>8, <1>1 DEF RestOK, IInv, TypeOK
<1>5. /\ s.table \in [Node -> Conn \cup {None}] /\ s.progress \in [Node -> Conn \cup {None}]
      /\ s.fresh \subseteq Conn /\ s.pending \in [Node -> Seq(Message)]
  BY <1>2 DEF Manager
<1>6. /\ t \in Manager /\ t.table = s.table /\ t.fresh = s.fresh
      /\ t.progress = [s.progress EXCEPT ![m] = None]
      /\ Awaited(s) => Awaited(t)
  BY <1>2, <1>3, GivenIsFine
<1>7. /\ e \in [Conn -> End] /\ OnlyAt(i, end[n], e)
      /\ e[i].sock = "open" /\ e[i].mapped = m /\ ~e[i].dead
  <2>1. end[n][i] \in End
    BY <1>2
  <2>2. [end[n][i] EXCEPT !.sock = "open"] \in End
    BY <2>1 DEF End
  <2> QED BY <2>1, <2>2, <1>2, <1>3 DEF OnlyAt, End
<1>8. /\ \A k \in Node : s.table[k] # i /\ (s.progress[k] = i => k = m)
      /\ i \notin s.fresh
  <2>1. \A k \in Node : s.table[k] # i /\ (s.progress[k] = i => k = m)
    BY <1>1, <1>2, Owners
  <2> QED BY <2>1, <1>1, <1>2 DEF Kept
<1>9. CASE /\ s.table[m] = None
           /\ Becomes(n, [t EXCEPT !.table[m] = i], SendAllOn(e, i, s.pending[m]))
  <2> DEFINE r == [t EXCEPT !.table[m] = i]  f == SendAllOn(e, i, s.pending[m])
  <2>1. f \in [Conn -> End] /\ SameShape(e, f)
    <3> HIDE DEF e
    <3> QED BY <1>3, <1>5, <1>7, SendAllOnIsFine
  <2>2. Becomes(n, r, f)
    BY <1>9
  <2>3. /\ r \in Manager /\ r.table = [s.table EXCEPT ![m] = i] /\ r.fresh = s.fresh
        /\ r.progress = [s.progress EXCEPT ![m] = None] /\ r.pending = t.pending
    <3> HIDE DEF t
    <3> QED BY <1>3, <1>6 DEF Manager
  <2> HIDE DEF r, f, e, t
  <2>4. Names(i, m, s, r)
    BY <2>3, <1>3, <1>5, <1>8 DEF Names
  <2>5. OnlyAt(i, end[n], f) /\ f[i].sock = "open" /\ f[i].mapped = m /\ ~f[i].dead
    BY <2>1, <1>7 DEF OnlyAt, SameShape
  <2>6. Kept(r, f)
    BY <2>1, <2>3, <2>4, <2>5, <1>1, <1>2, <1>3, <1>9, KeptNamed
  <2>7. Awaited(s) => Awaited(r)
    BY <2>3, <1>6 DEF Awaited
  <2>8. \A j \in Conn : f[j].sock # "none" => Tried(j)'
    BY <2>5, <1>1, <1>2, <1>4 DEF OnlyAt
  <2>9. Fine(n, r, f)
    BY <2>1, <2>3, <2>6, <2>7, <2>8, <1>1, <1>2 DEF Fine
  <2> QED BY <2>2, <2>9, <1>4, NodeBecomes
<1>10. CASE /\ s.table[m] # None
            /\ Becomes(n, t, Close(SendAllOn(e, s.table[m], s.pending[m]), i))
  <2> DEFINE g == SendAllOn(e, s.table[m], s.pending[m])  f == Close(g, i)
  <2>1. g \in [Conn -> End] /\ SameShape(e, g)
    <3>1. s.table[m] \in Conn /\ s.pending[m] \in Seq(Message)
      BY <1>3, <1>5, <1>10
    <3> HIDE DEF e
    <3> QED BY <3>1, <1>7, SendAllOnIsFine
  <2> HIDE DEF g
  <2>2. /\ f \in [Conn -> End] /\ f[i].sock \in {"aborted", "closed"}
        /\ \A j \in Conn \ {i} : f[j] = g[j]
    BY <2>1, CloseIsFine
  <2>3. Becomes(n, t, f)
    BY <1>10 DEF g
  <2> HIDE DEF f, e, t
  <2>4. OnlyAt(i, end[n], f)
    BY <2>1, <2>2, <1>7 DEF OnlyAt, SameShape
  <2>5. Forgets(i, s, t)
    BY <1>3, <1>5, <1>6, <1>8 DEF Forgets
  <2>6. Kept(t, f)
    BY <2>2, <2>4, <2>5, <1>2, <1>6, KeptWithout
  <2>7. \A j \in Conn : f[j].sock # "none" => Tried(j)'
    BY <2>4, <1>1, <1>2, <1>4 DEF OnlyAt
  <2>8. Fine(n, t, f)
    BY <2>2, <2>6, <2>7, <1>1, <1>2, <1>6 DEF Fine
  <2> QED BY <2>3, <2>8, <1>4, NodeBecomes
<1>11. CASE s.table[m] # None /\ end[n][s.table[m]].dead
  <2>1. end[n][s.table[m]].sock = "open" /\ s.table[m] \in Conn
    BY <1>2, <1>3, <1>5, <1>11 DEF Kept
  <2> QED BY <2>1, <1>2, <1>11 DEF Kept
<1> QED BY <1>3, <1>9, <1>10, <1>11 DEF Connected, Given

LEMMA ConnectFailsKeeps ==
  ASSUME NEW n \in Node, NEW i \in Conn, IInv, ConnectFails(n, i) \/ ConnectAborted(n, i)
  PROVE  IInv'
<1> DEFINE e == [end[n] EXCEPT ![i].sock = "closed"]
<1>1. /\ Running(n) /\ end[n][i].sock \in {"connecting", "aborted"}
      /\ Disconnect(n, i, mgr[n], e)
      /\ UNCHANGED <<resolving, link, sent, server>>
      /\ faults' \in 0..MaxFaults
  BY BoundAssumption DEF ConnectFails, ConnectAborted, Faults, IInv, TypeOK
<1>2. end[n] \in [Conn -> End] /\ end[n][i] \in End
  BY DEF IInv, TypeOK
<1>3. [end[n][i] EXCEPT !.sock = "closed"] \in End
  BY <1>2 DEF End
<1>4. Failed(n, i, e)
  BY <1>1, <1>2, <1>3 DEF Failed, OnlyAt, End
<1>5. RestOK(n)
  BY <1>1 DEF RestOK, IInv, TypeOK
<1> HIDE DEF e
<1> QED BY <1>1, <1>4, <1>5, NodeDisconnects

LEMMA FailsKeeps ==
  ASSUME NEW n \in Node, NEW i \in Conn, IInv, Fails(n, i)
  PROVE  IInv'
<1>1. PICK e \in {end[n], [end[n] EXCEPT ![i].out = <<>>]} : Disconnect(n, i, mgr[n], e)
  BY DEF Fails
<1>2. /\ Running(n) /\ end[n][i].sock = "open"
      /\ UNCHANGED <<resolving, link, sent, server>>
      /\ faults' \in 0..MaxFaults
  BY BoundAssumption DEF Fails, Faults, IInv, TypeOK
<1>3. end[n] \in [Conn -> End] /\ end[n][i] \in End
  BY DEF IInv, TypeOK
<1>4. [end[n][i] EXCEPT !.out = <<>>] \in End
  BY <1>3 DEF End
<1>5. Failed(n, i, e)
  <2>1. CASE e = end[n]
    BY <2>1, <1>2, <1>3 DEF Failed, OnlyAt
  <2>2. CASE e = [end[n] EXCEPT ![i].out = <<>>]
    BY <2>2, <1>2, <1>3, <1>4 DEF Failed, OnlyAt, End
  <2> QED BY <2>1, <2>2, <1>1
<1>6. RestOK(n)
  BY <1>2 DEF RestOK, IInv, TypeOK
<1> QED BY <1>1, <1>2, <1>5, <1>6, NodeDisconnects

LEMMA AcceptKeeps ==
  ASSUME NEW n \in Node, NEW i \in Conn, IInv, Accept(n, i)
  PROVE  IInv'
<1> DEFINE s == mgr[n]  e == end[n]
           t == [s EXCEPT !.fresh = @ \cup {i}, !.accepting = server[n] = "up"]
           f(old) == [j \in Conn |-> IF j = i THEN [NoEnd EXCEPT !.sock = "open"]
                                     ELSE IF j \in old THEN [e[j] EXCEPT !.queue = <<>>] ELSE e[j]]
<1>1. /\ Running(n) /\ e[i].sock = "none" /\ link[i].to = n
      /\ UNCHANGED <<resolving, link, sent, server, faults>>
  BY DEF Accept
<1>2. PICK old \in SUBSET Conn : Becomes(n, t, f(old))
  BY DEF Accept
<1>3. /\ s \in Manager /\ e \in [Conn -> End] /\ Kept(s, e)
      /\ server[n] # "stopped" => Awaited(s)
      /\ \A j \in Conn : e[j].sock # "none" => Tried(j)
  BY <1>1, NodeAsKept
<1>4. /\ s.table \in [Node -> Conn \cup {None}] /\ s.progress \in [Node -> Conn \cup {None}]
      /\ s.fresh \subseteq Conn
  BY <1>3 DEF Manager
<1>5. RestOK(n) /\ \A j \in Conn : Tried(j) <=> Tried(j)'
  BY <1>1, RestUnchanged DEF IInv, TypeOK
<1>6. Tried(i)
  BY <1>1, NodeAssumption DEF IInv, Linked, NoLink
<1>7. /\ t \in Manager /\ t.table = s.table /\ t.progress = s.progress
      /\ t.fresh = s.fresh \cup {i} /\ t.pending = s.pending
  BY <1>3, <1>4 DEF Manager
<1>8. /\ f(old) \in [Conn -> End] /\ OnlyAt(i, e, f(old))
      /\ f(old)[i].sock = "open" /\ f(old)[i].mapped = Temporary /\ ~f(old)[i].dead
  <2>1. \A j \in Conn : [e[j] EXCEPT !.queue = <<>>] \in End
    <3>1. ASSUME NEW j \in Conn
          PROVE  [e[j] EXCEPT !.queue = <<>>] \in End
      <4>1. e[j] \in End /\ <<>> \in Seq(Message)
        BY <1>3
      <4> QED BY <4>1 DEF End
    <3> QED BY <3>1
  <2>2. f(old) \in [Conn -> End]
    BY <2>1, <1>3, NewEndIsFine
  <2>3. \A j \in Conn : e[j] \in End
    BY <1>3
  <2>4. OnlyAt(i, e, f(old))
    BY <2>3 DEF OnlyAt, End
  <2> QED BY <2>2, <2>4 DEF NoEnd
<1> HIDE DEF t, f
<1>9. \A k \in Node : s.table[k] # i /\ s.progress[k] # i
  BY <1>1, <1>3, Owners
<1>10. Kept(t, f(old))
  <2> DEFINE g == f(old)
  <2> HIDE DEF g
  <2>0. g = f(old)
    BY DEF g
  <2>1. ASSUME NEW j \in Conn, g[j].sock = "connecting"
        PROVE  g[j].mapped \in Node /\ ~g[j].dead /\ t.progress[g[j].mapped] = j
    <3>1. j # i
      BY <2>0, <2>1, <1>8
    <3> QED BY <3>1, <2>0, <2>1, <1>3, <1>7, <1>8 DEF Kept, OnlyAt
  <2>2. ASSUME NEW j \in Conn, g[j].sock = "open"
        PROVE  ~g[j].dead /\ IF g[j].mapped = Temporary THEN j \in t.fresh ELSE t.table[g[j].mapped] = j
    <3>1. CASE j = i
      BY <3>1, <2>0, <1>7, <1>8
    <3>2. CASE j # i
      BY <3>2, <2>0, <2>2, <1>3, <1>7, <1>8 DEF Kept, OnlyAt
    <3> QED BY <3>1, <3>2
  <2>3. ASSUME NEW k \in Node, t.table[k] # None
        PROVE  g[t.table[k]].sock = "open" /\ g[t.table[k]].mapped = k
    <3>1. t.table[k] = s.table[k] /\ s.table[k] \in Conn \ {i}
      BY <2>3, <1>4, <1>7, <1>9
    <3> QED BY <3>1, <2>0, <2>3, <1>3, <1>8 DEF Kept, OnlyAt
  <2>4. ASSUME NEW k \in Node, t.progress[k] # None
        PROVE  g[t.progress[k]].sock = "connecting" /\ g[t.progress[k]].mapped = k
    <3>1. t.progress[k] = s.progress[k] /\ s.progress[k] \in Conn \ {i}
      BY <2>4, <1>4, <1>7, <1>9
    <3> QED BY <3>1, <2>0, <2>4, <1>3, <1>8 DEF Kept, OnlyAt
  <2>5. ASSUME NEW j \in t.fresh
        PROVE  g[j].sock = "open" /\ g[j].mapped = Temporary
    <3>1. CASE j = i
      BY <3>1, <2>0, <1>8
    <3>2. CASE j # i
      <4>1. j \in s.fresh /\ j \in Conn \ {i}
        BY <3>2, <2>5, <1>4, <1>7
      <4> QED BY <4>1, <2>0, <1>3, <1>8 DEF Kept, OnlyAt
    <3> QED BY <3>1, <3>2
  <2>6. Kept(t, g)
    BY <2>1, <2>2, <2>3, <2>4, <2>5 DEF Kept
  <2> QED BY <2>0, <2>6
<1>11. Awaited(s) => Awaited(t)
  BY <1>7 DEF Awaited
<1>12. \A j \in Conn : f(old)[j].sock # "none" => Tried(j)'
  BY <1>3, <1>5, <1>6, <1>8 DEF OnlyAt
<1>13. Fine(n, t, f(old))
  BY <1>1, <1>3, <1>7, <1>8, <1>10, <1>11, <1>12 DEF Fine
<1> QED BY <1>2, <1>5, <1>13, NodeBecomes

\* connection old is closed, and i becomes the connection with src
Succeeds(e, i, old, src) == [Close(e, old) EXCEPT ![i].mapped = src]

LEMMA TakeOverIsFine ==
  ASSUME NEW e \in [Conn -> End], NEW i \in Conn, NEW old \in Conn \ {i}, NEW src \in Node
  PROVE  /\ TakeOver(e, i, old, src) \in [Conn -> End]
         /\ SameShape(Succeeds(e, i, old, src), TakeOver(e, i, old, src))
         /\ \A j \in Conn : TakeOver(e, i, old, src)[j].wire = e[j].wire
<1> DEFINE a == [e EXCEPT ![i].mapped = src]
           b == [a EXCEPT ![i].queue = e[old].queue]
           g == [b EXCEPT ![old].queue = <<>>]
<1>1. e[i] \in End /\ e[old] \in End /\ e[old].queue \in Seq(Message) /\ <<>> \in Seq(Message)
  BY DEF End
<1>2. [e[i] EXCEPT !.mapped = src] \in End
  BY <1>1 DEF End
<1>3. a \in [Conn -> End] /\ a[i] \in End
  BY <1>2
<1>4. [a[i] EXCEPT !.queue = e[old].queue] \in End
  <2> HIDE DEF a
  <2> QED BY <1>1, <1>3 DEF End
<1>5. b \in [Conn -> End]
  BY <1>3, <1>4
<1>6. [b[old] EXCEPT !.queue = <<>>] \in End
  <2>1. b[old] \in End
    BY <1>5
  <2> HIDE DEF b
  <2> QED BY <2>1, <1>1 DEF End
<1>7. g \in [Conn -> End]
  BY <1>5, <1>6
<1>8. \A j \in Conn : /\ g[j].sock = e[j].sock /\ g[j].dead = e[j].dead /\ g[j].wire = e[j].wire
                      /\ g[j].mapped = IF j = i THEN src ELSE e[j].mapped
  <2>1. \A j \in Conn : e[j] \in End
    OBVIOUS
  <2> QED BY <2>1 DEF End
<1>9. TakeOver(e, i, old, src) = Close(g, old)
  BY DEF TakeOver
<1> HIDE DEF g
<1>10. Close(g, old) \in [Conn -> End]
  BY <1>7, CloseIsFine
<1>11. \A j \in Conn : g[j] \in End
  BY <1>7
<1>12. \A j \in Conn : /\ Close(g, old)[j].wire = g[j].wire /\ Close(g, old)[j].mapped = g[j].mapped
                       /\ Close(g, old)[j].dead = (IF j = old THEN TRUE ELSE g[j].dead)
                       /\ Close(g, old)[j].sock =
                            IF j # old THEN g[j].sock
                            ELSE IF g[j].sock = "connecting" THEN "aborted" ELSE "closed"
  BY <1>7, <1>11 DEF Close, End
<1>13. \A j \in Conn : e[j] \in End
  OBVIOUS
<1>14. \A j \in Conn : /\ Close(e, old)[j].mapped = e[j].mapped
                       /\ Close(e, old)[j].dead = (IF j = old THEN TRUE ELSE e[j].dead)
                       /\ Close(e, old)[j].sock =
                            IF j # old THEN e[j].sock
                            ELSE IF e[j].sock = "connecting" THEN "aborted" ELSE "closed"
  BY <1>13 DEF Close, End
<1>15. Close(e, old) \in [Conn -> End]
  BY CloseIsFine
<1>16. \A j \in Conn : Close(e, old)[j] \in End
  BY <1>15
<1>17. SameShape(Succeeds(e, i, old, src), Close(g, old))
  <2> DEFINE c == Close(e, old)  d == Close(g, old)
  <2>1. \A j \in Conn : c[j] \in End /\ c \in [Conn -> End]
    BY <1>15, <1>16
  <2> HIDE DEF c
  <2>2. \A j \in Conn : /\ [c EXCEPT ![i].mapped = src][j].sock = c[j].sock
                        /\ [c EXCEPT ![i].mapped = src][j].dead = c[j].dead
                        /\ [c EXCEPT ![i].mapped = src][j].mapped = IF j = i THEN src ELSE c[j].mapped
    BY <2>1 DEF End
  <2> HIDE DEF d
  <2>3. \A j \in Conn : d[j].sock = c[j].sock /\ d[j].dead = c[j].dead
                        /\ d[j].mapped = IF j = i THEN src ELSE c[j].mapped
    BY <1>8, <1>12, <1>14 DEF c, d
  <2>4. Succeeds(e, i, old, src) = [c EXCEPT ![i].mapped = src]
    BY DEF c, Succeeds
  <2> QED BY <2>2, <2>3, <2>4 DEF SameShape, d
<1> QED BY <1>8, <1>9, <1>10, <1>12, <1>17

-----------------------------------------------------------------------------
(* A message is read; the first one names the node that has sent it.       *)

\* the manager and the connections after n has read from i, before the message is taken off
Reads(n, i, t, f) ==
  /\ mgr' = [mgr EXCEPT ![n] = t]
  /\ end' = [end EXCEPT ![n] = f, ![Peer(n, i)][i].wire = Tail(@)]
  /\ UNCHANGED broken

LEMMA ReadsEnds ==
  ASSUME NEW n \in Node, NEW i \in Conn, NEW t, NEW f \in [Conn -> End], IInv, Reads(n, i, t, f),
         Peer(n, i) \in Node, end[Peer(n, i)][i].wire # <<>>, f[i].wire = end[n][i].wire
  PROVE  Ends(n, t, f)
<1> DEFINE p == Peer(n, i)  g == [end EXCEPT ![n] = f]
<1>1. end \in [Node -> [Conn -> End]]
  BY DEF IInv, TypeOK
<1>2. g \in [Node -> [Conn -> End]] /\ g[n] = f /\ \A m \in Node \ {n} : g[m] = end[m]
  BY <1>1
<1>3. end' = [g EXCEPT ![p] = [g[p] EXCEPT ![i] = [g[p][i] EXCEPT !.wire = Tail(@)]]]
  BY DEF Reads
<1>4. g[p][i].wire = end[p][i].wire
  BY <1>1, <1>2
<1> HIDE DEF g, p
<1>5. p \in Node /\ end[p][i].wire # <<>>
  BY DEF p
<1>6. g[p] \in [Conn -> End] /\ g[p][i] \in End /\ g[p][i].wire \in Seq(Message) /\ g[p][i].wire # <<>>
  BY <1>2, <1>4, <1>5 DEF End
<1> DEFINE x == [g[p][i] EXCEPT !.wire = Tail(@)]  y == [g[p] EXCEPT ![i] = x]
<1>7. x \in End /\ x.sock = g[p][i].sock /\ x.mapped = g[p][i].mapped /\ x.dead = g[p][i].dead
  <2>1. Tail(g[p][i].wire) \in Seq(Message)
    BY <1>6
  <2> QED BY <2>1, <1>6 DEF End
<1> HIDE DEF x
<1>8. y \in [Conn -> End] /\ SameShape(g[p], y)
  BY <1>6, <1>7 DEF SameShape
<1>9. end' = [g EXCEPT ![p] = y]
  BY <1>3 DEF x
<1> HIDE DEF y
<1>10. end' \in [Node -> [Conn -> End]] /\ \A m \in Node : SameShape(g[m], end'[m])
  BY <1>2, <1>5, <1>8, <1>9 DEF SameShape
<1> QED BY <1>2, <1>10 DEF Ends, Reads

LEMMA ReadKeeps ==
  ASSUME NEW n \in Node, NEW i \in Conn, IInv, Read(n, i)
  PROVE  IInv'
<1> DEFINE p == Peer(n, i)  src == Head(end[p][i].wire).src
           s == mgr[n]  e == end[n]  old == s.table[src]
           first == e[i].mapped = Temporary
           known == [s EXCEPT !.fresh = @ \ {i}, !.table[src] = i]
<1>1. /\ Running(n) /\ e[i].sock = "open" /\ end[p][i].wire # <<>>
      /\ UNCHANGED <<resolving, link, sent, server, faults>>
  BY DEF Read
<1>2. \/ ~first /\ Reads(n, i, s, e)
      \/ first /\ i \notin s.fresh
      \/ first /\ i \in s.fresh /\ old = None /\ Reads(n, i, known, [e EXCEPT ![i].mapped = src])
      \/ first /\ i \in s.fresh /\ old # None /\ Reads(n, i, known, TakeOver(e, i, old, src))
      \/ first /\ i \in s.fresh /\ Reads(n, i, [s EXCEPT !.fresh = @ \ {i}], Close(e, i))
  BY DEF Read, Reads
<1>3. /\ s \in Manager /\ e \in [Conn -> End] /\ Kept(s, e)
      /\ server[n] # "stopped" => Awaited(s)
      /\ \A j \in Conn : e[j].sock # "none" => Tried(j)
  BY <1>1, NodeAsKept
<1>4. RestOK(n) /\ \A j \in Conn : Tried(j) <=> Tried(j)'
  BY <1>1, RestUnchanged DEF IInv, TypeOK
<1>5. p \in Node
  BY <1>1, <1>3 DEF Peer, Tried
<1>6. src \in Node
  <2>1. end[p] \in [Conn -> End]
    BY <1>5 DEF IInv, TypeOK
  <2>2. end[p][i] \in End
    BY <2>1
  <2>3. end[p][i].wire \in Seq(Message)
    BY <2>2 DEF End
  <2>4. Head(end[p][i].wire) \in Message
    BY <2>3, <1>1
  <2> QED BY <2>4 DEF Message
<1>7. /\ s.table \in [Node -> Conn \cup {None}] /\ s.progress \in [Node -> Conn \cup {None}]
      /\ s.fresh \subseteq Conn /\ e[i] \in End
  BY <1>3 DEF Manager
<1> HIDE DEF p, src
<1>8. ASSUME NEW t, NEW f, Fine(n, t, f), f[i].wire = e[i].wire, Reads(n, i, t, f)
      PROVE  IInv'
  <2>1. Ends(n, t, f)
    BY <1>1, <1>5, <1>8, ReadsEnds DEF p, Fine
  <2> QED BY <2>1, <1>4, <1>8, NodeMoves
<1>9. /\ known \in Manager /\ known.fresh = s.fresh \ {i} /\ known.table = [s.table EXCEPT ![src] = i]
      /\ known.progress = s.progress /\ known.pending = s.pending
  BY <1>3, <1>6, <1>7 DEF Manager
<1>10. Awaited(s) => Awaited(known)
  BY <1>9 DEF Awaited
<1> HIDE DEF known
<1>11. \A k \in Node : s.progress[k] # i
  BY <1>1, <1>3, Owners
<1>12. CASE ~first /\ Reads(n, i, s, e)
  <2>1. Fine(n, s, e)
    BY <1>1, <1>3, <1>4 DEF Fine
  <2> QED BY <2>1, <1>8, <1>12
<1>13. CASE first /\ i \notin s.fresh
  BY <1>1, <1>3, <1>13 DEF Kept
<1>14. CASE first /\ i \in s.fresh /\ old = None /\ Reads(n, i, known, [e EXCEPT ![i].mapped = src])
  <2> DEFINE f == [e EXCEPT ![i].mapped = src]
  <2>1. [e[i] EXCEPT !.mapped = src] \in End
    BY <1>6, <1>7 DEF End
  <2>2. /\ f \in [Conn -> End] /\ OnlyAt(i, e, f) /\ f[i].sock = "open" /\ f[i].mapped = src
        /\ f[i].dead = e[i].dead /\ f[i].wire = e[i].wire
    BY <2>1, <1>1, <1>3, <1>7 DEF OnlyAt, End
  <2>3. Reads(n, i, known, f)
    BY <1>14
  <2> HIDE DEF f
  <2>4. ~f[i].dead
    BY <2>2, <1>1, <1>3 DEF Kept
  <2>5. Names(i, src, s, known)
    BY <1>9, <1>11 DEF Names
  <2>6. Kept(known, f)
    BY <2>2, <2>4, <2>5, <1>3, <1>6, <1>9, <1>14, KeptNamed
  <2>7. \A j \in Conn : f[j].sock # "none" => Tried(j)'
    BY <2>2, <1>1, <1>3, <1>4 DEF OnlyAt
  <2>8. Fine(n, known, f)
    BY <2>2, <2>6, <2>7, <1>1, <1>3, <1>9, <1>10 DEF Fine
  <2> QED BY <2>2, <2>3, <2>8, <1>8
<1>15. CASE first /\ i \in s.fresh /\ old # None /\ Reads(n, i, known, TakeOver(e, i, old, src))
  <2> DEFINE s1 == [s EXCEPT !.table[src] = None]  e1 == Close(e, old)
             f == TakeOver(e, i, old, src)  g == [e1 EXCEPT ![i].mapped = src]
  <2>1. old \in Conn /\ e[old].sock = "open" /\ e[old].mapped = src
    BY <1>3, <1>6, <1>7, <1>15 DEF Kept
  <2>2. old # i
    BY <2>1, <1>6, <1>15, NodeAssumption
  <2>3. /\ f \in [Conn -> End] /\ SameShape(g, f) /\ f[i].wire = e[i].wire
    <3> DEFINE o == old
    <3>1. o \in Conn \ {i}
      BY <2>1, <2>2
    <3>2. f = TakeOver(e, i, o, src) /\ g = Succeeds(e, i, o, src)
      BY DEF Succeeds
    <3> HIDE DEF o, f, g
    <3>3. e \in [Conn -> End]
      BY <1>3
    <3> HIDE DEF e
    <3>4. /\ TakeOver(e, i, o, src) \in [Conn -> End]
          /\ SameShape(Succeeds(e, i, o, src), TakeOver(e, i, o, src))
          /\ TakeOver(e, i, o, src)[i].wire = e[i].wire
      BY <3>1, <3>3, <1>6, TakeOverIsFine
    <3> QED BY <3>2, <3>4
  <2>4. Reads(n, i, known, f)
    BY <1>15
  <2>5. /\ s1 \in Manager /\ s1.fresh = s.fresh /\ s1.table = [s.table EXCEPT ![src] = None]
        /\ s1.progress = s.progress
    BY <1>3, <1>6, <1>7 DEF Manager
  <2>6. /\ e1 \in [Conn -> End] /\ e1[old].sock \in {"aborted", "closed"}
        /\ \A j \in Conn \ {old} : e1[j] = e[j]
    BY <2>1, <1>3, CloseIsFine
  <2> HIDE DEF s1, e1, f
  <2>7. OnlyAt(old, e, e1)
    BY <2>6 DEF OnlyAt
  <2>8. Forgets(old, s, s1)
    <3>1. /\ \A k \in Node : s.progress[k] # old /\ (s.table[k] = old => k = src)
          /\ old \notin s.fresh
      <4>1. \A k \in Node : s.progress[k] # old /\ (s.table[k] = old => k = src)
        BY <2>1, <1>3, Owners
      <4>2. old \notin s.fresh
        BY <2>1, <1>3, <1>6, NodeAssumption DEF Kept
      <4> QED BY <4>1, <4>2
    <3> QED BY <3>1, <2>5, <1>6, <1>7 DEF Forgets
  <2>9. Kept(s1, e1)
    BY <2>1, <2>5, <2>6, <2>7, <2>8, <1>3, KeptWithout
  <2>10. e1[i] = e[i] /\ e1[i].sock = "open" /\ e1[i].mapped = Temporary /\ ~e1[i].dead
    BY <2>2, <2>6, <1>1, <1>3, <1>15 DEF Kept
  <2>11. [e1[i] EXCEPT !.mapped = src] \in End
    BY <2>10, <1>6, <1>7 DEF End
  <2>12. /\ g \in [Conn -> End] /\ OnlyAt(i, e1, g)
         /\ g[i].sock = "open" /\ g[i].mapped = src /\ ~g[i].dead
    BY <2>6, <2>10, <2>11, <1>7 DEF OnlyAt, End
  <2> HIDE DEF g
  <2>13. Names(i, src, s1, known)
    BY <2>5, <1>6, <1>7, <1>9, <1>11 DEF Names
  <2>14. s1.table[src] = None
    BY <2>5, <1>6, <1>7
  <2>15. Kept(known, g)
    BY <2>5, <2>6, <2>9, <2>10, <2>12, <2>13, <2>14, <1>6, <1>9, KeptNamed
  <2>16. Kept(known, f)
    BY <2>3, <2>15, <1>9, KeptFrame DEF SameMaps
  <2>17. \A j \in Conn : f[j].sock # "none" => Tried(j)'
    BY <2>1, <2>3, <2>6, <2>12, <1>1, <1>3, <1>4 DEF OnlyAt, SameShape
  <2>18. Fine(n, known, f)
    BY <2>3, <2>16, <2>17, <1>1, <1>3, <1>9, <1>10 DEF Fine
  <2> QED BY <2>3, <2>4, <2>18, <1>8
<1>16. CASE first /\ i \in s.fresh /\ Reads(n, i, [s EXCEPT !.fresh = @ \ {i}], Close(e, i))
  <2> DEFINE t == [s EXCEPT !.fresh = @ \ {i}]  f == Close(e, i)
  <2>1. /\ t \in Manager /\ t.fresh = s.fresh \ {i}
        /\ t.table = s.table /\ t.progress = s.progress /\ t.pending = s.pending
    BY <1>3, <1>7 DEF Manager
  <2>2. /\ f \in [Conn -> End] /\ f[i].sock \in {"aborted", "closed"}
        /\ \A j \in Conn \ {i} : f[j] = e[j]
    BY <1>3, CloseIsFine
  <2>3. f[i].wire = e[i].wire
    BY <1>3, <1>7 DEF Close, End
  <2>4. Reads(n, i, t, f)
    BY <1>16
  <2> HIDE DEF t, f
  <2>5. OnlyAt(i, e, f)
    BY <2>2 DEF OnlyAt
  <2>6. \A k \in Node : s.table[k] # i
    BY <1>3, <1>16, Owners, NodeAssumption
  <2>7. Forgets(i, s, t)
    BY <2>1, <2>6, <1>11 DEF Forgets
  <2>8. Kept(t, f)
    BY <2>1, <2>2, <2>5, <2>7, <1>3, KeptWithout
  <2>9. Awaited(s) => Awaited(t)
    BY <2>1 DEF Awaited
  <2>10. \A j \in Conn : f[j].sock # "none" => Tried(j)'
    BY <2>2, <1>1, <1>3, <1>4
  <2>11. Fine(n, t, f)
    BY <2>1, <2>2, <2>8, <2>9, <2>10, <1>1, <1>3 DEF Fine
  <2> QED BY <2>3, <2>4, <2>11, <1>8
<1> QED BY <1>2, <1>12, <1>13, <1>14, <1>15, <1>16

-----------------------------------------------------------------------------
(* The other steps.                                                        *)

LEMMA WrittenKeeps ==
  ASSUME NEW n \in Node, NEW i \in Conn, IInv, Written(n, i)
  PROVE  IInv'
<1> DEFINE e == end[n][i]
           x == IF e.sock = "open" /\ e.queue # <<>>
                  THEN [e EXCEPT !.out = <<Head(e.queue)>>, !.queue = Tail(@),
                                 !.wire = Append(@, Head(e.queue))]
                  ELSE [e EXCEPT !.out = <<>>]
           f == [end[n] EXCEPT ![i] = x]
<1>1. /\ Running(n) /\ end' = [end EXCEPT ![n][i] = x]
      /\ UNCHANGED <<mgr, resolving, link, sent, server, broken, faults>>
  BY DEF Written
<1>2. /\ mgr[n] \in Manager /\ end[n] \in [Conn -> End] /\ Kept(mgr[n], end[n])
      /\ server[n] # "stopped" => Awaited(mgr[n])
      /\ \A j \in Conn : end[n][j].sock # "none" => Tried(j)
  BY <1>1, NodeAsKept
<1>3. RestOK(n) /\ \A j \in Conn : Tried(j) <=> Tried(j)'
  BY <1>1, RestUnchanged DEF IInv, TypeOK
<1>4. e \in End /\ e.queue \in Seq(Message) /\ e.wire \in Seq(Message)
  BY <1>2 DEF End
<1>5. x \in End /\ x.sock = e.sock /\ x.mapped = e.mapped /\ x.dead = e.dead
  <2>1. CASE e.sock = "open" /\ e.queue # <<>>
    <3>1. Head(e.queue) \in Message /\ Tail(e.queue) \in Seq(Message)
      BY <2>1, <1>4
    <3>2. Append(e.wire, Head(e.queue)) \in Seq(Message)
          /\ <<Head(e.queue)>> \in {<<msg>> : msg \in Message}
      BY <3>1, <1>4
    <3> QED BY <3>1, <3>2, <2>1, <1>4 DEF End
  <2>2. CASE ~(e.sock = "open" /\ e.queue # <<>>)
    BY <2>2, <1>4 DEF End
  <2> QED BY <2>1, <2>2
<1> HIDE DEF x
<1>6. f \in [Conn -> End] /\ SameShape(end[n], f)
  BY <1>2, <1>5 DEF SameShape
<1>7. end' = [end EXCEPT ![n] = f]
  BY <1>1, <1>2 DEF IInv, TypeOK
<1> HIDE DEF f
<1>8. Kept(mgr[n], f)
  BY <1>2, <1>6, KeptFrame DEF SameMaps
<1>9. Fine(n, mgr[n], f)
  BY <1>1, <1>2, <1>3, <1>6, <1>8 DEF Fine, SameShape
<1>10. Becomes(n, mgr[n], f)
  BY <1>1, <1>7 DEF Becomes, IInv, TypeOK
<1> QED BY <1>3, <1>9, <1>10, NodeBecomes

LEMMA StopServerKeeps ==
  ASSUME NEW n \in Node, IInv, StopServer(n)
  PROVE  IInv'
<1>1. /\ Running(n) /\ server[n] = "up" /\ server' = [server EXCEPT ![n] = "stopping"]
      /\ UNCHANGED <<mgr, end, resolving, link, sent, broken, faults>>
  BY DEF StopServer
<1>2. /\ mgr[n] \in Manager /\ end[n] \in [Conn -> End] /\ Kept(mgr[n], end[n])
      /\ server[n] # "stopped" => Awaited(mgr[n])
      /\ \A j \in Conn : end[n][j].sock # "none" => Tried(j)
  BY <1>1, NodeAsKept
<1>3. RestOK(n)
  BY <1>1 DEF RestOK, IInv, TypeOK
<1>4. Fine(n, mgr[n], end[n])
  BY <1>1, <1>2 DEF Fine, Tried
<1>5. Ends(n, mgr[n], end[n])
  BY <1>1 DEF Ends, SameShape, IInv, TypeOK
<1> QED BY <1>3, <1>4, <1>5, NodeMoves

LEMMA DelayedStopKeeps ==
  ASSUME NEW n \in Node, IInv, DelayedStop(n)
  PROVE  IInv'
<1> DEFINE s == mgr[n]  e == end[n]
           trying == {m \in Node : s.progress[m] # None}
           known == s.fresh \cup {s.table[m] : m \in Node} \cup {s.progress[m] : m \in trying}
           t(found) == [table |-> [m \in Node |-> None], fresh |-> {}, progress |-> [m \in Node |-> None],
                        pending |-> [m \in Node |-> IF m \in found THEN <<>> ELSE s.pending[m]],
                        accepting |-> FALSE]
           f == [i \in Conn |-> IF i \in known THEN Close(e, i)[i] ELSE e[i]]
<1>1. /\ Running(n) /\ server' = [server EXCEPT ![n] = "stopped"]
      /\ UNCHANGED <<resolving, link, sent, faults>>
  BY DEF DelayedStop
<1>2. PICK found \in SUBSET trying : Becomes(n, t(found), f)
  BY DEF DelayedStop
<1>3. /\ s \in Manager /\ e \in [Conn -> End] /\ Kept(s, e)
      /\ \A j \in Conn : e[j].sock # "none" => Tried(j)
  BY <1>1, NodeAsKept
<1>4. RestOK(n)
  BY <1>1 DEF RestOK, IInv, TypeOK
<1>5. /\ t(found) \in Manager /\ t(found).fresh = {}
      /\ \A m \in Node : t(found).table[m] = None /\ t(found).progress[m] = None
  <2>1. s.pending \in [Node -> Seq(Message)] /\ <<>> \in Seq(Message)
    BY <1>3 DEF Manager
  <2>2. [m \in Node |-> IF m \in found THEN <<>> ELSE s.pending[m]] \in [Node -> Seq(Message)]
    BY <2>1
  <2>3. [m \in Node |-> None] \in [Node -> Conn \cup {None}]
    OBVIOUS
  <2> QED BY <2>2, <2>3 DEF Manager
<1>6. \A i \in Conn : e[i].sock \in {"open", "connecting"} => i \in known
  <2>1. ASSUME NEW i \in Conn, e[i].sock = "connecting"
        PROVE  i \in known
    <3>1. e[i].mapped \in Node /\ s.progress[e[i].mapped] = i
      BY <2>1, <1>3 DEF Kept
    <3> QED BY <3>1, ConnAssumption
  <2>2. ASSUME NEW i \in Conn, e[i].sock = "open"
        PROVE  i \in known
    <3>1. e[i].mapped \in Node \cup {Temporary}
      BY <1>3 DEF End
    <3>2. IF e[i].mapped = Temporary THEN i \in s.fresh ELSE s.table[e[i].mapped] = i
      BY <2>2, <1>3 DEF Kept
    <3> QED BY <3>1, <3>2
  <2> QED BY <2>1, <2>2
<1> HIDE DEF t, known
<1>7. \A i \in Conn : /\ Close(e, i) \in [Conn -> End] /\ Close(e, i)[i] \in End
                      /\ Close(e, i)[i].sock \in {"aborted", "closed"}
  BY <1>3, CloseIsFine
<1>8. f \in [Conn -> End]
  BY <1>3, <1>7
<1>9. \A i \in Conn : f[i].sock \notin {"open", "connecting"}
  BY <1>6, <1>7
<1>10. \A i \in Conn : f[i].sock # "none" => Tried(i)'
  <2>1. ASSUME NEW i \in Conn, i \in known
        PROVE  e[i].sock # "none"
    BY <2>1, <1>3, ConnAssumption DEF known, Kept
  <2> QED BY <2>1, <1>1, <1>3 DEF Tried
<1> HIDE DEF f
<1>11. Kept(t(found), f)
  BY <1>5, <1>9 DEF Kept
<1>12. server'[n] = "stopped"
  BY <1>1 DEF IInv, TypeOK
<1>13. Fine(n, t(found), f)
  BY <1>5, <1>8, <1>10, <1>11, <1>12 DEF Fine
<1> QED BY <1>2, <1>4, <1>13, NodeBecomes

-----------------------------------------------------------------------------

LEMMA InitFine == Init => IInv
<1> SUFFICES ASSUME Init PROVE IInv
  OBVIOUS
<1>1. NoEnd \in End
  <2>1. <<>> \in Seq(Message) /\ <<>> \in {<<>>} \cup {<<msg>> : msg \in Message}
    OBVIOUS
  <2> QED BY <2>1 DEF NoEnd, End
<1>2. [m \in Node |-> <<>>] \in [Node -> Seq(Message)]
  OBVIOUS
<1>3. mgr \in [Node -> Manager]
  BY <1>2 DEF Init, Manager
<1>4. TypeOK
  <2>1. end \in [Node -> [Conn -> End]]
    BY <1>1 DEF Init
  <2>2. link \in [Conn -> [from : Node \cup {Temporary}, to : Node \cup {Temporary}, made : BOOLEAN]]
    BY DEF Init, NoLink
  <2>3. sent \in 0..MaxMessages /\ faults \in 0..MaxFaults
    BY BoundAssumption DEF Init
  <2> QED BY <2>1, <2>2, <2>3, <1>3 DEF Init, TypeOK
<1>5. \A n \in Node : Kept(mgr[n], end[n]) /\ Awaited(mgr[n])
  BY ConnAssumption DEF Init, Kept, Awaited, NoEnd
<1>6. AssertionsHold /\ Linked
  BY DEF Init, AssertionsHold, Linked, NoEnd
<1> QED BY <1>4, <1>5, <1>6 DEF IInv

LEMMA NextKeeps == IInv /\ [Next]_vars => IInv'
<1> SUFFICES ASSUME IInv, [Next]_vars PROVE IInv'
  OBVIOUS
<1>1. CASE UNCHANGED vars
  BY <1>1 DEF vars, IInv, TypeOK, AssertionsHold, Linked, Tried, Running, Kept, Awaited
<1>2. ASSUME NEW n \in Node, NEW m \in Node \ {n}, Send(n, m) PROVE IInv'
  BY <1>2, SendKeeps
<1>3. ASSUME NEW n \in Node, NEW msg \in resolving[n], Resolved(n, msg) PROVE IInv'
  BY <1>3, ResolvedKeeps
<1>4. ASSUME NEW n \in Node, NEW i \in Conn, Connected(n, i) PROVE IInv'
  BY <1>4, ConnectedKeeps
<1>5. ASSUME NEW n \in Node, NEW i \in Conn, ConnectFails(n, i) \/ ConnectAborted(n, i) PROVE IInv'
  BY <1>5, ConnectFailsKeeps
<1>6. ASSUME NEW n \in Node, NEW i \in Conn, Accept(n, i) PROVE IInv'
  BY <1>6, AcceptKeeps
<1>7. ASSUME NEW n \in Node, NEW i \in Conn, Read(n, i) PROVE IInv'
  BY <1>7, ReadKeeps
<1>8. ASSUME NEW n \in Node, NEW i \in Conn, Fails(n, i) PROVE IInv'
  BY <1>8, FailsKeeps
<1>9. ASSUME NEW n \in Node, NEW i \in Conn, Written(n, i) PROVE IInv'
  BY <1>9, WrittenKeeps
<1>10. ASSUME NEW n \in Node, StopServer(n) PROVE IInv'
  BY <1>10, StopServerKeeps
<1>11. ASSUME NEW n \in Node, DelayedStop(n) PROVE IInv'
  BY <1>11, DelayedStopKeeps
<1> QED
  BY <1>1, <1>2, <1>3, <1>4, <1>5, <1>6, <1>7, <1>8, <1>9, <1>10, <1>11 DEF Next

\* What the maps of a connection manager say of its connections is an invariant.
THEOREM Invariance == Spec => []IInv
BY InitFine, NextKeeps, PTL DEF Spec

\* Types, for any nodes, connections, messages and faults.
THEOREM TypeCorrect == Spec => []TypeOK
<1>1. IInv => TypeOK
  BY DEF IInv
<1> QED BY <1>1, Invariance, PTL

\* The assertions of handle_connect and remap never fail, so the only one of the
\* connection manager that can is "conn == conn2" in disconnect.
THEOREM OnlyDisconnectFails == Spec => []AssertionsHold
<1>1. IInv => AssertionsHold
  BY DEF IInv
<1> QED BY <1>1, Invariance, PTL

\* However connects cross, are doubled, fail or are stopped, the manager knows every
\* connection that is open or being opened, and none that is closed.
THEOREM ManagerKnowsConnections == Spec => []ConnectionsKnown
<1>1. IInv => ConnectionsKnown
  BY DEF IInv, ConnectionsKnown, Kept
<1> QED BY <1>1, Invariance, PTL

\* A message in _pending always waits for a connection that is being opened.
THEOREM NothingWaitsInVain == Spec => []PendingIsAwaited
<1>1. IInv => PendingIsAwaited
  BY DEF IInv, PendingIsAwaited, Awaited
<1> QED BY <1>1, Invariance, PTL

-----------------------------------------------------------------------------

\* An established connection that fails is the one disconnect finds.
LEMMA EstablishedIsFound ==
  ASSUME NEW n \in Node, NEW i \in Conn, IInv, Fails(n, i)
  PROVE  UNCHANGED broken
<1>1. PICK e \in {end[n], [end[n] EXCEPT ![i].out = <<>>]} : Disconnect(n, i, mgr[n], e)
  BY DEF Fails
<1>2. Running(n) /\ end[n][i].sock = "open" /\ end[n] \in [Conn -> End] /\ end[n][i] \in End
  BY DEF Fails, IInv, TypeOK
<1>3. e[i].mapped = end[n][i].mapped
  BY <1>2 DEF End
<1>4. e[i].mapped = Temporary \/ mgr[n].table[e[i].mapped] = i
  BY <1>2, <1>3 DEF IInv, Kept
<1>5. i # None
  BY ConnAssumption
<1> HIDE DEF IInv
<1> QED BY <1>1, <1>4, <1>5 DEF Disconnect, Becomes

\* disconnect finds every established connection under the id of its node: only an
\* attempt to connect can fail its assertion.
THEOREM EstablishedAreFound == Spec => OnlyAttemptsFailIt
<1> DEFINE Attempts == \A n \in Node : broken'[n] # broken[n] =>
                         \E i \in Conn : ConnectFails(n, i) \/ ConnectAborted(n, i)
<1>1. ASSUME IInv, [Next]_vars, IInv'
      PROVE  Attempts \/ UNCHANGED vars
  <2> SUFFICES ASSUME NEW k \in Node, broken'[k] # broken[k]
               PROVE  \E i \in Conn : ConnectFails(k, i) \/ ConnectAborted(k, i)
    OBVIOUS
  <2>1. Next
    BY <1>1 DEF vars
  <2>2. PICK n \in Node :
          \/ \E m \in Node \ {n} : Send(n, m)
          \/ \E msg \in resolving[n] : Resolved(n, msg)
          \/ \E i \in Conn :
               \/ Connected(n, i) \/ ConnectFails(n, i) \/ ConnectAborted(n, i)
               \/ Accept(n, i) \/ Read(n, i) \/ Fails(n, i) \/ Written(n, i)
          \/ StopServer(n) \/ DelayedStop(n)
    BY <2>1 DEF Next
  <2>3. broken \in [Node -> {"none", "disconnect", "handle_connect", "remap"}]
    BY <1>1 DEF IInv, TypeOK
  <2>4. ~ \E m \in Node \ {n} : Send(n, m)
    BY Zenon DEF Send, Connect, Becomes
  <2>5. ~ \E msg \in resolving[n] : Resolved(n, msg)
    BY Zenon DEF Resolved, Connect, Becomes
  <2>6. ~StopServer(n) /\ ~DelayedStop(n)
    BY DEF StopServer, DelayedStop, Becomes
  <2>7. PICK i \in Conn : \/ Connected(n, i) \/ ConnectFails(n, i) \/ ConnectAborted(n, i)
                          \/ Accept(n, i) \/ Read(n, i) \/ Fails(n, i) \/ Written(n, i)
    BY <2>2, <2>4, <2>5, <2>6
  <2>8. broken'[n] \in {"none", "disconnect"}
    BY <1>1 DEF IInv, AssertionsHold
  <2>9. ~Connected(n, i)
    BY <2>3, <2>8 DEF Connected, Becomes, Abort
  <2>10. ~Read(n, i)
    BY <2>3, <2>8, Zenon DEF Read, Becomes, Abort
  <2>11. ~Accept(n, i) /\ ~Written(n, i)
    BY DEF Accept, Written, Becomes
  <2>12. ~Fails(n, i)
    BY <1>1, EstablishedIsFound
  <2>13. ConnectFails(n, i) \/ ConnectAborted(n, i)
    BY <2>7, <2>9, <2>10, <2>11, <2>12
  <2>14. k = n
    <3>1. UNCHANGED broken \/ broken' = [broken EXCEPT ![n] = "disconnect"]
      BY <2>13, Zenon DEF ConnectFails, ConnectAborted, Disconnect, Becomes, Abort
    <3> QED BY <2>3, <3>1
  <2> QED BY <2>13, <2>14
<1> QED BY <1>1, Invariance, PTL DEF Spec, OnlyAttemptsFailIt

=============================================================================
