----------------------- MODULE ConnectionSurvivalProofs -----------------------
(***************************************************************************)
(* Proof about Connections, for every set of nodes and connections and     *)
(* every bound: the two ends of crossing connects, which choose alone,     *)
(* never close the connection that the other one has chosen.               *)
(*                                                                         *)
(* For two nodes that nothing has happened to, a the one with the smaller  *)
(* id: a never gives up the connection it has chosen first.  b gives one   *)
(* up only for what it reads from a, and a writes on its choice only.      *)
(***************************************************************************)
EXTENDS ConnectionMessageProofs

-----------------------------------------------------------------------------
(* The inductive invariant.                                                *)

Between(i, n, m) ==
  \/ link[i].from = n /\ link[i].to = m
  \/ link[i].from = m /\ link[i].to = n

\* an end of a connection and the link
Shaped(n) ==
  \A i \in Conn :
    /\ end[n][i].mapped = Temporary => end[n][i].out = <<>>
    /\ end[n][i].sock = "connecting" => link[i].from = n /\ end[n][i].wire = <<>>
    /\ end[n][i].sock # "none" =>
         /\ n \in {link[i].from, link[i].to} /\ link[i].from # link[i].to
         /\ IF end[n][i].mapped = Temporary THEN link[i].to = n ELSE end[n][i].mapped = Peer(n, i)

Joined == \A i \in Conn : link[i].made => Tried(i) /\ link[i].from # link[i].to

Healthy(n, m) == faults = 0 /\ ~Refuses(n) /\ ~Refuses(m)

\* what n has written to m and is not read yet is on the connection n has chosen
UsesOnly(n, m) == \A i \in Conn : Between(i, n, m) /\ end[n][i].wire # <<>> => mgr[n].table[m] = i

\* while n does not know that a connection to m is made, m has nothing to read on it
Unanswered(n, m) ==
  \A i \in Conn : link[i].from = n /\ link[i].to = m /\ end[n][i].sock = "connecting" =>
    end[m][i].sock = "none" \/ (end[m][i].sock = "open" /\ end[m][i].mapped = Temporary)

\* a has chosen a connection to b, and b has it or will accept it
Chosen(a, b) ==
  LET i == mgr[a].table[b]
  IN  link[i].made /\ (end[b][i].sock = "open" \/ (link[i].from = a /\ end[b][i].sock = "none"))

\* a has none yet: what is made comes from b, and a has it or will accept it
Undecided(a, b) ==
  /\ UsesOnly(b, a)
  /\ \A i \in Conn : Between(i, a, b) /\ link[i].made => link[i].from = b /\ mgr[b].table[a] # None
  /\ LET i == mgr[b].table[a]
     IN  i # None => link[i].made /\ link[i].from = b /\ end[a][i].sock \in {"none", "open"}

Pair(a, b) ==
  /\ UsesOnly(a, b) /\ Unanswered(a, b) /\ Unanswered(b, a)
  /\ mgr[a].table[b] # None => Chosen(a, b)
  /\ mgr[a].table[b] = None => Undecided(a, b)

SInv ==
  /\ Joined
  /\ \A n \in Node : Shaped(n)
  /\ \A a, b \in Node : a < b /\ Healthy(a, b) => Pair(a, b)

-----------------------------------------------------------------------------
(* What a step of node n does to sockets, ids, choices and links.          *)

SameAt(n, i) == end'[n][i].sock = end[n][i].sock /\ end'[n][i].mapped = end[n][i].mapped

SameBut(n, A) == \A i \in Conn \ A : SameAt(n, i)

SameTable(n) == \A m \in Node : mgr'[n].table[m] = mgr[n].table[m]

Chooses(n, m, i) ==
  mgr'[n].table[m] = i /\ \A k \in Node \ {m} : mgr'[n].table[k] = mgr[n].table[k]

SameLinks == \A i \in Conn : link'[i] = link[i]

\* in every step
Moves(n) ==
  /\ Running(n)
  /\ \A a, b \in Node : Healthy(a, b)' => Healthy(a, b)
  /\ \A k \in Node \ {n}, i \in Conn :
       /\ SameAt(k, i) /\ end'[k][i].out = end[k][i].out
       /\ end[k][i].wire = <<>> => end'[k][i].wire = <<>>
  /\ \A k \in Node \ {n} : SameTable(k)
  /\ \A i \in Conn : link[i] # NoLink =>
       link'[i].from = link[i].from /\ link'[i].to = link[i].to /\ (link[i].made => link'[i].made)
  /\ \A i \in Conn : link'[i] = link[i] \/ link'[i].from = n
  /\ \A i \in Conn :
       /\ end'[n][i].mapped = Temporary => end'[n][i].out = <<>>
       /\ end'[n][i].sock = "connecting" => end'[n][i].wire = <<>>
       /\ end'[n][i].wire # <<>> => \/ end[n][i].wire # <<>>
                                    \/ \E m \in Node : Between(i, n, m) /\ mgr'[n].table[m] = i

Stays(n) == SameLinks /\ SameTable(n) /\ SameBut(n, {})

\* n tries a connection
Opens(n, i) ==
  /\ link[i] = NoLink /\ ~link'[i].made
  /\ link'[i].from = n /\ link'[i].to \in Node \ {n}
  /\ \A j \in Conn \ {i} : link'[j] = link[j]
  /\ SameTable(n) /\ SameBut(n, {i})
  /\ end'[n][i].sock = "connecting" /\ end'[n][i].mapped = link'[i].to

\* TCP has made it, and n uses it or another one
Makes(n, i) ==
  LET m == end[n][i].mapped
  IN  /\ end[n][i].sock = "connecting" /\ m \in Node
      /\ \A j \in Conn \ {i} : link'[j] = link[j]
      /\ SameBut(n, {i}) /\ end'[n][i].mapped = m
      /\ link'[i].made
      /\ \/ mgr[n].table[m] = None /\ Chooses(n, m, i) /\ end'[n][i].sock = "open"
         \/ mgr[n].table[m] # None /\ SameTable(n) /\ end'[n][i].sock = "closed"

\* n accepts one
Admits(n, i) ==
  /\ link[i].to = n /\ link[i].from # n /\ end[n][i].sock = "none"
  /\ SameLinks /\ SameTable(n) /\ SameBut(n, {i})
  /\ end'[n][i].sock = "open" /\ end'[n][i].mapped = Temporary

\* n gives one up that has failed, been refused or been closed
Quits(n, i) ==
  LET m == end[n][i].mapped
  IN  /\ SameLinks /\ SameBut(n, {i})
      /\ end[n][i].sock # "none" /\ end'[n][i].sock = "closed" /\ end'[n][i].mapped = m
      /\ SameTable(n) \/ (m \in Node /\ mgr[n].table[m] = i /\ Chooses(n, m, None))
      /\ \/ faults' # 0
         \/ end[n][i].sock = "aborted"
         \/ end[n][i].sock = "connecting" /\ Refuses(m)
         \/ /\ end[n][i].sock = "open"
            /\ Refuses(Peer(n, i)) \/ end[Peer(n, i)][i].sock \in {"closed", "aborted"}

\* n reads who is at the other end of a connection, and keeps that or the one it has
Learns(n, i) ==
  LET p == Peer(n, i)  old == mgr[n].table[p]
  IN  /\ end[n][i].sock = "open" /\ end[n][i].mapped = Temporary /\ end[p][i].wire # <<>>
      /\ SameLinks /\ p \in Node
      /\ \/ /\ old = None /\ Chooses(n, p, i) /\ SameBut(n, {i})
            /\ end'[n][i].sock = "open" /\ end'[n][i].mapped = p
         \/ /\ old # None /\ p < n /\ Chooses(n, p, i) /\ SameBut(n, {i, old})
            /\ end'[n][i].sock = "open" /\ end'[n][i].mapped = p
            /\ end'[n][old].sock = "closed" /\ end'[n][old].mapped = end[n][old].mapped
         \/ /\ old # None /\ ~(p < n) /\ SameTable(n) /\ SameBut(n, {i})
            /\ end'[n][i].sock = "closed" /\ end'[n][i].mapped = Temporary

\* n ends
Halts(n) ==
  /\ Refuses(n)'
  /\ \A i \in Conn :
       /\ end'[n][i].mapped = end[n][i].mapped
       /\ \/ end'[n][i].sock = end[n][i].sock
          \/ end[n][i].sock # "none" /\ end'[n][i].sock \in {"aborted", "closed"}
       /\ link'[i] = link[i] \/ end[n][i].sock = "connecting"

-----------------------------------------------------------------------------
(* What is known of a node that runs.                                      *)

LEMMA TableLeads ==
  ASSUME NEW n \in Node, NEW m \in Node, IInv, Shaped(n), Running(n), mgr[n].table[m] # None
  PROVE  /\ mgr[n].table[m] \in Conn /\ n # m
         /\ end[n][mgr[n].table[m]].sock = "open" /\ end[n][mgr[n].table[m]].mapped = m
         /\ Between(mgr[n].table[m], n, m)
<1>1. mgr[n].table[m] \in Conn
  BY DEF IInv, TypeOK, Manager
<1>2. end[n][mgr[n].table[m]].sock = "open" /\ end[n][mgr[n].table[m]].mapped = m
  BY DEF IInv, Kept
<1>3. m # Temporary
  BY NodeAssumption
<1> QED BY <1>1, <1>2, <1>3 DEF Shaped, Between, Peer

LEMMA OpenLeads ==
  ASSUME NEW n \in Node, NEW i \in Conn, IInv, Shaped(n), Running(n),
         end[n][i].sock = "open", end[n][i].mapped # Temporary
  PROVE  /\ end[n][i].mapped \in Node /\ end[n][i].mapped = Peer(n, i)
         /\ mgr[n].table[end[n][i].mapped] = i
<1>1. mgr[n].table[end[n][i].mapped] = i
  BY DEF IInv, Kept
<1>2. end[n][i].mapped \in Node
  BY DEF IInv, TypeOK, End
<1> QED BY <1>1, <1>2 DEF Shaped

LEMMA ConnectingLeads ==
  ASSUME NEW n \in Node, NEW i \in Conn, IInv, Shaped(n), Running(n), end[n][i].sock = "connecting"
  PROVE  /\ end[n][i].mapped \in Node \ {n} /\ link[i].from = n /\ link[i].to = end[n][i].mapped
         /\ end[n][i].wire = <<>>
<1>1. end[n][i].mapped \in Node
  BY DEF IInv, Kept
<1> QED BY <1>1, NodeAssumption DEF Shaped, Peer

-----------------------------------------------------------------------------
(* What every step leaves true of two nodes.                               *)

\* a connection between a and b keeps its ends, and a new one is not used yet
LEMMA SameBetween ==
  ASSUME NEW n \in Node, IInv, MInv, Moves(n), NEW a \in Node, NEW b \in Node, NEW i \in Conn, a # b
  PROVE  /\ Between(i, a, b) => link'[i].from = link[i].from /\ link'[i].to = link[i].to
         /\ Between(i, a, b)' => \/ Between(i, a, b) /\ link'[i].from = link[i].from /\ link'[i].to = link[i].to
                                 \/ /\ link[i] = NoLink /\ link'[i].from = n /\ n \in {a, b}
                                    /\ \A k \in Node : end[k][i].sock = "none" /\ end[k][i].wire = <<>>
<1>1. link[i] = NoLink => \A k \in Node : end[k][i].sock = "none" /\ end[k][i].wire = <<>>
  BY NodeAssumption DEF IInv, Linked, Tried, NoLink, MInv
<1>2. link[i] # NoLink => link'[i].from = link[i].from /\ link'[i].to = link[i].to
  BY DEF Moves
<1>3. Between(i, a, b) => link[i] # NoLink
  BY NodeAssumption DEF Between, NoLink
<1>4. link'[i] = link[i] \/ link'[i].from = n
  BY DEF Moves
<1> QED BY <1>1, <1>2, <1>3, <1>4 DEF Between

\* what k has written to m and is not read is still on the connection k uses
LEMMA StillUses ==
  ASSUME NEW n \in Node, IInv, MInv, Moves(n), NEW k \in Node, NEW m \in Node, k # m,
         UsesOnly(k, m), mgr[k].table[m] = None \/ mgr'[k].table[m] = mgr[k].table[m]
  PROVE  UsesOnly(k, m)'
<1> SUFFICES ASSUME NEW i \in Conn, Between(i, k, m)', end'[k][i].wire # <<>>
             PROVE  mgr'[k].table[m] = i
  BY DEF UsesOnly
<1>1. \/ Between(i, k, m)
      \/ \A l \in Node : end[l][i].wire = <<>>
  BY SameBetween
<1>2. CASE k # n
  <2>1. end[k][i].wire # <<>>
    BY <1>2 DEF Moves
  <2>2. mgr[k].table[m] = i
    BY <1>1, <2>1 DEF UsesOnly
  <2> QED BY <2>2, ConnAssumption
<1>3. CASE k = n
  <2>1. CASE end[k][i].wire # <<>>
    <3>1. mgr[k].table[m] = i
      BY <1>1, <2>1 DEF UsesOnly
    <3> QED BY <3>1, ConnAssumption
  <2>2. CASE end[k][i].wire = <<>>
    <3>1. PICK l \in Node : Between(i, k, l) /\ mgr'[k].table[l] = i
      BY <1>3, <2>2 DEF Moves
    <3>2. link[i] # NoLink
      BY <3>1, NodeAssumption DEF Between, NoLink
    <3>3. link'[i].from = link[i].from /\ link'[i].to = link[i].to
      BY <3>2 DEF Moves
    <3>4. l = m
      BY <3>1, <3>3 DEF Between
    <3> QED BY <3>1, <3>4
  <2> QED BY <2>1, <2>2
<1> QED BY <1>2, <1>3

\* a connection that is made stays made
LEMMA StaysMade ==
  ASSUME NEW n \in Node, Moves(n), NEW i \in Conn, link[i].made
  PROVE  link'[i].made /\ link'[i].from = link[i].from /\ link'[i].to = link[i].to
BY DEF Moves, NoLink

-----------------------------------------------------------------------------
(* Two nodes and a step that is not about a connection between them.       *)

LEMMA NotTheirs ==
  ASSUME NEW n \in Node, NEW a \in Node, NEW b \in Node, a # b, IInv, MInv, SInv, Moves(n),
         Healthy(a, b), Pair(a, b),
         \A i \in Conn : Between(i, a, b)' => Between(i, a, b) /\ link'[i] = link[i],
         \A i \in Conn : Between(i, a, b) => SameAt(a, i) /\ SameAt(b, i),
         mgr'[a].table[b] = mgr[a].table[b], mgr'[b].table[a] = mgr[b].table[a]
  PROVE  Pair(a, b)'
<1>1. UsesOnly(a, b)'
  BY StillUses DEF Pair
<1>2. Unanswered(a, b)' /\ Unanswered(b, a)'
  BY DEF Pair, Unanswered, Between, SameAt
<1>3. Shaped(a) /\ Shaped(b) /\ Running(a) /\ Running(b)
  BY DEF SInv, Healthy, Refuses
<1>4. mgr'[a].table[b] # None => Chosen(a, b)'
  <2> SUFFICES ASSUME mgr[a].table[b] # None
               PROVE  Chosen(a, b)'
    OBVIOUS
  <2>1. Chosen(a, b)
    BY DEF Pair
  <2>2. mgr[a].table[b] \in Conn /\ Between(mgr[a].table[b], a, b)
    BY <1>3, TableLeads
  <2> QED BY <2>1, <2>2, StaysMade DEF Chosen, SameAt
<1>5. ASSUME mgr'[a].table[b] = None
      PROVE  Undecided(a, b)'
  <2>1. Undecided(a, b)
    BY <1>5 DEF Pair
  <2>2. UsesOnly(b, a)'
    BY <2>1, StillUses DEF Undecided
  <2>3. \A i \in Conn : Between(i, a, b)' /\ link'[i].made => link'[i].from = b /\ mgr'[b].table[a] # None
    BY <2>1 DEF Undecided
  <2>4. mgr[b].table[a] # None => mgr[b].table[a] \in Conn /\ Between(mgr[b].table[a], b, a)
    BY <1>3, TableLeads
  <2> QED BY <2>1, <2>2, <2>3, <2>4, StaysMade DEF Undecided, SameAt, Between
<1> QED BY <1>1, <1>2, <1>4, <1>5 DEF Pair

\* a step of neither
LEMMA OthersKeep ==
  ASSUME NEW n \in Node, NEW a \in Node, NEW b \in Node, n \notin {a, b}, a # b,
         IInv, MInv, SInv, Moves(n), Healthy(a, b), Pair(a, b)
  PROVE  Pair(a, b)'
<1>1. \A i \in Conn : Between(i, a, b)' => Between(i, a, b) /\ link'[i] = link[i]
  <2> SUFFICES ASSUME NEW i \in Conn, Between(i, a, b)'
               PROVE  Between(i, a, b) /\ link'[i] = link[i]
    OBVIOUS
  <2>1. link'[i].from # n
    BY DEF Between
  <2> QED BY <2>1 DEF Moves, Between
<1>2. /\ mgr'[a].table[b] = mgr[a].table[b] /\ mgr'[b].table[a] = mgr[b].table[a]
      /\ \A i \in Conn : SameAt(a, i) /\ SameAt(b, i)
  BY DEF Moves, SameTable
<1> QED BY <1>1, <1>2, NotTheirs

\* a step of one of them on a connection i to a third
LEMMA ElsewhereKeeps ==
  ASSUME NEW n \in Node, NEW m \in Node, NEW i \in Conn, NEW A, n # m,
         IInv, MInv, SInv, Moves(n), Healthy(n, m), mgr'[n].table[m] = mgr[n].table[m],
         SameBut(n, A), \A j \in A : j \in Conn => ~Between(j, n, m),
         \A j \in Conn \ {i} : link'[j] = link[j], ~Between(i, n, m)'
  PROVE  /\ Pair(n, m) => Pair(n, m)'
         /\ Pair(m, n) => Pair(m, n)'
<1>1. \A j \in Conn : Between(j, n, m)' => Between(j, n, m) /\ link'[j] = link[j]
  BY DEF Between
<1>2. \A j \in Conn : Between(j, n, m) => SameAt(n, j) /\ SameAt(m, j)
  BY DEF Moves, SameBut
<1>3. mgr'[m].table[n] = mgr[m].table[n]
  BY DEF Moves, SameTable
<1>4. \A j \in Conn : Between(j, m, n) <=> Between(j, n, m)
  BY DEF Between
<1>5. \A j \in Conn : Between(j, m, n)' <=> Between(j, n, m)'
  BY DEF Between
<1>6. Healthy(m, n)
  BY DEF Healthy
<1>7. Pair(n, m) => Pair(n, m)'
  BY <1>1, <1>2, <1>3, NotTheirs
<1>8. Pair(m, n) => Pair(m, n)'
  BY <1>1, <1>2, <1>3, <1>4, <1>5, <1>6, NotTheirs
<1> QED BY <1>7, <1>8

-----------------------------------------------------------------------------
(* Two nodes and a step of one of them on a connection between them.       *)

\* what is known of the connections that two healthy nodes use
LEMMA TwoTables ==
  ASSUME NEW a \in Node, NEW b \in Node, IInv, SInv, Healthy(a, b)
  PROVE  /\ Running(a) /\ Running(b) /\ Shaped(a) /\ Shaped(b)
         /\ mgr[a].table[b] # None =>
              /\ mgr[a].table[b] \in Conn /\ Between(mgr[a].table[b], a, b) /\ a # b
              /\ end[a][mgr[a].table[b]].sock = "open" /\ end[a][mgr[a].table[b]].mapped = b
         /\ mgr[b].table[a] # None =>
              /\ mgr[b].table[a] \in Conn /\ Between(mgr[b].table[a], a, b)
              /\ end[b][mgr[b].table[a]].sock = "open" /\ end[b][mgr[b].table[a]].mapped = a
<1>1. Running(a) /\ Running(b) /\ Shaped(a) /\ Shaped(b)
  BY DEF SInv, Healthy, Refuses
<1> QED BY <1>1, TableLeads DEF Between

LEMMA OpensKeeps ==
  ASSUME NEW n \in Node, NEW a \in Node, NEW b \in Node, NEW i \in Conn, a # b, n \in {a, b},
         IInv, MInv, SInv, Moves(n), Healthy(a, b), Pair(a, b), Opens(n, i)
  PROVE  Pair(a, b)'
<1>1. ~Between(i, a, b) /\ ~link[i].made
  BY NodeAssumption DEF Opens, NoLink, Between
<1>2. /\ mgr'[a].table[b] = mgr[a].table[b] /\ mgr'[b].table[a] = mgr[b].table[a]
      /\ \A j \in Conn \ {i} : SameAt(a, j) /\ SameAt(b, j) /\ link'[j] = link[j]
  BY DEF Moves, Opens, SameTable, SameBut
<1>3. \A k \in Node : end[k][i].sock = "none"
  BY NodeAssumption DEF Opens, IInv, Linked, Tried, NoLink
<1>4. \A k \in Node \ {n} : end'[k][i].sock = "none"
  BY <1>3 DEF Moves, SameAt
<1>5. UsesOnly(a, b)'
  BY <1>2, StillUses DEF Pair
<1>6. Unanswered(a, b)' /\ Unanswered(b, a)'
  <2>1. \A k \in {a, b}, m \in {a, b}, j \in Conn \ {i} :
          k # m /\ link'[j].from = k /\ link'[j].to = m /\ end'[k][j].sock = "connecting" =>
            end'[m][j].sock = "none" \/ (end'[m][j].sock = "open" /\ end'[m][j].mapped = Temporary)
    BY <1>2 DEF Pair, Unanswered, SameAt
  <2> QED BY <2>1, <1>4 DEF Opens, Unanswered
<1>7. mgr'[a].table[b] # None => Chosen(a, b)'
  BY <1>1, <1>2, TwoTables DEF Pair, Chosen, SameAt
<1>8. mgr'[a].table[b] = None => Undecided(a, b)'
  <2>1. SUFFICES ASSUME mgr[a].table[b] = None
                 PROVE  Undecided(a, b)'
    BY <1>2
  <2>2. Undecided(a, b)
    BY <2>1 DEF Pair
  <2>3. UsesOnly(b, a)'
    BY <2>2, <1>2, StillUses DEF Undecided
  <2>4. \A j \in Conn : Between(j, a, b)' /\ link'[j].made => link'[j].from = b /\ mgr'[b].table[a] # None
    BY <2>2, <1>2 DEF Undecided, Opens, Between
  <2> QED BY <2>2, <2>3, <2>4, <1>1, <1>2, TwoTables DEF Undecided, SameAt
<1> QED BY <1>5, <1>6, <1>7, <1>8 DEF Pair

\* a's connection to b is made: a chooses it, or has chosen already
LEMMA FirstMakes ==
  ASSUME NEW a \in Node, NEW b \in Node, NEW i \in Conn, a # b,
         IInv, MInv, SInv, Moves(a), Healthy(a, b), Pair(a, b), Makes(a, i), end[a][i].mapped = b
  PROVE  Pair(a, b)'
<1>1. /\ link[i].from = a /\ link[i].to = b /\ link'[i].from = a /\ link'[i].to = b
  BY TwoTables, ConnectingLeads, NodeAssumption DEF Makes, Moves, NoLink
<1>2. /\ \A j \in Conn \ {i} : SameAt(a, j) /\ link'[j] = link[j]
      /\ \A j \in Conn : SameAt(b, j)
      /\ mgr'[b].table[a] = mgr[b].table[a]
  BY DEF Moves, Makes, SameTable, SameBut
<1>3. end[b][i].sock \in {"none", "open"}
  BY <1>1 DEF Makes, Pair, Unanswered
<1>4. Unanswered(a, b)' /\ Unanswered(b, a)'
  BY <1>1, <1>2 DEF Pair, Unanswered, SameAt, Makes
<1>5. CASE mgr[a].table[b] = None
  <2>1. mgr'[a].table[b] = i /\ end'[a][i].sock = "open" /\ link'[i].made
    BY <1>5 DEF Makes, Chooses
  <2>2. UsesOnly(a, b)'
    BY <1>5, StillUses DEF Pair
  <2>3. Chosen(a, b)'
    BY <2>1, <1>1, <1>2, <1>3 DEF Chosen, SameAt
  <2> QED BY <2>1, <2>2, <2>3, <1>4, ConnAssumption DEF Pair
<1>6. CASE mgr[a].table[b] # None
  <2>1. mgr'[a].table[b] = mgr[a].table[b]
    BY <1>6 DEF Makes, SameTable
  <2>2. UsesOnly(a, b)'
    BY <2>1, StillUses DEF Pair
  <2>3. mgr[a].table[b] \in Conn \ {i}
    BY <1>6, TwoTables DEF Makes
  <2>4. Chosen(a, b)'
    BY <1>6, <2>1, <2>3, <1>2 DEF Pair, Chosen, SameAt
  <2> QED BY <1>6, <2>1, <2>2, <2>4, <1>4 DEF Pair
<1> QED BY <1>5, <1>6

\* b's connection to a is made: b uses it, or one that is made already
LEMMA SecondMakes ==
  ASSUME NEW a \in Node, NEW b \in Node, NEW i \in Conn, a # b,
         IInv, MInv, SInv, Moves(b), Healthy(a, b), Pair(a, b), Makes(b, i), end[b][i].mapped = a
  PROVE  Pair(a, b)'
<1>1. /\ link[i].from = b /\ link[i].to = a /\ link'[i].from = b /\ link'[i].to = a
  BY TwoTables, ConnectingLeads, NodeAssumption DEF Makes, Moves, NoLink
<1>2. /\ \A j \in Conn \ {i} : SameAt(b, j) /\ link'[j] = link[j]
      /\ \A j \in Conn : SameAt(a, j)
      /\ mgr'[a].table[b] = mgr[a].table[b]
  BY DEF Moves, Makes, SameTable, SameBut
<1>3. end[a][i].sock \in {"none", "open"}
  BY <1>1 DEF Makes, Pair, Unanswered
<1>4. Unanswered(a, b)' /\ Unanswered(b, a)'
  BY <1>1, <1>2 DEF Pair, Unanswered, SameAt, Makes
<1>5. UsesOnly(a, b)'
  BY <1>2, StillUses DEF Pair
<1>6. mgr'[a].table[b] # None => Chosen(a, b)'
  <2>1. mgr[a].table[b] # None => mgr[a].table[b] # i
    BY <1>1, TwoTables DEF Pair, Chosen, Makes
  <2> QED BY <2>1, <1>1, <1>2, TwoTables DEF Pair, Chosen, SameAt
<1>7. ASSUME mgr[a].table[b] = None
      PROVE  Undecided(a, b)'
  <2>1. Undecided(a, b)
    BY <1>7 DEF Pair
  <2>2. mgr'[b].table[a] = IF mgr[b].table[a] = None THEN i ELSE mgr[b].table[a]
    BY DEF Makes, Chooses, SameTable
  <2>3. UsesOnly(b, a)'
    BY <2>1, <2>2, StillUses DEF Undecided
  <2>4. mgr'[b].table[a] # None
    BY <2>2, ConnAssumption
  <2>5. \A j \in Conn : Between(j, a, b)' /\ link'[j].made => link'[j].from = b
    BY <2>1, <1>1, <1>2 DEF Undecided, Between
  <2>6. /\ link'[mgr'[b].table[a]].made /\ link'[mgr'[b].table[a]].from = b
        /\ end'[a][mgr'[b].table[a]].sock \in {"none", "open"}
    <3>1. CASE mgr[b].table[a] = None
      BY <3>1, <2>2, <1>1, <1>2, <1>3 DEF Makes, SameAt
    <3>2. CASE mgr[b].table[a] # None
      BY <3>2, <2>1, <2>2, <1>2, TwoTables DEF Undecided, SameAt, Makes
    <3> QED BY <3>1, <3>2
  <2> QED BY <2>3, <2>4, <2>5, <2>6 DEF Undecided
<1> QED BY <1>2, <1>4, <1>5, <1>6, <1>7 DEF Pair

\* one of them accepts a connection of the other
LEMMA AdmitsKeeps ==
  ASSUME NEW n \in Node, NEW a \in Node, NEW b \in Node, NEW i \in Conn, a # b, n \in {a, b},
         IInv, MInv, SInv, Moves(n), Healthy(a, b), Pair(a, b), Admits(n, i)
  PROVE  Pair(a, b)'
<1>1. /\ mgr'[a].table[b] = mgr[a].table[b] /\ mgr'[b].table[a] = mgr[b].table[a]
      /\ \A j \in Conn \ {i} : SameAt(a, j) /\ SameAt(b, j)
      /\ \A k \in {a, b} \ {n} : SameAt(k, i)
      /\ \A j \in Conn : link'[j] = link[j]
  BY DEF Moves, Admits, SameTable, SameBut, SameLinks
<1>2. UsesOnly(a, b)'
  BY <1>1, StillUses DEF Pair
<1>3. Unanswered(a, b)' /\ Unanswered(b, a)'
  <2>1. ASSUME NEW k \in {a, b}, NEW m \in {a, b} \ {k}, NEW j \in Conn,
               link'[j].from = k, link'[j].to = m, end'[k][j].sock = "connecting"
        PROVE  end'[m][j].sock = "none" \/ (end'[m][j].sock = "open" /\ end'[m][j].mapped = Temporary)
    <3>1. CASE m = n /\ j = i
      BY <3>1 DEF Admits
    <3>2. CASE ~(m = n /\ j = i)
      <4>1. SameAt(m, j)
        BY <3>2, <1>1
      <4>2. SameAt(k, j)
        BY <2>1, <1>1 DEF Admits, SameAt
      <4> QED BY <2>1, <4>1, <4>2, <1>1 DEF Pair, Unanswered, SameAt
    <3> QED BY <3>1, <3>2
  <2> QED BY <2>1 DEF Unanswered
<1>4. mgr'[a].table[b] # None => Chosen(a, b)'
  <2>1. end'[b][i].sock \in {end[b][i].sock, "open"}
    BY <1>1 DEF Admits, SameAt
  <2> QED BY <2>1, <1>1, TwoTables DEF Pair, Chosen, SameAt
<1>5. ASSUME mgr[a].table[b] = None
      PROVE  Undecided(a, b)'
  <2>1. Undecided(a, b)
    BY <1>5 DEF Pair
  <2>2. UsesOnly(b, a)'
    BY <2>1, <1>1, StillUses DEF Undecided
  <2>3. \A j \in Conn : Between(j, a, b)' /\ link'[j].made => link'[j].from = b /\ mgr'[b].table[a] # None
    BY <2>1, <1>1 DEF Undecided, Between
  <2>4. end'[a][i].sock \in {end[a][i].sock, "open"}
    BY <1>1 DEF Admits, SameAt
  <2> QED BY <2>1, <2>2, <2>3, <2>4, <1>1, TwoTables DEF Undecided, SameAt
<1> QED BY <1>1, <1>2, <1>3, <1>4, <1>5 DEF Pair

\* without a failure n gives up only what the other has closed, or what it has closed itself
LEMMA QuitsClosed ==
  ASSUME NEW n \in Node, NEW m \in Node, NEW i \in Conn, n # m, IInv, SInv, Moves(n),
         Healthy(n, m), Healthy(n, m)', Between(i, n, m), Quits(n, i)
  PROVE  \/ end[n][i].sock = "aborted"
         \/ end[n][i].sock = "open" /\ end[m][i].sock \in {"closed", "aborted"}
<1>1. Peer(n, i) = m
  BY DEF Between, Peer
<1>2. faults' = 0 /\ ~Refuses(m)
  BY DEF Healthy
<1>3. end[n][i].sock = "connecting" => end[n][i].mapped = m
  BY <1>1, ConnectingLeads, TwoTables DEF Between
<1> QED BY <1>1, <1>2, <1>3 DEF Quits

LEMMA FirstQuits ==
  ASSUME NEW a \in Node, NEW b \in Node, NEW i \in Conn, a # b, Between(i, a, b),
         IInv, MInv, SInv, Moves(a), Healthy(a, b), Healthy(a, b)', Pair(a, b), Quits(a, i)
  PROVE  Pair(a, b)'
<1>1. \/ end[a][i].sock = "aborted"
      \/ end[a][i].sock = "open" /\ end[b][i].sock \in {"closed", "aborted"}
  BY QuitsClosed
<1>2. mgr[a].table[b] # i
  BY <1>1, TwoTables, ConnAssumption DEF Pair, Chosen
<1>3. mgr'[a].table[b] = mgr[a].table[b]
  <2>1. CASE SameTable(a)
    BY <2>1 DEF SameTable
  <2>2. CASE /\ end[a][i].mapped \in Node /\ mgr[a].table[end[a][i].mapped] = i
             /\ Chooses(a, end[a][i].mapped, None)
    BY <2>2, <1>2 DEF Chooses
  <2> QED BY <2>1, <2>2 DEF Quits
<1>4. /\ mgr'[b].table[a] = mgr[b].table[a]
      /\ \A j \in Conn \ {i} : SameAt(a, j)
      /\ \A j \in Conn : SameAt(b, j) /\ link'[j] = link[j]
      /\ end'[a][i].sock = "closed"
  BY DEF Moves, Quits, SameTable, SameBut, SameLinks
<1>5. UsesOnly(a, b)'
  BY <1>3, StillUses DEF Pair
<1>6. Unanswered(a, b)' /\ Unanswered(b, a)'
  <2>1. link[i].from = b => end[b][i].sock # "connecting"
    BY <1>1 DEF Pair, Unanswered, Between
  <2> QED BY <2>1, <1>4 DEF Pair, Unanswered, SameAt
<1>7. mgr'[a].table[b] # None => Chosen(a, b)'
  BY <1>3, <1>4, TwoTables DEF Pair, Chosen, SameAt
<1>8. ASSUME mgr[a].table[b] = None
      PROVE  Undecided(a, b)'
  <2>1. Undecided(a, b)
    BY <1>8 DEF Pair
  <2>2. UsesOnly(b, a)'
    BY <2>1, <1>4, StillUses DEF Undecided
  <2>3. \A j \in Conn : Between(j, a, b)' /\ link'[j].made => link'[j].from = b /\ mgr'[b].table[a] # None
    BY <2>1, <1>4 DEF Undecided, Between
  <2>4. mgr[b].table[a] # i
    BY <2>1, <1>1, TwoTables, ConnAssumption DEF Undecided
  <2> QED BY <2>1, <2>2, <2>3, <2>4, <1>4, TwoTables DEF Undecided, SameAt
<1> QED BY <1>3, <1>5, <1>6, <1>7, <1>8 DEF Pair

LEMMA SecondQuits ==
  ASSUME NEW a \in Node, NEW b \in Node, NEW i \in Conn, a # b, Between(i, a, b),
         IInv, MInv, SInv, Moves(b), Healthy(a, b), Healthy(a, b)', Pair(a, b), Quits(b, i)
  PROVE  Pair(a, b)'
<1>1. \/ end[b][i].sock = "aborted"
      \/ end[b][i].sock = "open" /\ end[a][i].sock \in {"closed", "aborted"}
  BY QuitsClosed DEF Healthy, Between
<1>2. mgr[a].table[b] # i
  BY <1>1, TwoTables, ConnAssumption DEF Pair, Chosen
<1>3. mgr[a].table[b] = None => mgr[b].table[a] # i
  BY <1>1, TwoTables, ConnAssumption DEF Pair, Undecided
<1>4. mgr[b].table[a] # i => mgr'[b].table[a] = mgr[b].table[a]
  <2>1. CASE SameTable(b)
    BY <2>1 DEF SameTable
  <2>2. CASE /\ end[b][i].mapped \in Node /\ mgr[b].table[end[b][i].mapped] = i
             /\ Chooses(b, end[b][i].mapped, None)
    BY <2>2 DEF Chooses
  <2> QED BY <2>1, <2>2 DEF Quits
<1>5. /\ mgr'[a].table[b] = mgr[a].table[b]
      /\ \A j \in Conn \ {i} : SameAt(b, j)
      /\ \A j \in Conn : SameAt(a, j) /\ link'[j] = link[j]
      /\ end'[b][i].sock = "closed"
  BY DEF Moves, Quits, SameTable, SameBut, SameLinks
<1>6. UsesOnly(a, b)'
  BY <1>5, StillUses DEF Pair
<1>7. Unanswered(a, b)' /\ Unanswered(b, a)'
  <2>1. link[i].from = a => end[a][i].sock # "connecting"
    BY <1>1 DEF Pair, Unanswered, Between
  <2> QED BY <2>1, <1>5 DEF Pair, Unanswered, SameAt
<1>8. mgr'[a].table[b] # None => Chosen(a, b)'
  BY <1>2, <1>5, TwoTables DEF Pair, Chosen, SameAt
<1>9. ASSUME mgr[a].table[b] = None
      PROVE  Undecided(a, b)'
  <2>1. Undecided(a, b) /\ mgr'[b].table[a] = mgr[b].table[a]
    BY <1>9, <1>3, <1>4 DEF Pair
  <2>2. UsesOnly(b, a)'
    BY <2>1, StillUses DEF Undecided
  <2>3. \A j \in Conn : Between(j, a, b)' /\ link'[j].made => link'[j].from = b /\ mgr'[b].table[a] # None
    BY <2>1, <1>5 DEF Undecided, Between
  <2> QED BY <2>1, <2>2, <2>3, <1>5, TwoTables DEF Undecided, SameAt
<1> QED BY <1>5, <1>6, <1>7, <1>8, <1>9 DEF Pair

\* a reads from b: the connection b has chosen, if a has chosen none
LEMMA FirstLearns ==
  ASSUME NEW a \in Node, NEW b \in Node, NEW i \in Conn, a < b, Peer(a, i) = b,
         IInv, MInv, SInv, Moves(a), Healthy(a, b), Pair(a, b), Learns(a, i)
  PROVE  Pair(a, b)'
<1>1. a # b /\ ~(b < a)
  BY NodeAssumption
<1>2. link[i].from = b /\ link[i].to = a
  <2>1. Shaped(a) /\ end[a][i].sock = "open" /\ end[a][i].mapped = Temporary
    BY TwoTables DEF Learns
  <2> QED BY <2>1, <1>1 DEF Shaped, Peer
<1>3. /\ mgr'[b].table[a] = mgr[b].table[a]
      /\ \A j \in Conn \ {i} : SameAt(a, j)
      /\ \A j \in Conn : SameAt(b, j) /\ link'[j] = link[j]
  BY <1>1 DEF Moves, Learns, SameTable, SameBut, SameLinks
<1>4. end[b][i].sock # "connecting"
  <2>1. Shaped(b) /\ end[b][i].wire # <<>>
    BY TwoTables DEF Learns
  <2> QED BY <2>1 DEF Shaped
<1>5. Unanswered(a, b)' /\ Unanswered(b, a)'
  BY <1>2, <1>3, <1>4 DEF Pair, Unanswered, SameAt
<1>6. CASE mgr[a].table[b] = None
  <2>1. mgr[b].table[a] = i /\ link[i].made
    BY <1>2, <1>6, ConnAssumption DEF Learns, Pair, Undecided, UsesOnly, Between
  <2>2. mgr'[a].table[b] = i
    BY <1>6 DEF Learns, Chooses
  <2>3. end'[b][i].sock = "open"
    BY <2>1, <1>3, TwoTables, ConnAssumption DEF SameAt
  <2>4. Chosen(a, b)'
    BY <2>1, <2>2, <2>3, <1>3 DEF Chosen
  <2>5. UsesOnly(a, b)'
    BY <1>1, <1>6, StillUses DEF Pair
  <2> QED BY <2>2, <2>4, <2>5, <1>5, ConnAssumption DEF Pair
<1>7. CASE mgr[a].table[b] # None
  <2>1. mgr'[a].table[b] = mgr[a].table[b]
    BY <1>1, <1>7 DEF Learns, SameTable
  <2>2. Chosen(a, b)'
    BY <2>1, <1>3, <1>7, TwoTables DEF Pair, Chosen, SameAt
  <2>3. UsesOnly(a, b)'
    BY <2>1, <1>1, StillUses DEF Pair
  <2> QED BY <2>1, <2>2, <2>3, <1>5, <1>7 DEF Pair
<1> QED BY <1>6, <1>7

\* b reads from a: the connection a has chosen
LEMMA SecondLearns ==
  ASSUME NEW a \in Node, NEW b \in Node, NEW i \in Conn, a < b, Peer(b, i) = a,
         IInv, MInv, SInv, Moves(b), Healthy(a, b), Pair(a, b), Learns(b, i)
  PROVE  Pair(a, b)'
<1> DEFINE old == mgr[b].table[a]
<1>1. a # b
  BY NodeAssumption
<1>2. link[i].from = a /\ link[i].to = b
  <2>1. Shaped(b) /\ end[b][i].sock = "open" /\ end[b][i].mapped = Temporary
    BY TwoTables DEF Learns
  <2> QED BY <2>1, <1>1 DEF Shaped, Peer
<1>3. /\ mgr'[a].table[b] = mgr[a].table[b]
      /\ \A j \in Conn : SameAt(a, j) /\ link'[j] = link[j]
      /\ \A j \in Conn \ {i, old} : SameAt(b, j)
      /\ end'[b][i].sock = "open"
      /\ old = None \/ end'[b][old].sock = "closed"
  BY <1>1 DEF Moves, Learns, SameTable, SameBut, SameLinks
<1>4. mgr[a].table[b] = i
  BY <1>2 DEF Learns, Pair, UsesOnly, Between
<1>5. Chosen(a, b) /\ Chosen(a, b)'
  BY <1>3, <1>4, ConnAssumption DEF Pair, Chosen
<1>6. UsesOnly(a, b)'
  BY <1>1, <1>3, StillUses DEF Pair
<1>7. Unanswered(a, b)'
  <2> SUFFICES ASSUME NEW j \in Conn, link[j].from = a, link[j].to = b, end[a][j].sock = "connecting"
               PROVE  end'[b][j].sock = "none" \/ (end'[b][j].sock = "open" /\ end'[b][j].mapped = Temporary)
    BY <1>3 DEF Unanswered, SameAt
  <2>1. j # i
    BY <1>4, TwoTables, ConnAssumption
  <2>2. end[b][j].sock = "none" \/ (end[b][j].sock = "open" /\ end[b][j].mapped = Temporary)
    BY DEF Pair, Unanswered
  <2>3. j # old
    BY <2>2, TwoTables, ConnAssumption, NodeAssumption
  <2> QED BY <2>1, <2>2, <2>3, <1>3 DEF SameAt
<1>8. Unanswered(b, a)'
  BY <1>2, <1>3, ConnAssumption DEF Pair, Unanswered, SameAt
<1> QED BY <1>3, <1>4, <1>5, <1>6, <1>7, <1>8, ConnAssumption DEF Pair

-----------------------------------------------------------------------------
(* All steps.                                                              *)

Does(n) ==
  \/ Stays(n) \/ Halts(n)
  \/ \E i \in Conn : Opens(n, i) \/ Makes(n, i) \/ Admits(n, i) \/ Quits(n, i) \/ Learns(n, i)

LEMMA TriedIsNew == \A i \in Conn : Tried(i) => link[i] # NoLink
<1>1. NoLink.from = Temporary /\ Temporary \notin Node
  BY NodeAssumption DEF NoLink
<1> QED BY <1>1 DEF Tried

LEMMA JoinedKeeps ==
  ASSUME NEW n \in Node, IInv, SInv, Moves(n), Does(n)
  PROVE  Joined'
<1> SUFFICES ASSUME NEW i \in Conn, link'[i].made
             PROVE  Tried(i)' /\ link'[i].from # link'[i].to
  BY DEF Joined
<1>1. link'[i] = link[i] \/ end[n][i].sock = "connecting"
  BY DEF Does, Stays, Halts, Opens, Makes, Admits, Quits, Learns, SameLinks
<1>2. CASE link'[i] = link[i]
  BY <1>2 DEF SInv, Joined, Tried
<1>3. CASE end[n][i].sock = "connecting"
  <2>1. Tried(i) /\ link[i].from # link[i].to
    BY <1>3 DEF IInv, Linked, SInv, Shaped
  <2>2. link'[i].from = link[i].from /\ link'[i].to = link[i].to
    BY <2>1, TriedIsNew DEF Moves
  <2> QED BY <2>1, <2>2 DEF Tried
<1> QED BY <1>1, <1>2, <1>3

\* what has an end has a link, which keeps its ends
LEMMA SameEnds ==
  ASSUME NEW n \in Node, NEW k \in Node, NEW i \in Conn, IInv, Moves(n), end[k][i].sock # "none"
  PROVE  link'[i].from = link[i].from /\ link'[i].to = link[i].to /\ Peer(k, i)' = Peer(k, i)
<1>1. link[i] # NoLink
  <2>1. Tried(i)
    BY DEF IInv, Linked
  <2> QED BY <2>1, TriedIsNew
<1>2. link'[i].from = link[i].from /\ link'[i].to = link[i].to
  BY <1>1 DEF Moves
<1> QED BY <1>2 DEF Peer

LEMMA ShapedKeeps ==
  ASSUME NEW n \in Node, NEW k \in Node, IInv, MInv, SInv, Moves(n), Does(n)
  PROVE  Shaped(k)'
<1>1. Shaped(k)
  BY DEF SInv
<1>2. CASE k # n
  <2> SUFFICES ASSUME NEW i \in Conn
               PROVE  /\ end'[k][i].mapped = Temporary => end'[k][i].out = <<>>
                      /\ end'[k][i].sock = "connecting" => link'[i].from = k /\ end'[k][i].wire = <<>>
                      /\ end'[k][i].sock # "none" =>
                           /\ k \in {link'[i].from, link'[i].to} /\ link'[i].from # link'[i].to
                           /\ IF end'[k][i].mapped = Temporary THEN link'[i].to = k
                              ELSE end'[k][i].mapped = Peer(k, i)'
    BY DEF Shaped
  <2>1. /\ end'[k][i].sock = end[k][i].sock /\ end'[k][i].mapped = end[k][i].mapped
        /\ end'[k][i].out = end[k][i].out
        /\ end[k][i].wire = <<>> => end'[k][i].wire = <<>>
    BY <1>2 DEF Moves, SameAt
  <2> QED BY <2>1, <1>1, SameEnds DEF Shaped
<1>3. CASE k = n
  <2> SUFFICES ASSUME NEW j \in Conn
               PROVE  /\ end'[n][j].sock = "connecting" => link'[j].from = n
                      /\ end'[n][j].sock # "none" =>
                           /\ n \in {link'[j].from, link'[j].to} /\ link'[j].from # link'[j].to
                           /\ IF end'[n][j].mapped = Temporary THEN link'[j].to = n
                              ELSE end'[n][j].mapped = Peer(n, j)'
    BY <1>3 DEF Shaped, Moves
  <2>1. ASSUME end'[n][j].mapped = end[n][j].mapped, end[n][j].sock # "none",
               end'[n][j].sock = "connecting" => end[n][j].sock = "connecting"
        PROVE  /\ end'[n][j].sock = "connecting" => link'[j].from = n
               /\ n \in {link'[j].from, link'[j].to} /\ link'[j].from # link'[j].to
               /\ IF end'[n][j].mapped = Temporary THEN link'[j].to = n
                  ELSE end'[n][j].mapped = Peer(n, j)'
    BY <2>1, <1>1, <1>3, SameEnds DEF Shaped
  <2>2. CASE SameAt(n, j)
    BY <2>1, <2>2 DEF SameAt
  <2>3. CASE Halts(n)
    BY <2>1, <2>3 DEF Halts
  <2>4. CASE Opens(n, j)
    BY <2>4, NodeAssumption DEF Opens, Peer
  <2>5. CASE Makes(n, j)
    BY <2>1, <2>5 DEF Makes
  <2>6. CASE Admits(n, j)
    BY <2>6 DEF Admits, SameLinks
  <2>7. CASE Quits(n, j)
    BY <2>1, <2>7 DEF Quits
  <2>8. CASE \E i \in Conn : Learns(n, i)
    <3>1. PICK i \in Conn : Learns(n, i)
      BY <2>8
    <3> DEFINE p == Peer(n, i)  old == mgr[n].table[p]
    <3>2. p \in Node /\ p # Temporary /\ end[n][i].sock = "open" /\ end[n][i].mapped = Temporary
      BY <3>1, NodeAssumption DEF Learns
    <3>3. old # None => old \in Conn /\ end[n][old].sock = "open" /\ old # i
      <4>1. Shaped(n) /\ Running(n)
        BY <1>1, <1>3 DEF Moves
      <4>2. \A m \in Node : mgr[n].table[m] # None =>
              /\ mgr[n].table[m] \in Conn /\ end[n][mgr[n].table[m]].sock = "open"
              /\ end[n][mgr[n].table[m]].mapped = m
        BY <4>1, TableLeads
      <4> QED BY <4>2, <3>2
    <3>4. CASE j = i
      <4>1. CASE end'[n][i].mapped = p /\ end'[n][i].sock = "open"
        BY <4>1, <3>2, <3>4, <1>1, <1>3, SameEnds DEF Shaped
      <4>2. CASE end'[n][i].mapped = Temporary /\ end'[n][i].sock = "closed"
        BY <4>2, <3>2, <3>4, <2>1
      <4> QED BY <4>1, <4>2, <3>1 DEF Learns
    <3>5. CASE j = old /\ j # i
      <4>1. SameAt(n, j) \/ (end'[n][j].mapped = end[n][j].mapped /\ end'[n][j].sock = "closed")
        BY <3>1, <3>5 DEF Learns, SameBut
      <4> QED BY <4>1, <3>3, <3>5, <2>1, <2>2, ConnAssumption
    <3>6. CASE j \notin {i, old}
      <4>1. SameAt(n, j)
        BY <3>1, <3>6 DEF Learns, SameBut
      <4> QED BY <4>1, <2>2
    <3> QED BY <3>4, <3>5, <3>6
  <2>9. \/ SameAt(n, j) \/ Halts(n) \/ Opens(n, j) \/ Makes(n, j) \/ Admits(n, j) \/ Quits(n, j)
        \/ \E i \in Conn : Learns(n, i)
    BY DEF Does, Stays, Opens, Makes, Admits, Quits, SameBut
  <2> QED BY <2>2, <2>3, <2>4, <2>5, <2>6, <2>7, <2>8, <2>9
<1> QED BY <1>2, <1>3

\* two nodes, one of which acts: k is the other one
LEMMA TheirsKeeps ==
  ASSUME NEW n \in Node, NEW k \in Node, NEW a \in Node, NEW b \in Node, a < b,
         (n = a /\ k = b) \/ (n = b /\ k = a),
         IInv, MInv, SInv, Moves(n), Healthy(a, b), Healthy(a, b)', Pair(a, b), Does(n)
  PROVE  Pair(a, b)'
<1>1. a # b /\ n # k /\ n \in {a, b} /\ Shaped(n) /\ Running(n) /\ Healthy(n, k)
  BY NodeAssumption DEF SInv, Moves, Healthy
<1>2. \A i : Between(i, n, k) <=> Between(i, a, b)
  BY DEF Between
<1>3. ASSUME NEW i \in Conn, NEW A, mgr'[n].table[k] = mgr[n].table[k], SameBut(n, A),
             \A j \in A : j \in Conn => ~Between(j, n, k),
             \A j \in Conn \ {i} : link'[j] = link[j], ~Between(i, n, k)'
      PROVE  Pair(a, b)'
  BY <1>1, <1>3, ElsewhereKeeps
<1>4. CASE Stays(n)
  <2>1. \A i \in Conn : Between(i, a, b)' => Between(i, a, b) /\ link'[i] = link[i]
    BY <1>4 DEF Stays, SameLinks, Between
  <2>2. \A i \in Conn : SameAt(a, i) /\ SameAt(b, i)
    BY <1>4 DEF Stays, SameBut, Moves
  <2>3. mgr'[a].table[b] = mgr[a].table[b] /\ mgr'[b].table[a] = mgr[b].table[a]
    BY <1>1, <1>4 DEF Stays, SameTable, Moves
  <2> QED BY <1>1, <2>1, <2>2, <2>3, NotTheirs
<1>5. CASE Halts(n)
  BY <1>5 DEF Halts, Healthy
<1>6. ASSUME NEW i \in Conn, Makes(n, i)
      PROVE  Pair(a, b)'
  <2> DEFINE m == end[n][i].mapped
  <2>1. m \in Node \ {n} /\ link[i].from = n /\ link[i].to = m
    BY <1>1, <1>6, ConnectingLeads DEF Makes
  <2>2. CASE m = k
    BY <2>2, <1>1, <1>6, FirstMakes, SecondMakes
  <2>3. CASE m # k
    <3>1. link'[i].from = n /\ link'[i].to = m
      BY <2>1, NodeAssumption DEF Moves, NoLink
    <3>2. ~Between(i, n, k) /\ ~Between(i, n, k)'
      BY <2>1, <2>3, <3>1, <1>1 DEF Between
    <3>3. mgr'[n].table[k] = mgr[n].table[k]
      BY <1>6, <2>3 DEF Makes, Chooses, SameTable
    <3>4. SameBut(n, {i}) /\ \A j \in Conn \ {i} : link'[j] = link[j]
      BY <1>6 DEF Makes
    <3> QED BY <3>2, <3>3, <3>4, <1>3
  <2> QED BY <2>2, <2>3
<1>7. ASSUME NEW i \in Conn, Quits(n, i)
      PROVE  Pair(a, b)'
  <2>1. CASE Between(i, a, b)
    BY <2>1, <1>1, <1>7, FirstQuits, SecondQuits
  <2>2. CASE ~Between(i, a, b)
    <3>1. SameLinks /\ SameBut(n, {i})
      BY <1>7 DEF Quits
    <3>2. ~Between(i, n, k) /\ ~Between(i, n, k)'
      BY <2>2, <3>1, <1>2 DEF Between, SameLinks
    <3>3. mgr[n].table[k] # i
      BY <3>2, <1>1, TableLeads, ConnAssumption
    <3>4. mgr'[n].table[k] = mgr[n].table[k]
      BY <3>3, <1>7 DEF Quits, Chooses, SameTable
    <3>5. \A j \in Conn \ {i} : link'[j] = link[j]
      BY <3>1 DEF SameLinks
    <3> QED BY <3>1, <3>2, <3>4, <3>5, <1>3
  <2> QED BY <2>1, <2>2
<1>8. ASSUME NEW i \in Conn, Learns(n, i)
      PROVE  Pair(a, b)'
  <2> DEFINE p == Peer(n, i)  old == mgr[n].table[p]
  <2>1. CASE p = k
    BY <2>1, <1>1, <1>8, FirstLearns, SecondLearns
  <2>2. CASE p # k
    <3>1. SameLinks /\ p \in Node /\ (SameBut(n, {i}) \/ SameBut(n, {i, old}))
      BY <1>8 DEF Learns
    <3>2. ~Between(i, n, k) /\ ~Between(i, n, k)'
      BY <2>2, <3>1, <1>1, <1>8 DEF Learns, Shaped, Between, Peer, SameLinks
    <3>3. old \in Conn => ~Between(old, n, k)
      <4>1. old \in Conn => Between(old, n, p) /\ n # p
        BY <3>1, <1>1, TableLeads, ConnAssumption
      <4> QED BY <4>1, <2>2, <1>1 DEF Between
    <3>4. mgr'[n].table[k] = mgr[n].table[k]
      BY <2>2, <1>8 DEF Learns, Chooses, SameTable
    <3>5. \A j \in Conn \ {i} : link'[j] = link[j]
      BY <3>1 DEF SameLinks
    <3> HIDE DEF old, p
    <3> QED BY <3>1, <3>2, <3>3, <3>4, <3>5, <1>3
  <2> QED BY <2>1, <2>2
<1> QED BY <1>1, <1>4, <1>5, <1>6, <1>7, <1>8, OpensKeeps, AdmitsKeeps DEF Does

LEMMA MovesKeep ==
  ASSUME NEW n \in Node, IInv, MInv, SInv, Moves(n), Does(n)
  PROVE  SInv'
<1>1. Joined'
  BY JoinedKeeps
<1>2. \A k \in Node : Shaped(k)'
  BY ShapedKeeps
<1>3. ASSUME NEW a \in Node, NEW b \in Node, a < b, Healthy(a, b)'
      PROVE  Pair(a, b)'
  <2>1. Healthy(a, b)
    BY <1>3 DEF Moves
  <2>2. Pair(a, b) /\ a # b
    BY <2>1, <1>3, NodeAssumption DEF SInv
  <2> QED BY <1>3, <2>1, <2>2, OthersKeep, TheirsKeeps
<1> QED BY <1>1, <1>2, <1>3 DEF SInv, Shaped, Joined

-----------------------------------------------------------------------------
(* The actions are such steps.                                             *)

Ages ==
  /\ faults' \in {faults, faults + 1}
  /\ \A k \in Node : Running(k)' => Running(k)
  /\ \A k \in Node : server[k] = "stopped" => server'[k] = "stopped"

LEMMA HealthFades ==
  ASSUME IInv, Ages, NEW a \in Node, NEW b \in Node, Healthy(a, b)'
  PROVE  Healthy(a, b)
<1>1. faults \in Nat
  BY BoundAssumption DEF IInv, TypeOK
<1> QED BY <1>1 DEF Healthy, Refuses, Ages

LinksGrow(n) ==
  /\ \A i \in Conn : link[i] # NoLink =>
       link'[i].from = link[i].from /\ link'[i].to = link[i].to /\ (link[i].made => link'[i].made)
  /\ \A i \in Conn : link'[i] = link[i] \/ link'[i].from = n

\* what n writes is on the connections it uses
Fits(n, t, f) ==
  \A i \in Conn :
    /\ f[i].mapped = Temporary => f[i].out = <<>>
    /\ f[i].sock = "connecting" => f[i].wire = <<>>
    /\ f[i].wire # <<>> => \/ end[n][i].wire # <<>>
                           \/ \E m \in Node : Between(i, n, m) /\ t.table[m] = i

LEMMA BecomesMoves ==
  ASSUME NEW n \in Node, NEW t, NEW f, IInv, Running(n), Becomes(n, t, f), Ages, LinksGrow(n), Fits(n, t, f)
  PROVE  Moves(n) /\ mgr'[n] = t /\ end'[n] = f
<1>1. /\ mgr'[n] = t /\ end'[n] = f
      /\ \A k \in Node \ {n} : mgr'[k] = mgr[k] /\ end'[k] = end[k]
  BY DEF Becomes, IInv, TypeOK
<1>2. \A a, b \in Node : Healthy(a, b)' => Healthy(a, b)
  BY HealthFades
<1> QED BY <1>1, <1>2 DEF Moves, SameAt, SameTable, LinksGrow, Fits

\* n writes nothing, but may close something
LEMMA LessFits ==
  ASSUME NEW n \in Node, NEW t, NEW f, Shaped(n),
         \A i \in Conn : /\ f[i].mapped = end[n][i].mapped /\ f[i].wire = end[n][i].wire
                         /\ f[i].out \in {end[n][i].out, <<>>}
                         /\ f[i].sock = "connecting" => end[n][i].sock = "connecting"
  PROVE  Fits(n, t, f)
BY DEF Fits, Shaped

\* n writes on connection j, which it uses for m
LEMMA FilledFits ==
  ASSUME NEW n \in Node, NEW m \in Node, NEW t, NEW e, NEW g, NEW j \in Conn, Fits(n, t, e),
         SameShape(e, g), \A i \in Conn \ {j} : g[i] = e[i],
         Between(j, n, m), t.table[m] = j, e[j].mapped # Temporary, e[j].sock # "connecting"
  PROVE  Fits(n, t, g)
BY DEF Fits, SameShape

LEMMA AbortMoves ==
  ASSUME NEW n \in Node, NEW reason, reason # "none", IInv, SInv, Running(n), Abort(n, reason),
         UNCHANGED server, faults' \in {faults, faults + 1}, LinksGrow(n),
         \A i \in Conn : link'[i] = link[i] \/ end[n][i].sock = "connecting"
  PROVE  Moves(n) /\ Does(n)
<1>1. broken'[n] = reason /\ \A k \in Node \ {n} : broken'[k] = broken[k]
  BY DEF Abort, IInv, TypeOK
<1>2. \A a, b \in Node : Healthy(a, b)' => Healthy(a, b)
  BY <1>1, HealthFades DEF Ages, Running
<1>3. Shaped(n) /\ UNCHANGED <<mgr, end>>
  BY DEF SInv, Abort
<1>4. Moves(n)
  BY <1>2, <1>3 DEF Moves, SameAt, SameTable, LinksGrow, Shaped
<1>5. Halts(n)
  BY <1>1, <1>3 DEF Halts, Refuses, Running
<1> QED BY <1>4, <1>5 DEF Does

LEMMA NothingMoves ==
  ASSUME NEW n \in Node, IInv, SInv, Running(n), UNCHANGED <<mgr, end, link, broken>>, Ages
  PROVE  Moves(n) /\ Does(n)
<1>1. Becomes(n, mgr[n], end[n])
  BY DEF Becomes, IInv, TypeOK
<1>2. Fits(n, mgr[n], end[n]) /\ LinksGrow(n)
  BY LessFits DEF LinksGrow, SInv
<1>3. Moves(n)
  BY <1>1, <1>2, BecomesMoves
<1> QED BY <1>3 DEF Does, Stays, SameLinks, SameTable, SameBut, SameAt

LEMMA ConnectMoves ==
  ASSUME NEW n \in Node, NEW msg \in Message, IInv, MInv, SInv, Running(n), msg.dst # n,
         Connect(n, mgr[n], msg), UNCHANGED <<server, faults>>
  PROVE  Moves(n) /\ Does(n)
<1> DEFINE s == mgr[n]  m == msg.dst  e == end[n]
<1>1. PICK i \in Conn :
        /\ link[i] = NoLink
        /\ link' = [link EXCEPT ![i] = [from |-> n, to |-> m, made |-> FALSE]]
        /\ Becomes(n, [s EXCEPT !.progress[m] = i, !.pending[m] = Append(@, msg)],
                      [e EXCEPT ![i] = [NoEnd EXCEPT !.sock = "connecting", !.mapped = m]])
  BY DEF Connect
<1> DEFINE t == [s EXCEPT !.progress[m] = i, !.pending[m] = Append(@, msg)]
           f == [e EXCEPT ![i] = [NoEnd EXCEPT !.sock = "connecting", !.mapped = m]]
<1>2. s \in Manager /\ e \in [Conn -> End] /\ m \in Node
  BY DEF IInv, TypeOK, Message
<1>3. t.table = s.table
  BY <1>2 DEF Manager
<1>4. /\ f[i].sock = "connecting" /\ f[i].mapped = m /\ f[i].wire = <<>> /\ f[i].out = <<>>
      /\ \A j \in Conn \ {i} : f[j] = e[j]
  BY <1>2 DEF NoEnd
<1>5. Becomes(n, t, f)
  BY <1>1
<1> HIDE DEF t, f
<1>6. /\ link'[i].from = n /\ link'[i].to = m /\ ~link'[i].made
      /\ \A j \in Conn \ {i} : link'[j] = link[j]
  BY <1>1 DEF IInv, TypeOK
<1>7. LinksGrow(n)
  BY <1>1, <1>6 DEF LinksGrow
<1>8. Shaped(n)
  BY DEF SInv
<1>9. Fits(n, t, f)
  BY <1>4, <1>8 DEF Fits, Shaped
<1>10. Ages
  BY <1>1 DEF Ages, Becomes, Running
<1>11. Moves(n) /\ mgr'[n] = t /\ end'[n] = f
  BY <1>5, <1>7, <1>9, <1>10, BecomesMoves
<1>12. Opens(n, i)
  BY <1>1, <1>2, <1>3, <1>4, <1>6, <1>11 DEF Opens, SameTable, SameBut, SameAt
<1> QED BY <1>11, <1>12 DEF Does

LEMMA PendingMoves ==
  ASSUME NEW n \in Node, NEW m \in Node, NEW msg \in Message, IInv, SInv, Running(n),
         Becomes(n, [mgr[n] EXCEPT !.pending[m] = Append(@, msg)], end[n]),
         UNCHANGED <<link, server, faults>>
  PROVE  Moves(n) /\ Does(n)
<1> DEFINE t == [mgr[n] EXCEPT !.pending[m] = Append(@, msg)]
<1>1. t.table = mgr[n].table
  BY DEF IInv, TypeOK, Manager
<1>2. Becomes(n, t, end[n])
  OBVIOUS
<1> HIDE DEF t
<1>3. Fits(n, t, end[n]) /\ LinksGrow(n) /\ Ages
  BY <1>2, LessFits DEF LinksGrow, SInv, Ages, Becomes, Running
<1>4. Moves(n) /\ mgr'[n] = t /\ end'[n] = end[n]
  BY <1>2, <1>3, BecomesMoves
<1> QED BY <1>1, <1>4 DEF Does, Stays, SameLinks, SameTable, SameBut, SameAt

LEMMA SendMoves ==
  ASSUME NEW n \in Node, NEW m \in Node \ {n}, IInv, MInv, SInv, Send(n, m)
  PROVE  Moves(n) /\ Does(n)
<1> DEFINE s == mgr[n]  e == end[n]  msg == [src |-> n, dst |-> m, id |-> sent + 1]
<1>1. Running(n) /\ UNCHANGED <<server, faults>> /\ Shaped(n)
  BY DEF Send, SInv
<1>2. msg \in Message /\ msg.dst = m
  BY BoundAssumption DEF Send, IInv, TypeOK, Message
<1> HIDE DEF msg
<1>3. CASE /\ s.table[m] # None
           /\ Becomes(n, s, SendOn(e, s.table[m], msg))
           /\ UNCHANGED <<resolving, link>>
  <2> DEFINE j == s.table[m]  g == SendOn(e, j, msg)
  <2>1. j \in Conn /\ Between(j, n, m) /\ e[j].sock = "open" /\ e[j].mapped = m
    BY <1>1, <1>3, TableLeads
  <2>2. e \in [Conn -> End]
    BY DEF IInv, TypeOK
  <2>3. SameShape(e, g)
    BY <2>1, <2>2, <1>2, SendOnIsFine
  <2>4. \A i \in Conn \ {j} : g[i] = e[i]
    BY <2>2 DEF SendOn
  <2>5. Fits(n, s, e)
    BY <1>1, LessFits
  <2>6. Becomes(n, s, g)
    BY <1>3
  <2> HIDE DEF g
  <2>7. Fits(n, s, g)
    BY <2>1, <2>3, <2>4, <2>5, FilledFits, NodeAssumption
  <2>8. LinksGrow(n) /\ Ages
    BY <1>1, <1>3 DEF LinksGrow, Ages, Becomes, Running
  <2>9. Moves(n) /\ mgr'[n] = s /\ end'[n] = g
    BY <1>1, <2>6, <2>7, <2>8, BecomesMoves
  <2> QED BY <2>3, <2>9, <1>3 DEF Does, Stays, SameLinks, SameTable, SameBut, SameAt, SameShape
<1>4. CASE Becomes(n, [s EXCEPT !.pending[m] = Append(@, msg)], e) /\ UNCHANGED <<resolving, link>>
  BY <1>1, <1>2, <1>4, PendingMoves
<1>5. CASE Connect(n, s, msg)
  BY <1>1, <1>2, <1>5, ConnectMoves
<1>6. CASE UNCHANGED <<mgr, end, link, broken>>
  <2>1. Ages
    BY <1>1, <1>6 DEF Ages, Running
  <2> QED BY <2>1, <1>1, <1>6, NothingMoves
<1> QED BY <1>3, <1>4, <1>5, <1>6 DEF Send, msg

LEMMA ResolvedMoves ==
  ASSUME NEW n \in Node, NEW msg \in resolving[n], IInv, MInv, SInv, Resolved(n, msg)
  PROVE  Moves(n) /\ Does(n)
<1>1. Running(n) /\ UNCHANGED <<server, faults>>
  BY DEF Resolved
<1>2. msg \in Message /\ msg.dst \in Node /\ msg.dst # n
  BY DEF MInv, Good, Holds, Views, Mine, Message
<1>3. CASE UNCHANGED <<mgr, end, link, broken>>
  <2>1. Ages
    BY <1>1, <1>3 DEF Ages, Running
  <2> QED BY <2>1, <1>1, <1>3, NothingMoves
<1>4. CASE Becomes(n, [mgr[n] EXCEPT !.pending[msg.dst] = Append(@, msg)], end[n]) /\ UNCHANGED link
  BY <1>1, <1>2, <1>4, PendingMoves
<1>5. CASE Connect(n, mgr[n], msg)
  BY <1>1, <1>2, <1>5, ConnectMoves
<1> QED BY <1>3, <1>4, <1>5 DEF Resolved

LEMMA ConnectedMoves ==
  ASSUME NEW n \in Node, NEW i \in Conn, IInv, MInv, SInv, Connected(n, i)
  PROVE  Moves(n) /\ Does(n)
<1> DEFINE s == mgr[n]  m == end[n][i].mapped  t == Given(s, m)
           d == [end[n] EXCEPT ![i].sock = "open"]  all == s.pending[m]
<1>1. /\ Running(n) /\ end[n][i].sock = "connecting" /\ Shaped(n)
      /\ link' = [link EXCEPT ![i].made = TRUE]
      /\ UNCHANGED <<server, faults>>
  BY DEF Connected, SInv
<1>2. s \in Manager /\ end[n] \in [Conn -> End] /\ \A j \in Conn : end[n][j] \in End
  BY DEF IInv, TypeOK
<1>3. m \in Node \ {n} /\ link[i].from = n /\ link[i].to = m /\ end[n][i].wire = <<>> /\ m # Temporary
  BY <1>1, ConnectingLeads, NodeAssumption
<1>4. s.table[m] # None => /\ s.table[m] \in Conn \ {i} /\ Between(s.table[m], n, m)
                           /\ end[n][s.table[m]].sock = "open" /\ end[n][s.table[m]].mapped = m
  BY <1>1, <1>3, TableLeads
<1>5. /\ link'[i].made /\ \A j \in Conn \ {i} : link'[j] = link[j]
      /\ link'[i].from = link[i].from /\ link'[i].to = link[i].to
  BY <1>1 DEF IInv, TypeOK
<1>6. LinksGrow(n)
  BY <1>3, <1>5 DEF LinksGrow
<1>7. /\ d \in [Conn -> End] /\ d[i].sock = "open" /\ d[i].mapped = m
      /\ d[i].wire = end[n][i].wire /\ d[i].out = end[n][i].out
      /\ \A j \in Conn \ {i} : d[j] = end[n][j]
  <2>1. [end[n][i] EXCEPT !.sock = "open"] \in End
    BY <1>2 DEF End
  <2> QED BY <2>1, <1>2 DEF End
<1>8. all \in Seq(Message) /\ t.table = s.table /\ t \in Manager
  BY <1>2, <1>3, GivenIsFine DEF Manager
<1> HIDE DEF d, t, all
<1>9. ASSUME NEW u, NEW j \in Conn, u.table[m] = j, Between(j, n, m), d[j].mapped = m, d[j].sock = "open"
      PROVE  /\ Fits(n, u, SendAllOn(d, j, all)) /\ SameShape(d, SendAllOn(d, j, all))
             /\ SendAllOn(d, j, all) \in [Conn -> End]
  <2>1. Fits(n, u, d)
    BY <1>1, <1>7 DEF Fits, Shaped
  <2>2. SendAllOn(d, j, all) \in [Conn -> End] /\ SameShape(d, SendAllOn(d, j, all))
    BY <1>7, <1>8, SendAllOnIsFine
  <2>3. \A l \in Conn \ {j} : SendAllOn(d, j, all)[l] = d[l]
    BY <1>7 DEF SendAllOn, SendOn
  <2> DEFINE g == SendAllOn(d, j, all)
  <2> HIDE DEF g
  <2>4. Fits(n, u, g)
    <3>1. SameShape(d, g) /\ \A l \in Conn \ {j} : g[l] = d[l]
      BY <2>2, <2>3 DEF g
    <3> QED BY <3>1, <2>1, <1>3, <1>9, FilledFits
  <2> QED BY <2>2, <2>4 DEF g
<1>10. ASSUME NEW u, NEW f, Becomes(n, u, f), Fits(n, u, f)
       PROVE  Moves(n) /\ mgr'[n] = u /\ end'[n] = f
  <2>1. Ages
    BY <1>1, <1>10 DEF Ages, Becomes, Running
  <2> QED BY <2>1, <1>1, <1>6, <1>10, BecomesMoves
<1>11. CASE s.table[m] = None /\ Becomes(n, [t EXCEPT !.table[m] = i], SendAllOn(d, i, all))
  <2> DEFINE u == [t EXCEPT !.table[m] = i]  f == SendAllOn(d, i, all)
  <2>1. u.table[m] = i /\ \A k \in Node \ {m} : u.table[k] = s.table[k]
    BY <1>3, <1>8 DEF Manager
  <2>2. Becomes(n, u, f)
    BY <1>11
  <2> HIDE DEF u
  <2>3. Between(i, n, m)
    BY <1>3 DEF Between
  <2>4. Fits(n, u, f) /\ SameShape(d, f)
    BY <2>1, <2>3, <1>7, <1>9
  <2> HIDE DEF f
  <2>5. Moves(n) /\ mgr'[n] = u /\ end'[n] = f
    BY <2>2, <2>4, <1>10
  <2>6. SameBut(n, {i}) /\ end'[n][i].mapped = m /\ end'[n][i].sock = "open"
    BY <2>4, <2>5, <1>7 DEF SameBut, SameAt, SameShape
  <2>7. Chooses(n, m, i)
    BY <2>1, <2>5 DEF Chooses
  <2>8. Makes(n, i)
    BY <2>6, <2>7, <1>1, <1>3, <1>5, <1>11 DEF Makes
  <2> QED BY <2>5, <2>8 DEF Does
<1>12. CASE s.table[m] # None /\ Becomes(n, t, Close(SendAllOn(d, s.table[m], all), i))
  <2> DEFINE j == s.table[m]  g == SendAllOn(d, j, all)  f == Close(g, i)
  <2>1. Fits(n, t, g) /\ SameShape(d, g) /\ g \in [Conn -> End]
    BY <1>4, <1>7, <1>8, <1>9, <1>12
  <2>2. Becomes(n, t, f)
    BY <1>12
  <2> HIDE DEF g
  <2>3. g[i] \in End /\ g[i].sock = "open" /\ g[i].mapped = m
    BY <2>1, <1>7 DEF SameShape
  <2>4. /\ f[i].sock = "closed" /\ f[i].mapped = m /\ f[i].wire = g[i].wire /\ f[i].out = g[i].out
        /\ \A l \in Conn \ {i} : f[l] = g[l]
    BY <2>1, <2>3 DEF Close, End
  <2> HIDE DEF f
  <2>5. Fits(n, t, f)
    BY <2>1, <2>3, <2>4 DEF Fits
  <2>6. Moves(n) /\ mgr'[n] = t /\ end'[n] = f
    BY <2>2, <2>5, <1>10
  <2>7. SameBut(n, {i})
    BY <2>1, <2>4, <2>6, <1>7 DEF SameBut, SameAt, SameShape
  <2>8. Makes(n, i)
    BY <2>4, <2>6, <2>7, <1>1, <1>3, <1>5, <1>8, <1>12 DEF Makes, SameTable
  <2> QED BY <2>6, <2>8 DEF Does
<1>13. CASE Abort(n, "handle_connect")
  BY <1>1, <1>5, <1>6, <1>13, AbortMoves
<1> QED BY <1>11, <1>12, <1>13 DEF Connected, Given, d, t, all

LEMMA DisconnectMoves ==
  ASSUME NEW n \in Node, NEW i \in Conn, NEW e \in [Conn -> End], IInv, SInv, Failed(n, i, e),
         \A j \in Conn : e[j].wire = end[n][j].wire /\ e[j].out \in {end[n][j].out, <<>>},
         UNCHANGED <<link, server>>, faults' \in {faults, faults + 1},
         \/ faults' # 0
         \/ end[n][i].sock = "aborted"
         \/ end[n][i].sock = "connecting" /\ Refuses(end[n][i].mapped)
         \/ /\ end[n][i].sock = "open"
            /\ Refuses(Peer(n, i)) \/ end[Peer(n, i)][i].sock \in {"closed", "aborted"},
         Disconnect(n, i, mgr[n], e)
  PROVE  Moves(n) /\ Does(n)
<1> DEFINE s == mgr[n]  m == e[i].mapped
<1>1. /\ Running(n) /\ Shaped(n) /\ s \in Manager /\ Kept(s, end[n])
      /\ m \in Node \cup {Temporary} /\ m = end[n][i].mapped /\ end[n][i].sock # "none"
  BY DEF Failed, SInv, IInv, TypeOK, End
<1>2. \A j \in Conn \ {i} : e[j].sock = end[n][j].sock /\ e[j].mapped = end[n][j].mapped
  BY DEF Failed, OnlyAt
<1>3. e[i].sock \in {"open", "closed"} /\ e[i] \in End
  BY DEF Failed
<1>4. /\ Close(e, i)[i].sock = "closed" /\ Close(e, i)[i].mapped = m
      /\ Close(e, i)[i].wire = e[i].wire /\ Close(e, i)[i].out = e[i].out
      /\ \A j \in Conn \ {i} : Close(e, i)[j] = e[j]
  BY <1>3 DEF Close, End
<1>5. LinksGrow(n)
  BY DEF LinksGrow
<1>6. ASSUME NEW t, NEW f, f = Close(e, i) \/ (f = e /\ e[i].sock = "closed"), Becomes(n, t, f),
             t.table = s.table \/ (m \in Node /\ s.table[m] = i /\ t.table = [s.table EXCEPT ![m] = None])
      PROVE  Moves(n) /\ Does(n)
  <2>1. /\ f[i].sock = "closed" /\ f[i].mapped = m
        /\ \A j \in Conn : /\ f[j].wire = end[n][j].wire /\ f[j].out \in {end[n][j].out, <<>>}
                           /\ f[j].mapped = end[n][j].mapped
                           /\ j # i => f[j].sock = end[n][j].sock
    BY <1>1, <1>2, <1>4, <1>6
  <2>2. Fits(n, t, f)
    BY <2>1, <1>1, LessFits
  <2>3. Ages
    BY <1>6 DEF Ages, Becomes, Running
  <2>4. Moves(n) /\ mgr'[n] = t /\ end'[n] = f
    BY <2>2, <2>3, <1>1, <1>5, <1>6, BecomesMoves
  <2>5. SameTable(n) \/ (m \in Node /\ s.table[m] = i /\ Chooses(n, m, None))
    BY <2>4, <1>1, <1>6 DEF SameTable, Chooses, Manager
  <2>6. SameLinks /\ SameBut(n, {i}) /\ end'[n][i].sock = "closed" /\ end'[n][i].mapped = m
    BY <2>1, <2>4 DEF SameLinks, SameBut, SameAt
  <2>7. Quits(n, i)
    BY <2>5, <2>6, <1>1 DEF Quits
  <2> QED BY <2>4, <2>7 DEF Does
<1>7. CASE Becomes(n, [s EXCEPT !.fresh = @ \ {i}], Close(e, i))
  <2>1. [s EXCEPT !.fresh = @ \ {i}].table = s.table
    BY <1>1 DEF Manager
  <2> QED BY <2>1, <1>6, <1>7
<1>8. CASE m # Temporary /\ s.table[m] = i /\ Becomes(n, [s EXCEPT !.table[m] = None], Close(e, i))
  <2>1. [s EXCEPT !.table[m] = None].table = [s.table EXCEPT ![m] = None] /\ m \in Node
    BY <1>1, <1>8 DEF Manager
  <2> QED BY <2>1, <1>6, <1>8
<1>9. CASE m # Temporary /\ Becomes(n, Given(s, m), Close(e, i))
  <2>1. Given(s, m).table = s.table
    BY <1>1, <1>9, GivenIsFine
  <2> QED BY <2>1, <1>6, <1>9
<1>10. CASE e[i].dead /\ Becomes(n, s, e)
  <2>1. e[i].sock = "closed"
    BY <1>1, <1>3, <1>10 DEF Failed, Kept
  <2> QED BY <2>1, <1>6, <1>10
<1>11. CASE Abort(n, "disconnect")
  BY <1>1, <1>5, <1>11, AbortMoves
<1> QED BY <1>7, <1>8, <1>9, <1>10, <1>11 DEF Disconnect, Given

LEMMA ConnectFailsMoves ==
  ASSUME NEW n \in Node, NEW i \in Conn, IInv, SInv, ConnectFails(n, i) \/ ConnectAborted(n, i)
  PROVE  Moves(n) /\ Does(n)
<1> DEFINE e == [end[n] EXCEPT ![i].sock = "closed"]
<1>1. /\ Running(n) /\ end[n][i].sock \in {"connecting", "aborted"}
      /\ Disconnect(n, i, mgr[n], e) /\ UNCHANGED <<link, server>>
  BY DEF ConnectFails, ConnectAborted
<1>2. end[n] \in [Conn -> End] /\ end[n][i] \in End /\ faults \in Nat
  BY BoundAssumption DEF IInv, TypeOK
<1>3. /\ faults' \in {faults, faults + 1}
      /\ \/ faults' # 0
         \/ end[n][i].sock = "aborted"
         \/ end[n][i].sock = "connecting" /\ Refuses(end[n][i].mapped)
  BY <1>2 DEF ConnectFails, ConnectAborted, Faults
<1>4. [end[n][i] EXCEPT !.sock = "closed"] \in End
  BY <1>2 DEF End
<1>5. /\ e \in [Conn -> End] /\ e[i].sock = "closed"
      /\ e[i].mapped = end[n][i].mapped /\ e[i].dead = end[n][i].dead
      /\ e[i].wire = end[n][i].wire /\ e[i].out = end[n][i].out
      /\ \A j \in Conn \ {i} : e[j] = end[n][j]
  BY <1>2, <1>4 DEF End
<1> HIDE DEF e
<1>6. \A j \in Conn : e[j].wire = end[n][j].wire /\ e[j].out \in {end[n][j].out, <<>>}
  BY <1>5
<1>7. Failed(n, i, e)
  BY <1>1, <1>5 DEF Failed, OnlyAt
<1> QED BY <1>1, <1>3, <1>5, <1>6, <1>7, DisconnectMoves

LEMMA FailsMoves ==
  ASSUME NEW n \in Node, NEW i \in Conn, IInv, SInv, Fails(n, i)
  PROVE  Moves(n) /\ Does(n)
<1>1. PICK e \in {end[n], [end[n] EXCEPT ![i].out = <<>>]} : Disconnect(n, i, mgr[n], e)
  BY DEF Fails
<1>2. Running(n) /\ end[n][i].sock = "open" /\ UNCHANGED <<link, server>>
  BY DEF Fails
<1>3. end[n] \in [Conn -> End] /\ end[n][i] \in End /\ faults \in Nat
  BY BoundAssumption DEF IInv, TypeOK
<1>4. faults' \in {faults, faults + 1}
      /\ (faults' # 0 \/ Refuses(Peer(n, i)) \/ end[Peer(n, i)][i].sock \in {"closed", "aborted"})
  BY <1>3 DEF Fails, Faults, Refuses
<1>5. [end[n][i] EXCEPT !.out = <<>>] \in End
  BY <1>3 DEF End
<1>6. /\ e \in [Conn -> End] /\ e[i].sock = "open"
      /\ e[i].mapped = end[n][i].mapped /\ e[i].dead = end[n][i].dead
      /\ e[i].wire = end[n][i].wire /\ e[i].out \in {end[n][i].out, <<>>}
      /\ \A j \in Conn \ {i} : e[j] = end[n][j]
  <2>1. CASE e = end[n]
    BY <2>1, <1>2, <1>3
  <2>2. CASE e = [end[n] EXCEPT ![i].out = <<>>]
    BY <2>2, <1>2, <1>3, <1>5 DEF End
  <2> QED BY <2>1, <2>2, <1>1
<1>7. \A j \in Conn : e[j].wire = end[n][j].wire /\ e[j].out \in {end[n][j].out, <<>>}
  BY <1>6
<1>8. Failed(n, i, e)
  BY <1>2, <1>6 DEF Failed, OnlyAt
<1> QED BY <1>1, <1>2, <1>4, <1>6, <1>7, <1>8, DisconnectMoves

LEMMA AcceptMoves ==
  ASSUME NEW n \in Node, NEW i \in Conn, IInv, SInv, Accept(n, i)
  PROVE  Moves(n) /\ Does(n)
<1> DEFINE s == mgr[n]  t == [s EXCEPT !.fresh = @ \cup {i}, !.accepting = server[n] = "up"]
           f(old) == [j \in Conn |-> IF j = i THEN [NoEnd EXCEPT !.sock = "open"]
                                     ELSE IF j \in old THEN [end[n][j] EXCEPT !.queue = <<>>]
                                     ELSE end[n][j]]
<1>1. /\ Running(n) /\ link[i].to = n /\ link[i].from # n /\ end[n][i].sock = "none"
      /\ UNCHANGED <<link, server, faults>> /\ Shaped(n)
  BY DEF Accept, SInv
<1>2. PICK old : Becomes(n, t, f(old))
  BY DEF Accept
<1> DEFINE g == f(old)
<1>3. s \in Manager /\ \A j \in Conn : end[n][j] \in End
  BY DEF IInv, TypeOK
<1>4. t.table = s.table
  BY <1>3 DEF Manager
<1>5. /\ g[i].sock = "open" /\ g[i].mapped = Temporary /\ g[i].wire = <<>> /\ g[i].out = <<>>
      /\ \A j \in Conn \ {i} : /\ g[j].sock = end[n][j].sock /\ g[j].mapped = end[n][j].mapped
                               /\ g[j].wire = end[n][j].wire /\ g[j].out = end[n][j].out
  BY <1>3 DEF NoEnd, End
<1>6. Becomes(n, t, g)
  BY <1>2
<1> HIDE DEF t, g
<1>7. Fits(n, t, g)
  BY <1>1, <1>5 DEF Fits, Shaped
<1>8. LinksGrow(n) /\ Ages
  BY <1>1, <1>6 DEF LinksGrow, Ages, Becomes, Running
<1>9. Moves(n) /\ mgr'[n] = t /\ end'[n] = g
  BY <1>1, <1>6, <1>7, <1>8, BecomesMoves
<1>10. Admits(n, i)
  BY <1>1, <1>4, <1>5, <1>9 DEF Admits, SameLinks, SameTable, SameBut, SameAt
<1> QED BY <1>9, <1>10 DEF Does

LEMMA WrittenMoves ==
  ASSUME NEW n \in Node, NEW i \in Conn, IInv, SInv, Written(n, i)
  PROVE  Moves(n) /\ Does(n)
<1> DEFINE e == end[n][i]
           x == IF e.sock = "open" /\ e.queue # <<>>
                  THEN [e EXCEPT !.out = <<Head(e.queue)>>, !.queue = Tail(@),
                                 !.wire = Append(@, Head(e.queue))]
                  ELSE [e EXCEPT !.out = <<>>]
           f == [end[n] EXCEPT ![i] = x]
<1>1. /\ Running(n) /\ e.out # <<>> /\ Shaped(n)
      /\ UNCHANGED <<mgr, link, server, broken, faults>>
      /\ end' = [end EXCEPT ![n][i] = x]
  BY DEF Written, SInv
<1>2. end \in [Node -> [Conn -> End]] /\ mgr \in [Node -> Manager] /\ end[n] \in [Conn -> End] /\ e \in End
  BY DEF IInv, TypeOK
<1>3. /\ x.sock = e.sock /\ x.mapped = e.mapped
      /\ \/ e.sock = "open"
         \/ x.wire = e.wire /\ x.out = <<>>
      /\ x.wire = e.wire \/ e.sock = "open"
  BY <1>2 DEF End
<1>4. f[i] = x /\ \A j \in Conn \ {i} : f[j] = end[n][j]
  BY <1>2
<1>5. Becomes(n, mgr[n], f)
  <2>1. end' = [end EXCEPT ![n] = f]
    BY <1>1, <1>2
  <2> QED BY <2>1, <1>1, <1>2 DEF Becomes
<1>6. e.mapped # Temporary
  BY <1>1 DEF Shaped
<1>7. e.sock = "open" => e.mapped \in Node /\ e.mapped = Peer(n, i) /\ mgr[n].table[e.mapped] = i
  BY <1>1, <1>6, OpenLeads
<1>8. e.sock = "open" => Between(i, n, e.mapped)
  BY <1>1, <1>7 DEF Shaped, Between, Peer
<1> HIDE DEF f, x
<1>9. Fits(n, mgr[n], f)
  BY <1>1, <1>3, <1>4, <1>6, <1>7, <1>8 DEF Fits, Shaped
<1>10. LinksGrow(n) /\ Ages
  BY <1>1 DEF LinksGrow, Ages, Running
<1>11. Moves(n) /\ mgr'[n] = mgr[n] /\ end'[n] = f
  BY <1>1, <1>5, <1>9, <1>10, BecomesMoves
<1> QED BY <1>1, <1>3, <1>4, <1>11 DEF Does, Stays, SameLinks, SameTable, SameBut, SameAt

LEMMA StopServerMoves ==
  ASSUME NEW n \in Node, IInv, SInv, StopServer(n)
  PROVE  Moves(n) /\ Does(n)
<1>1. Running(n) /\ UNCHANGED <<mgr, end, link, broken, faults>>
  BY DEF StopServer
<1>2. Ages
  BY <1>1 DEF StopServer, Ages, Running, IInv, TypeOK
<1> QED BY <1>1, <1>2, NothingMoves

LEMMA DelayedStopMoves ==
  ASSUME NEW n \in Node, IInv, SInv, DelayedStop(n)
  PROVE  Moves(n) /\ Does(n)
<1> DEFINE s == mgr[n]
           trying == {m \in Node : s.progress[m] # None}
           known == s.fresh \cup {s.table[m] : m \in Node} \cup {s.progress[m] : m \in trying}
           f == [i \in Conn |-> IF i \in known THEN Close(end[n], i)[i] ELSE end[n][i]]
<1>1. /\ Running(n) /\ Shaped(n) /\ Kept(s, end[n]) /\ UNCHANGED <<link, faults>>
      /\ server' = [server EXCEPT ![n] = "stopped"]
  BY DEF DelayedStop, SInv, IInv
<1>2. PICK t : Becomes(n, t, f)
  BY DEF DelayedStop
<1>3. end[n] \in [Conn -> End] /\ \A i \in Conn : end[n][i] \in End
  BY DEF IInv, TypeOK
<1>4. \A i \in Conn : i \in known => end[n][i].sock # "none"
  BY <1>1, ConnAssumption DEF Kept
<1> HIDE DEF known
<1>5. \A i \in Conn : /\ f[i].mapped = end[n][i].mapped /\ f[i].wire = end[n][i].wire
                      /\ f[i].out = end[n][i].out
                      /\ \/ f[i].sock = end[n][i].sock
                         \/ end[n][i].sock # "none" /\ f[i].sock \in {"aborted", "closed"}
  <2> SUFFICES ASSUME NEW i \in Conn
               PROVE  /\ f[i].mapped = end[n][i].mapped /\ f[i].wire = end[n][i].wire
                      /\ f[i].out = end[n][i].out
                      /\ \/ f[i].sock = end[n][i].sock
                         \/ end[n][i].sock # "none" /\ f[i].sock \in {"aborted", "closed"}
    OBVIOUS
  <2>1. CASE i \notin known
    BY <2>1
  <2>2. CASE i \in known
    <3>1. f[i] = Close(end[n], i)[i]
      BY <2>2
    <3>2. /\ Close(end[n], i)[i].mapped = end[n][i].mapped /\ Close(end[n], i)[i].wire = end[n][i].wire
          /\ Close(end[n], i)[i].out = end[n][i].out
          /\ Close(end[n], i)[i].sock \in {"aborted", "closed"}
      BY <1>3 DEF Close, End
    <3> QED BY <3>1, <3>2, <2>2, <1>4
  <2> QED BY <2>1, <2>2
<1> HIDE DEF f
<1>6. Fits(n, t, f)
  BY <1>1, <1>5, LessFits
<1>7. LinksGrow(n) /\ Ages
  BY <1>1, <1>2 DEF LinksGrow, Ages, Becomes, Running, IInv, TypeOK
<1>8. Moves(n) /\ end'[n] = f
  BY <1>1, <1>2, <1>6, <1>7, BecomesMoves
<1>9. Refuses(n)'
  BY <1>1 DEF Refuses, IInv, TypeOK
<1>10. Halts(n)
  BY <1>1, <1>5, <1>8, <1>9 DEF Halts
<1> QED BY <1>8, <1>10 DEF Does

\* a message names the node that has written it
LEMMA WiresName ==
  ASSUME NEW p \in Node, NEW i \in Conn, IInv, MInv, end[p][i].wire # <<>>
  PROVE  Head(end[p][i].wire).src = p
<1>1. end[p][i].wire \in Seq(Message)
  BY DEF IInv, TypeOK, End
<1>2. Head(end[p][i].wire) \in ToSet(end[p][i].wire)
  BY <1>1 DEF ToSet
<1>3. Holds("wire", mgr[p], end[p], resolving[p], Head(end[p][i].wire))
  BY <1>2 DEF Holds, Sending
<1>4. Head(end[p][i].wire) \in Mine(p, sent)
  BY <1>3 DEF MInv, Good, Views
<1> QED BY <1>4 DEF Mine

LEMMA ReadsMoves ==
  ASSUME NEW n \in Node, NEW i \in Conn, NEW t, NEW f \in [Conn -> End], IInv, Running(n),
         Reads(n, i, t, f), Peer(n, i) \in Node \ {n}, end[Peer(n, i)][i].wire # <<>>,
         UNCHANGED <<link, server, faults>>, Fits(n, t, f)
  PROVE  Moves(n) /\ mgr'[n] = t /\ end'[n] = f
<1> DEFINE p == Peer(n, i)
<1>1. end \in [Node -> [Conn -> End]] /\ mgr \in [Node -> Manager]
  BY DEF IInv, TypeOK
<1>2. /\ end'[n] = f /\ \A m \in Node \ {n, p} : end'[m] = end[m]
      /\ \A j \in Conn \ {i} : end'[p][j] = end[p][j]
      /\ end'[p][i] = [end[p][i] EXCEPT !.wire = Tail(@)]
  BY <1>1, ReadsWire
<1>3. mgr'[n] = t /\ \A m \in Node \ {n} : mgr'[m] = mgr[m]
  BY <1>1 DEF Reads
<1>4. end[p][i] \in End
  BY <1>1
<1>5. /\ end'[p][i].sock = end[p][i].sock /\ end'[p][i].mapped = end[p][i].mapped
      /\ end'[p][i].out = end[p][i].out
  BY <1>2, <1>4 DEF End
<1>6. ASSUME NEW k \in Node \ {n}, NEW j \in Conn
      PROVE  /\ SameAt(k, j) /\ end'[k][j].out = end[k][j].out
             /\ end[k][j].wire = <<>> => end'[k][j].wire = <<>>
  <2>1. CASE k = p /\ j = i
    BY <2>1, <1>5 DEF SameAt
  <2>2. CASE ~(k = p /\ j = i)
    <3>1. end'[k][j] = end[k][j]
      BY <2>2, <1>2
    <3> QED BY <3>1 DEF SameAt
  <2> QED BY <2>1, <2>2
<1>7. Ages
  BY DEF Ages, Reads, Running
<1>8. \A a, b \in Node : Healthy(a, b)' => Healthy(a, b)
  BY <1>7, HealthFades
<1> HIDE DEF p
<1> QED BY <1>2, <1>3, <1>6, <1>8 DEF Moves, SameTable, Fits

LEMMA TakeOverLeavesOut ==
  ASSUME NEW e \in [Conn -> End], NEW i \in Conn, NEW old \in Conn \ {i}, NEW src \in Node
  PROVE  \A j \in Conn : TakeOver(e, i, old, src)[j].out = e[j].out
<1> DEFINE a == [e EXCEPT ![i].mapped = src]
           b == [a EXCEPT ![i].queue = e[old].queue]
           g == [b EXCEPT ![old].queue = <<>>]
<1>1. \A j \in Conn : e[j] \in End
  OBVIOUS
<1>2. [e[i] EXCEPT !.mapped = src] \in End
  BY <1>1 DEF End
<1>3. a \in [Conn -> End]
  BY <1>2
<1>4. b \in [Conn -> End]
  <2>1. [a[i] EXCEPT !.queue = e[old].queue] \in End
    <3>1. a[i] \in End /\ e[old].queue \in Seq(Message)
      BY <1>1, <1>3 DEF End
    <3> HIDE DEF a
    <3> QED BY <3>1 DEF End
  <2> QED BY <1>3, <2>1
<1>5. g \in [Conn -> End]
  <2>1. [b[old] EXCEPT !.queue = <<>>] \in End
    <3>1. b[old] \in End /\ <<>> \in Seq(Message)
      BY <1>4
    <3> HIDE DEF b
    <3> QED BY <3>1 DEF End
  <2> QED BY <1>4, <2>1
<1>6. \A j \in Conn : g[j].out = e[j].out
  BY <1>1 DEF End
<1>7. TakeOver(e, i, old, src) = Close(g, old)
  BY DEF TakeOver
<1> HIDE DEF g
<1> QED BY <1>5, <1>6, <1>7, CloseLoses

LEMMA ReadMoves ==
  ASSUME NEW n \in Node, NEW i \in Conn, IInv, MInv, SInv, Read(n, i)
  PROVE  Moves(n) /\ Does(n)
<1> DEFINE p == Peer(n, i)  s == mgr[n]  e == end[n]  old == s.table[p]
           known == [s EXCEPT !.fresh = @ \ {i}, !.table[p] = i]
<1>1. /\ Running(n) /\ e[i].sock = "open" /\ end[p][i].wire # <<>> /\ Shaped(n) /\ Kept(s, e)
      /\ UNCHANGED <<link, server, faults>>
  BY DEF Read, SInv, IInv
<1>2. /\ s \in Manager /\ e \in [Conn -> End] /\ \A j \in Conn : e[j] \in End
  BY DEF IInv, TypeOK
<1>3. p \in Node \ {n} /\ p # Temporary
  BY <1>1, NodeAssumption DEF IInv, Linked, Tried, Shaped, Peer
<1>4. Head(end[p][i].wire).src = p
  BY <1>1, <1>3, WiresName
<1>5. SameLinks /\ LinksGrow(n)
  BY <1>1 DEF SameLinks, LinksGrow
<1>6. ASSUME NEW t, NEW f \in [Conn -> End], Reads(n, i, t, f), Fits(n, t, f)
      PROVE  Moves(n) /\ mgr'[n] = t /\ end'[n] = f
  BY <1>1, <1>3, <1>6, ReadsMoves
<1>7. /\ known.table[p] = i /\ \A k \in Node \ {p} : known.table[k] = s.table[k]
      /\ [s EXCEPT !.fresh = @ \ {i}].table = s.table
  BY <1>2, <1>3 DEF Manager
<1>8. old # None => old \in Conn /\ e[old].sock = "open" /\ e[old].mapped = p
  BY <1>1, <1>3, TableLeads
<1>9. CASE Reads(n, i, s, e)
  <2>1. Fits(n, s, e)
    BY <1>1, LessFits
  <2>2. Moves(n) /\ mgr'[n] = s /\ end'[n] = e
    BY <2>1, <1>2, <1>6, <1>9
  <2> QED BY <2>2, <1>5 DEF Does, Stays, SameTable, SameBut, SameAt
<1>10. CASE Abort(n, "remap")
  BY <1>1, <1>5, <1>10, AbortMoves
<1>11. CASE e[i].mapped = Temporary /\ old = None /\ Reads(n, i, known, [e EXCEPT ![i].mapped = p])
  <2> DEFINE f == [e EXCEPT ![i].mapped = p]
  <2>1. [e[i] EXCEPT !.mapped = p] \in End
    BY <1>2, <1>3 DEF End
  <2>2. /\ f \in [Conn -> End] /\ f[i].sock = "open" /\ f[i].mapped = p
        /\ f[i].wire = e[i].wire /\ \A j \in Conn \ {i} : f[j] = e[j]
    BY <2>1, <1>1, <1>2 DEF End
  <2>3. Reads(n, i, known, f)
    BY <1>11
  <2> HIDE DEF f, known, p
  <2>4. Fits(n, known, f)
    BY <2>2, <1>1, <1>3 DEF Fits, Shaped
  <2>5. Moves(n) /\ mgr'[n] = known /\ end'[n] = f
    BY <2>2, <2>3, <2>4, <1>6
  <2>6. Chooses(n, p, i) /\ SameBut(n, {i}) /\ end'[n][i].sock = "open" /\ end'[n][i].mapped = p
    BY <2>2, <2>5, <1>7 DEF Chooses, SameBut, SameAt
  <2>7. Learns(n, i)
    BY <2>6, <1>1, <1>3, <1>5, <1>11 DEF Learns, p
  <2> QED BY <2>5, <2>7 DEF Does
<1>12. CASE /\ e[i].mapped = Temporary /\ old # None /\ KeepNew(n, p)
            /\ Reads(n, i, known, TakeOver(e, i, old, p))
  <2> DEFINE f == TakeOver(e, i, old, p)
  <2>1. old \in Conn \ {i} /\ e[old].sock = "open" /\ e[old].mapped = p
    BY <1>3, <1>8, <1>12
  <2>2. /\ f \in [Conn -> End] /\ SameShape(Succeeds(e, i, old, p), f)
        /\ \A j \in Conn : f[j].wire = e[j].wire
    BY <2>1, <1>2, <1>3, TakeOverIsFine
  <2>3. /\ Succeeds(e, i, old, p)[i].sock = "open" /\ Succeeds(e, i, old, p)[i].mapped = p
        /\ Succeeds(e, i, old, p)[old].sock = "closed" /\ Succeeds(e, i, old, p)[old].mapped = p
        /\ \A j \in Conn \ {i, old} : Succeeds(e, i, old, p)[j] = e[j]
    <3>1. Close(e, old)[i] = e[i] /\ Close(e, old) \in [Conn -> End]
      BY <2>1, <1>2, CloseIsFine
    <3>2. Close(e, old)[old].sock = "closed" /\ Close(e, old)[old].mapped = p
      BY <2>1, <1>2 DEF Close, End
    <3>3. \A j \in Conn \ {old} : Close(e, old)[j] = e[j]
      BY <2>1, <1>2, CloseIsFine
    <3> QED BY <3>1, <3>2, <3>3, <2>1, <1>1, <1>2 DEF Succeeds, End
  <2>4. \A j \in Conn : f[j].out = e[j].out
    BY <2>1, <1>2, <1>3, TakeOverLeavesOut
  <2>5. Reads(n, i, known, f)
    BY <1>12
  <2> HIDE DEF f, known, p
  <2>6. /\ f[i].sock = "open" /\ f[i].mapped = p /\ f[old].sock = "closed" /\ f[old].mapped = p
        /\ \A j \in Conn \ {i, old} : f[j].sock = e[j].sock /\ f[j].mapped = e[j].mapped
    BY <2>1, <2>2, <2>3 DEF SameShape
  <2>7. Fits(n, known, f)
    BY <2>2, <2>4, <2>6, <1>1, <1>3 DEF Fits, Shaped
  <2>8. Moves(n) /\ mgr'[n] = known /\ end'[n] = f
    BY <2>2, <2>5, <2>7, <1>6
  <2>9. Chooses(n, p, i)
    BY <2>8, <1>7 DEF Chooses
  <2>10. SameBut(n, {i, old})
    BY <2>6, <2>8 DEF SameBut, SameAt
  <2>11. Learns(n, i)
    BY <2>1, <2>6, <2>8, <2>9, <2>10, <1>1, <1>3, <1>5, <1>12 DEF Learns, KeepNew, p
  <2> QED BY <2>8, <2>11 DEF Does
<1>13. CASE /\ e[i].mapped = Temporary /\ old # None /\ ~KeepNew(n, p)
            /\ Reads(n, i, [s EXCEPT !.fresh = @ \ {i}], Close(e, i))
  <2> DEFINE f == Close(e, i)  t == [s EXCEPT !.fresh = @ \ {i}]
  <2>1. /\ f \in [Conn -> End] /\ f[i].sock = "closed" /\ f[i].mapped = Temporary
        /\ f[i].wire = e[i].wire /\ f[i].out = e[i].out /\ \A j \in Conn \ {i} : f[j] = e[j]
    <3>1. f \in [Conn -> End] /\ \A j \in Conn \ {i} : f[j] = e[j]
      BY <1>2, CloseIsFine
    <3>2. f[i].sock = "closed" /\ f[i].mapped = Temporary /\ f[i].wire = e[i].wire /\ f[i].out = e[i].out
      BY <1>1, <1>2, <1>13 DEF Close, End
    <3> QED BY <3>1, <3>2
  <2>2. Reads(n, i, t, f)
    BY <1>13
  <2> HIDE DEF f, t
  <2>3. Fits(n, t, f)
    BY <2>1, <1>1, <1>13, LessFits
  <2>4. Moves(n) /\ mgr'[n] = t /\ end'[n] = f
    BY <2>1, <2>2, <2>3, <1>6
  <2>5. SameTable(n) /\ SameBut(n, {i}) /\ end'[n][i].sock = "closed" /\ end'[n][i].mapped = Temporary
    BY <2>1, <2>4, <1>7 DEF SameTable, SameBut, SameAt, t
  <2>6. Learns(n, i)
    BY <2>5, <1>1, <1>3, <1>5, <1>13 DEF Learns, KeepNew
  <2> QED BY <2>4, <2>6 DEF Does
<1>14. \/ Reads(n, i, s, e)
       \/ Abort(n, "remap")
       \/ e[i].mapped = Temporary /\ old = None /\ Reads(n, i, known, [e EXCEPT ![i].mapped = p])
       \/ /\ e[i].mapped = Temporary /\ old # None /\ KeepNew(n, p)
          /\ Reads(n, i, known, TakeOver(e, i, old, p))
       \/ /\ e[i].mapped = Temporary /\ old # None /\ ~KeepNew(n, p)
          /\ Reads(n, i, [s EXCEPT !.fresh = @ \ {i}], Close(e, i))
  BY <1>4 DEF Read, Reads
<1> QED BY <1>9, <1>10, <1>11, <1>12, <1>13, <1>14

-----------------------------------------------------------------------------

LEMMA InitPairs == Init => SInv
<1> SUFFICES ASSUME Init PROVE SInv
  OBVIOUS
<1>1. \A n \in Node, i \in Conn : end[n][i] = NoEnd /\ link[i] = NoLink
  BY DEF Init
<1>2. \A n \in Node, m \in Node : mgr[n].table[m] = None
  BY DEF Init
<1>3. Joined /\ \A n \in Node : Shaped(n)
  <2>1. NoEnd.sock = "none" /\ NoEnd.out = <<>> /\ ~NoLink.made
    BY DEF NoEnd, NoLink
  <2>2. \A i \in Conn : ~link[i].made
    BY <2>1 DEF Init
  <2>3. ASSUME NEW n \in Node, NEW i \in Conn
        PROVE  end[n][i].sock = "none" /\ end[n][i].out = <<>>
    BY <1>1, <2>1
  <2>4. Joined
    BY <2>2 DEF Joined
  <2> QED BY <2>3, <2>4 DEF Shaped
<1>4. \A a, b \in Node : Pair(a, b)
  BY <1>1, <1>2 DEF Pair, UsesOnly, Unanswered, Undecided, NoEnd, NoLink
<1> QED BY <1>3, <1>4 DEF SInv

LEMMA NextKeepsPairs == IInv /\ MInv /\ SInv /\ [Next]_vars => SInv'
<1> SUFFICES ASSUME IInv, MInv, SInv, [Next]_vars PROVE SInv'
  OBVIOUS
<1>1. CASE UNCHANGED vars
  BY <1>1 DEF vars, SInv, Joined, Shaped, Tried, Peer, Healthy, Refuses, Running, Pair, UsesOnly,
              Unanswered, Chosen, Undecided, Between
<1>2. ASSUME NEW n \in Node, NEW m \in Node \ {n}, Send(n, m) PROVE Moves(n) /\ Does(n)
  BY <1>2, SendMoves
<1>3. ASSUME NEW n \in Node, NEW msg \in resolving[n], Resolved(n, msg) PROVE Moves(n) /\ Does(n)
  BY <1>3, ResolvedMoves
<1>4. ASSUME NEW n \in Node, NEW i \in Conn,
             \/ Connected(n, i) \/ ConnectFails(n, i) \/ ConnectAborted(n, i)
             \/ Accept(n, i) \/ Read(n, i) \/ Fails(n, i) \/ Written(n, i)
      PROVE  Moves(n) /\ Does(n)
  BY <1>4, ConnectedMoves, ConnectFailsMoves, AcceptMoves, ReadMoves, FailsMoves, WrittenMoves
<1>5. ASSUME NEW n \in Node, StopServer(n) \/ DelayedStop(n) PROVE Moves(n) /\ Does(n)
  BY <1>5, StopServerMoves, DelayedStopMoves
<1>6. UNCHANGED vars \/ \E n \in Node : Moves(n) /\ Does(n)
  BY <1>2, <1>3, <1>4, <1>5 DEF Next
<1> QED BY <1>1, <1>6, MovesKeep

\* What two nodes know of the connections between them is an invariant.
THEOREM PairInvariance == Spec => []SInv
BY Invariance, MessageInvariance, InitPairs, NextKeepsPairs, PTL DEF Spec

\* As long as no connection has failed, two nodes that have opened connections to each
\* other keep one that is open at both ends or waits to be accepted (remap,
\* handle_connect), whatever they decide alone and in whatever order they hear of it.
THEOREM OneConnectionIsLeft == Spec => []ConnectionSurvives
<1>1. IInv /\ SInv => ConnectionSurvives
  <2> SUFFICES ASSUME IInv, SInv, NEW i \in Conn, faults = 0, link[i].made,
                      ~\E n \in {link[i].from, link[i].to} : Refuses(n)
               PROVE  \E j \in Conn : /\ {link[j].from, link[j].to} = {link[i].from, link[i].to}
                                      /\ link[j].made /\ Alive(j)
    BY DEF ConnectionSurvives
  <2>1. /\ link[i].from \in Node /\ link[i].to \in Node /\ link[i].from # link[i].to
        /\ ~Refuses(link[i].from) /\ ~Refuses(link[i].to)
    BY DEF SInv, Joined, Tried
  <2>2. PICK a \in Node, b \in Node : a < b /\ Between(i, a, b)
    <3>1. link[i].from < link[i].to \/ link[i].to < link[i].from
      <4>1. \A k \in Node : \A m \in Node : k # m => k < m \/ m < k
        BY NodeAssumption
      <4> QED BY <4>1, <2>1
    <3>2. Between(i, link[i].from, link[i].to) /\ Between(i, link[i].to, link[i].from)
      BY DEF Between
    <3> QED BY <2>1, <3>1, <3>2
  <2>3. Healthy(a, b) /\ Pair(a, b) /\ a # b
    BY <2>1, <2>2, NodeAssumption DEF Healthy, Between, SInv
  <2>4. ASSUME NEW j \in Conn, Between(j, a, b), link[j].made, Alive(j)
        PROVE  \E k \in Conn : /\ {link[k].from, link[k].to} = {link[i].from, link[i].to}
                               /\ link[k].made /\ Alive(k)
    <3>1. {link[j].from, link[j].to} = {a, b} /\ {link[i].from, link[i].to} = {a, b}
      BY <2>2, <2>4 DEF Between
    <3> QED BY <3>1, <2>4
  <2>5. CASE mgr[a].table[b] # None
    <3> DEFINE j == mgr[a].table[b]
    <3>1. j \in Conn /\ Between(j, a, b) /\ end[a][j].sock = "open"
      BY <2>3, <2>5, TwoTables
    <3>2. link[j].made /\ (end[b][j].sock = "open" \/ (link[j].from = a /\ end[b][j].sock = "none"))
      BY <2>3, <2>5 DEF Pair, Chosen
    <3> HIDE DEF j
    <3>3. Alive(j)
      BY <3>1, <3>2, <2>3 DEF Alive, Between
    <3> QED BY <3>1, <3>2, <3>3, <2>4
  <2>6. CASE mgr[a].table[b] = None
    <3> DEFINE j == mgr[b].table[a]
    <3>1. Undecided(a, b)
      BY <2>3, <2>6 DEF Pair
    <3>2. j # None
      BY <3>1, <2>2 DEF Undecided
    <3>3. j \in Conn /\ Between(j, a, b) /\ end[b][j].sock = "open"
      BY <3>2, <2>3, TwoTables
    <3>4. link[j].made /\ link[j].from = b /\ end[a][j].sock \in {"none", "open"}
      BY <3>1, <3>2 DEF Undecided
    <3> HIDE DEF j
    <3>5. Alive(j)
      BY <3>3, <3>4, <2>3 DEF Alive, Between
    <3> QED BY <3>3, <3>4, <3>5, <2>4
  <2> QED BY <2>5, <2>6
<1> QED BY <1>1, Invariance, PairInvariance, PTL

=============================================================================
