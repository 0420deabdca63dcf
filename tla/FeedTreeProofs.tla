--------------------------- MODULE FeedTreeProofs ---------------------------
(***************************************************************************)
(* Theorems about FeedTree for any set of nodes, any distances and any     *)
(* number of children, timers and messages.                                *)
(*                                                                         *)
(* The inductive invariant IInv says, node by node, how a node's place in  *)
(* the tree (TreeOK) and its search for a parent (SearchOK) are            *)
(* consistent, and what each message in flight can be relied on for        *)
(* (GoodMsg): that part does not depend on the state at all, so messages   *)
(* may be delayed, reordered and lost at will.  Bound ties the replies in  *)
(* flight to the request they answer.                                      *)
(***************************************************************************)
EXTENDS FeedTree, FiniteSetTheorems, TLAPS

(* anc runs from the publisher to a parent that n may have, each node       *)
(* farther from the publisher than the one before, and all closer than n.   *)
Path(anc, n) ==
  /\ anc \in Seq(Node)
  /\ n = Publisher => anc = <<>>
  /\ n # Publisher => anc # <<>> /\ anc[1] = Publisher
  /\ \A i \in 1..Len(anc) : Rank[anc[i]] < Rank[n]
  /\ \A i, j \in 1..Len(anc) : i < j => Rank[anc[i]] < Rank[anc[j]]

TreeOK(n, par, anc, ch) ==
  /\ Path(anc, n)
  /\ n = Publisher => par = Publisher
  /\ n # Publisher /\ par # NoNode => anc[Len(anc)] = par
  /\ IsFiniteSet(ch) /\ Cardinality(ch) <= MaxChildren
  /\ \A c \in ch : Rank[n] < Rank[c]

(* A node that seeks a parent while it has one does so for a periodic       *)
(* rejoin.  It started with an ancestor and was passed on downwards only,   *)
(* so it never asks anyone twice, nor its parent.                           *)
Downwards(n, par, w) ==
  /\ w.target # par
  /\ w.failed = {}
  /\ Rank[w.target] < Rank[n]
  /\ \A t \in Node : w.attempted[t] > 0 => Rank[t] <= Rank[w.target]

SearchOK(n, on, pend, par, seek, rej, ws) ==
  /\ n = Publisher => ~pend /\ ~seek /\ ws = {}
  /\ ~on => ~pend /\ ~rej /\ ws = {}
  /\ on => (\A v, w \in ws : v = w) /\ (seek <=> ws # {})
  /\ on /\ n # Publisher => pend \/ seek \/ rej
  /\ on /\ n # Publisher /\ par # NoNode => pend \/ rej
  /\ \A w \in ws : Publisher \notin w.failed /\ (par # NoNode => Downwards(n, par, w))

GoodMsg(m) ==
  /\ m.src # m.dst
  /\ m.kind = "ok" => Path(m.ancestors, m.src) /\ Rank[m.src] < Rank[m.dst]
  /\ m.kind = "deny" => m.src # Publisher
  /\ m.kind = "fwd" =>
       /\ m.fwd_node # m.dst
       /\ Rank[m.src] < Rank[m.dst] => Rank[m.src] < Rank[m.fwd_node] /\ Rank[m.fwd_node] < Rank[m.dst]
  /\ m.kind = "change_parent" => m.new_parent # m.dst
  /\ m.kind = "flush" => Path(m.ancestors, m.src)

(* A request of n whose timer is live is on its way to the node that the    *)
(* timer is for, and a reply comes from it.                                 *)
Bound(n, ws, net) ==
  \A m \in net : \A w \in ws :
    /\ m.kind = "req" /\ m.src = n /\ m.timer = w.timer => m.dst = w.target
    /\ m.kind \in {"ok", "deny", "fwd"} /\ m.dst = n /\ m.timer = w.timer => m.src = w.target

IInv ==
  /\ TypeOK
  /\ \A n \in Node : TreeOK(n, parent[n], ancestors[n], children[n])
  /\ \A n \in Node : SearchOK(n, online[n], pending[n], parent[n], seeking[n], rejoin[n], waits[n])
  /\ \A m \in msgs : GoodMsg(m)
  /\ \A n \in Node : Bound(n, waits[n], msgs)

USE NodeAssumption, RankAssumption, MaxChildrenAssumption, MaxAttemptsAssumption,
    TimerIdsAssumption

-----------------------------------------------------------------------------

(* The publisher is the closest to itself.                                  *)
LEMMA PublisherIsClosest ==
  ASSUME NEW m \in Node, NEW n \in Node, Rank[m] < Rank[n]
  PROVE  n # Publisher /\ m # n
OBVIOUS

(* A path to s extends by s to a path to any node farther away than s.      *)
LEMMA PathExtends ==
  ASSUME NEW s \in Node, NEW d \in Node, NEW anc, Path(anc, s), Rank[s] < Rank[d]
  PROVE  /\ Path(Append(anc, s), d)
         /\ Append(anc, s)[Len(Append(anc, s))] = s
<1>. DEFINE a == Append(anc, s)
<1>1. /\ a \in Seq(Node) /\ Len(a) = Len(anc) + 1 /\ Len(anc) \in Nat
      /\ a[Len(anc) + 1] = s
      /\ \A i \in 1..Len(anc) : a[i] = anc[i] /\ anc[i] \in Node
  BY DEF Path
<1>2. d # Publisher
  BY PublisherIsClosest
<1>3. a # <<>> /\ a[1] = Publisher
  <2>1. CASE s = Publisher
    <3>1. anc = <<>> /\ Len(anc) = 0
      BY <2>1 DEF Path
    <3>. QED  BY <1>1, <2>1, <3>1
  <2>2. CASE s # Publisher
    <3>1. anc # <<>> /\ anc[1] = Publisher
      BY <2>2 DEF Path
    <3>2. Len(anc) >= 1
      BY <3>1 DEF Path
    <3>. QED  BY <1>1, <3>1, <3>2
  <2>. QED  BY <2>1, <2>2
<1>4. \A i \in 1..Len(a) : Rank[a[i]] < Rank[d]
  <2>. SUFFICES ASSUME NEW i \in 1..Len(a)
                PROVE  Rank[a[i]] < Rank[d]
    OBVIOUS
  <2>1. CASE i = Len(anc) + 1
    BY <1>1, <2>1
  <2>2. CASE i # Len(anc) + 1
    <3>1. i \in 1..Len(anc)
      BY <1>1, <2>2
    <3>2. a[i] = anc[i] /\ anc[i] \in Node /\ Rank[anc[i]] < Rank[s]
      BY <1>1, <3>1 DEF Path
    <3>3. Rank[anc[i]] \in Nat /\ Rank[s] \in Nat /\ Rank[d] \in Nat
      BY <3>2
    <3>. QED  BY <3>2, <3>3
  <2>. QED  BY <2>1, <2>2
<1>5. \A i, j \in 1..Len(a) : i < j => Rank[a[i]] < Rank[a[j]]
  <2>. SUFFICES ASSUME NEW i \in 1..Len(a), NEW j \in 1..Len(a), i < j
                PROVE  Rank[a[i]] < Rank[a[j]]
    OBVIOUS
  <2>1. i \in 1..Len(anc) /\ a[i] = anc[i]
    BY <1>1
  <2>2. CASE j = Len(anc) + 1
    BY <1>1, <2>1, <2>2 DEF Path
  <2>3. CASE j # Len(anc) + 1
    <3>1. j \in 1..Len(anc) /\ a[j] = anc[j]
      BY <1>1, <2>3
    <3>. QED  BY <2>1, <3>1 DEF Path
  <2>. QED  BY <2>2, <2>3
<1>6. Path(a, d)
  BY <1>1, <1>2, <1>3, <1>4, <1>5 DEF Path
<1>7. a[Len(a)] = s
  BY <1>1
<1>. QED  BY <1>6, <1>7

(* The fields of the messages.                                              *)
LEMMA MessageFields ==
  ASSUME NEW m \in Message
  PROVE  /\ m.src \in Node /\ m.dst \in Node
         /\ m.kind = "req" => m.timer \in TimerIds /\ m.failed \in SUBSET Node
         /\ m.kind = "ok" => m.timer \in TimerIds /\ m.ancestors \in Seq(Node)
         /\ m.kind = "deny" => m.timer \in TimerIds
         /\ m.kind = "fwd" => m.timer \in TimerIds /\ m.fwd_node \in Node
         /\ m.kind = "change_parent" => m.new_parent \in Node
         /\ m.kind = "flush" => m.ancestors \in Seq(Node)
BY DEF Message

LEMMA MessageTypes ==
  ASSUME NEW n \in Node, NEW d \in Node, NEW id \in TimerIds
  PROVE  /\ \A failed \in SUBSET Node : JoinReq(n, d, id, failed) \in Message
         /\ \A anc \in Seq(Node) : JoinOk(n, d, id, anc) \in Message
         /\ JoinDeny(n, d, id) \in Message
         /\ \A f \in Node : JoinFwd(n, d, id, f) \in Message
BY DEF Message, JoinReq, JoinOk, JoinDeny, JoinFwd

LEMMA DirectiveTypes ==
  ASSUME NEW n \in Node, NEW d \in Node
  PROVE  /\ \A q \in Node : ChangeParent(n, d, q) \in Message
         /\ NoLongerYourChild(n, d) \in Message
         /\ \A anc \in Seq(Node) : FlushAncestry(n, d, anc) \in Message
BY DEF Message, ChangeParent, NoLongerYourChild, FlushAncestry

-----------------------------------------------------------------------------

(* What the callers of initiate_feed_join_req pass to it.                   *)
AskOK(n, p, ask) ==
  /\ ask.attempted \in [Node -> 0..MaxAttempts]
  /\ ask.failed \in SUBSET Node
  /\ ask.periodic \in BOOLEAN
  /\ Publisher \notin ask.failed
  /\ p # NoNode =>
       /\ ask.failed = {}
       /\ ask.fwd_node \in Node
       /\ ask.fwd_node # p
       /\ Rank[ask.fwd_node] < Rank[n]
       /\ \A t \in Node : ask.attempted[t] > 0 => Rank[t] < Rank[ask.fwd_node]

(* Fewer messages and timers are bound as more were.                        *)
LEMMA BoundShrinks ==
  ASSUME NEW n, NEW ws, NEW net, Bound(n, ws, net),
         NEW v \in SUBSET ws, NEW some \in SUBSET net
  PROVE  Bound(n, v, some)
BY DEF Bound

(* Messages that are neither requests nor replies are always bound.         *)
LEMMA BoundIgnoresDirectives ==
  ASSUME NEW n, NEW ws, NEW net, Bound(n, ws, net), NEW more,
         \A m \in more : m.kind \in {"change_parent", "no_longer_your_child", "flush"}
  PROVE  Bound(n, ws, net \cup more)
BY DEF Bound

(* A reply to a bound request is bound.                                     *)
LEMMA BoundReply ==
  ASSUME NEW n, NEW ws, NEW net, Bound(n, ws, net), NEW m \in net, NEW r,
         m.kind = "req", r.kind \in {"ok", "deny", "fwd"},
         r.src = m.dst, r.dst = m.src, r.timer = m.timer
  PROVE  Bound(n, ws, (net \ {m}) \cup {r})
BY DEF Bound

(* A request with a new timer is bound, whatever is still in flight.        *)
LEMMA BoundRequest ==
  ASSUME NEW n, NEW ws, NEW net, Bound(n, ws, net), NEW id \in TimerIds,
         NewTimer(n, ws, net, id), NEW w, w.timer = id, NEW r,
         r.kind = "req", r.src = n, r.dst = w.target, r.timer = id
  PROVE  Bound(n, ws \cup {w}, net \cup {r})
<1>1. /\ \A v \in ws : v.timer # id
      /\ \A m \in net : m.kind = "req" /\ m.src = n => m.timer # id
      /\ \A m \in net : m.kind \in {"ok", "deny", "fwd"} /\ m.dst = n => m.timer # id
  BY DEF NewTimer, UsedTimers
<1>. QED  BY <1>1 DEF Bound

(* A request of one node is nothing to the timers of another.               *)
LEMMA BoundRequestOfOther ==
  ASSUME NEW n, NEW ws, NEW net, Bound(n, ws, net), NEW r, r.kind = "req", r.src # n
  PROVE  Bound(n, ws, net \cup {r})
BY DEF Bound

(* Where initiate_feed_join_req sends its request.                          *)
LEMMA TargetFacts ==
  ASSUME NEW n \in Node, NEW p \in Node \cup {NoNode}, NEW ask, AskOK(n, p, ask),
         NEW t \in Targets(n, ask)
  PROVE  /\ t \in Node /\ t # n
         /\ p # NoNode => t = ask.fwd_node
<1>1. t \in Node /\ t # n
  BY DEF Targets
<1>2. ASSUME p # NoNode
      PROVE  t = ask.fwd_node
  <2>1. /\ ask.failed = {} /\ ask.fwd_node \in Node
        /\ Rank[ask.fwd_node] < Rank[n]
        /\ \A u \in Node : ask.attempted[u] > 0 => Rank[u] < Rank[ask.fwd_node]
        /\ ask.attempted[ask.fwd_node] \in 0..MaxAttempts
    BY <1>2 DEF AskOK
  <2>2. Rank[ask.fwd_node] \in Nat /\ Rank[n] \in Nat
    BY <2>1
  <2>3. ask.attempted[ask.fwd_node] = 0 /\ ask.fwd_node # n
    BY <2>1, <2>2
  <2>. QED  BY <2>1, <2>3 DEF Targets
<1>. QED  BY <1>1, <1>2

(***************************************************************************)
(* What initiate_feed_join_req does for a node that is not the publisher:  *)
(* only its own search changes; afterwards it is seeking exactly if it has *)
(* a timer, and it is seeking if it has no parent; a new timer is bound to *)
(* the request that was sent and to no other message.                      *)
(***************************************************************************)
OnlySearchOf(n) ==
  /\ seeking' \in [Node -> BOOLEAN] /\ waits' \in [Node -> SUBSET Wait]
  /\ msgs' \subseteq Message
  /\ \A k \in Node : k # n => seeking'[k] = seeking[k] /\ waits'[k] = waits[k]
  /\ \A m \in msgs' : GoodMsg(m)
  /\ \A k \in Node : Bound(k, waits'[k], msgs')

Searches(n, p, live) ==
  /\ OnlySearchOf(n)
  /\ seeking'[n] <=> waits'[n] # {}
  /\ \A v, w \in waits'[n] : v = w
  /\ p = NoNode => seeking'[n]
  /\ \A w \in waits'[n] \ live :
       Publisher \notin w.failed /\ (p # NoNode => Downwards(n, p, w))

LEMMA InitiateSearches ==
  ASSUME IInv,
         NEW n \in Node, NEW isSeeking \in BOOLEAN, NEW p \in Node \cup {NoNode}, NEW ask,
         NEW live, live \subseteq waits[n], NEW net, net \subseteq msgs,
         AskOK(n, p, ask), Initiate(n, isSeeking, p, ask, live, net),
         isSeeking <=> live # {},
         \A v, w \in live : v = w
  PROVE  Searches(n, p, live)
<1>0. /\ seeking \in [Node -> BOOLEAN] /\ waits \in [Node -> SUBSET Wait]
      /\ msgs \subseteq Message
      /\ \A m \in net : GoodMsg(m)
      /\ live \subseteq Wait
      /\ Bound(n, live, net)
      /\ \A k \in Node : Bound(k, waits[k], net)
  BY BoundShrinks DEF IInv, TypeOK
<1>1. CASE \E b \in BOOLEAN : Unchanging(n, b, live, net) /\ (b = isSeeking) /\ (p = NoNode => b)
  <2>1. PICK b \in BOOLEAN : Unchanging(n, b, live, net) /\ b = isSeeking /\ (p = NoNode => b)
    BY <1>1
  <2>2. /\ seeking' = [seeking EXCEPT ![n] = b]
        /\ waits' = [waits EXCEPT ![n] = live]
        /\ msgs' = net
    BY <2>1 DEF Unchanging
  <2>3. seeking'[n] = b /\ waits'[n] = live
    BY <1>0, <2>2
  <2>4. \A k \in Node : k # n => seeking'[k] = seeking[k] /\ waits'[k] = waits[k]
    BY <1>0, <2>2
  <2>5. seeking' \in [Node -> BOOLEAN] /\ waits' \in [Node -> SUBSET Wait]
    BY <1>0, <2>2
  <2>6. \A k \in Node : Bound(k, waits'[k], msgs')
    BY <1>0, <2>2, <2>3, <2>4
  <2>. QED  BY <1>0, <2>1, <2>2, <2>3, <2>4, <2>5, <2>6 DEF Searches, OnlySearchOf
<1>2. CASE ~isSeeking /\ \E t \in Targets(n, ask) : ~(ask.periodic /\ p = t) /\ SendJoinReq(n, t, ask, live, net)
  <2>1. PICK t \in Targets(n, ask) : SendJoinReq(n, t, ask, live, net)
    BY <1>2
  <2>2. t \in Node /\ t # n /\ (p # NoNode => t = ask.fwd_node)
    BY TargetFacts
  <2>3. PICK id \in TimerIds :
          /\ NewTimer(n, live, net, id)
          /\ waits' = [waits EXCEPT ![n] = live \cup
               {[timer |-> id, target |-> t, periodic |-> ask.periodic, failed |-> ask.failed,
                 attempted |-> [ask.attempted EXCEPT ![t] = @ + 1]]}]
          /\ msgs' = net \cup {JoinReq(n, t, id, ask.failed)}
    BY <2>1 DEF SendJoinReq
  <2>. DEFINE att == [ask.attempted EXCEPT ![t] = @ + 1]
              v == [timer |-> id, target |-> t, periodic |-> ask.periodic, failed |-> ask.failed,
                    attempted |-> att]
              r == JoinReq(n, t, id, ask.failed)
  <2>4. live = {}
    BY <1>2
  <2>5. att \in [Node -> 0..MaxAttempts]
    <3>1. ask.attempted \in [Node -> 0..MaxAttempts] /\ ask.attempted[t] < MaxAttempts
      BY <2>1 DEF AskOK, SendJoinReq
    <3>2. ask.attempted[t] + 1 \in 0..MaxAttempts
      BY <2>2, <3>1
    <3>. QED  BY <2>2, <3>1, <3>2
  <2>6. v \in Wait
    BY <2>2, <2>5 DEF Wait, AskOK
  <2>7. seeking' = [seeking EXCEPT ![n] = TRUE]
    BY <2>1 DEF SendJoinReq
  <2>8. waits' = [waits EXCEPT ![n] = {v}]
    BY <2>3, <2>4
  <2>9. seeking'[n] = TRUE /\ waits'[n] = {v}
    BY <1>0, <2>7, <2>8
  <2>10. \A k \in Node : k # n => seeking'[k] = seeking[k] /\ waits'[k] = waits[k]
    BY <1>0, <2>7, <2>8
  <2>11. seeking' \in [Node -> BOOLEAN] /\ waits' \in [Node -> SUBSET Wait]
    BY <1>0, <2>6, <2>7, <2>8
  <2>12. r \in Message /\ r.kind = "req" /\ r.src = n /\ r.dst = t /\ r.timer = id
    BY <2>2, MessageTypes DEF AskOK, JoinReq
  <2>13. GoodMsg(r)
    BY <2>2, <2>12 DEF GoodMsg
  <2>14. Bound(n, waits'[n], msgs')
    <3>1. v.timer = id /\ v.target = t
      OBVIOUS
    <3>2. Bound(n, live \cup {v}, net \cup {r})
      BY <1>0, <2>3, <2>12, <3>1, BoundRequest
    <3>. QED  BY <2>3, <2>4, <2>9, <3>2
  <2>15. ASSUME NEW k \in Node, k # n
         PROVE  Bound(k, waits'[k], msgs')
    BY <1>0, <2>3, <2>10, <2>12, <2>15, BoundRequestOfOther
  <2>16. p # NoNode => Downwards(n, p, v)
    <3>. SUFFICES ASSUME p # NoNode
                  PROVE  Downwards(n, p, v)
      OBVIOUS
    <3>1. /\ t = ask.fwd_node /\ t # p /\ ask.failed = {} /\ Rank[t] < Rank[n]
          /\ \A u \in Node : ask.attempted[u] > 0 => Rank[u] < Rank[t]
          /\ ask.attempted \in [Node -> 0..MaxAttempts]
      BY <2>2 DEF AskOK
    <3>2. \A u \in Node : att[u] > 0 => Rank[u] <= Rank[t]
      <4>. SUFFICES ASSUME NEW u \in Node, att[u] > 0
                    PROVE  Rank[u] <= Rank[t]
        OBVIOUS
      <4>1. Rank[u] \in Nat /\ Rank[t] \in Nat
        BY <2>2
      <4>2. u # t => att[u] = ask.attempted[u]
        BY <3>1
      <4>. QED  BY <3>1, <4>1, <4>2
    <3>. QED  BY <3>1, <3>2 DEF Downwards
  <2>17. Publisher \notin v.failed
    BY DEF AskOK
  <2>. QED
    BY <1>0, <2>3, <2>9, <2>10, <2>11, <2>12, <2>13, <2>14, <2>15, <2>16, <2>17
       DEF Searches, OnlySearchOf
<1>. QED
  <2>1. (\E t \in Targets(n, ask) : p = t) => p # NoNode
    BY TargetFacts
  <2>. QED  BY <1>1, <1>2, <2>1 DEF Initiate

(* The same for a handler that starts no search: it takes timers and        *)
(* messages away, and what it sends are directives.                         *)
KeepsSearch(n, b, live, net) ==
  /\ b \in BOOLEAN
  /\ live \subseteq waits[n]
  /\ \A m \in net :
       \/ m \in msgs
       \/ /\ m \in Message /\ GoodMsg(m)
          /\ m.kind \in {"change_parent", "no_longer_your_child", "flush"}
  /\ Unchanging(n, b, live, net)

LEMMA UnchangingKeeps ==
  ASSUME IInv, NEW n \in Node, NEW b, NEW live, NEW net, KeepsSearch(n, b, live, net)
  PROVE  OnlySearchOf(n) /\ seeking'[n] = b /\ waits'[n] = live
<1>. USE DEF KeepsSearch
<1>1. /\ seeking \in [Node -> BOOLEAN] /\ waits \in [Node -> SUBSET Wait]
      /\ net \subseteq Message
      /\ live \subseteq Wait
      /\ \A m \in net : GoodMsg(m)
  BY DEF IInv, TypeOK
<1>2. /\ seeking' = [seeking EXCEPT ![n] = b]
      /\ waits' = [waits EXCEPT ![n] = live]
      /\ msgs' = net
  BY DEF Unchanging
<1>3. /\ seeking'[n] = b /\ waits'[n] = live
      /\ \A k \in Node : k # n => seeking'[k] = seeking[k] /\ waits'[k] = waits[k]
  BY <1>1, <1>2
<1>4. seeking' \in [Node -> BOOLEAN] /\ waits' \in [Node -> SUBSET Wait]
  BY <1>1, <1>2
<1>5. ASSUME NEW k \in Node
      PROVE  Bound(k, waits'[k], msgs')
  <2>1. waits'[k] \subseteq waits[k] /\ Bound(k, waits[k], msgs)
    BY <1>3 DEF IInv
  <2>. QED  BY <1>2, <2>1 DEF Bound
<1>. QED  BY <1>1, <1>2, <1>3, <1>4, <1>5 DEF OnlySearchOf

(* A step of one node keeps the invariant if it keeps that node's part.     *)
LEMMA Frame ==
  ASSUME IInv, NEW n \in Node, TypeOK', OnlySearchOf(n),
         \A k \in Node : k # n =>
           /\ online'[k] = online[k] /\ pending'[k] = pending[k]
           /\ parent'[k] = parent[k] /\ ancestors'[k] = ancestors[k]
           /\ children'[k] = children[k] /\ rejoin'[k] = rejoin[k],
         TreeOK(n, parent'[n], ancestors'[n], children'[n]),
         SearchOK(n, online'[n], pending'[n], parent'[n], seeking'[n], rejoin'[n], waits'[n])
  PROVE  IInv'
<1>1. ASSUME NEW k \in Node
      PROVE  /\ TreeOK(k, parent'[k], ancestors'[k], children'[k])
             /\ SearchOK(k, online'[k], pending'[k], parent'[k], seeking'[k], rejoin'[k], waits'[k])
  <2>1. CASE k = n
    BY <2>1
  <2>2. CASE k # n
    BY <2>2 DEF IInv, OnlySearchOf
  <2>. QED  BY <2>1, <2>2
<1>. QED  BY <1>1 DEF IInv, OnlySearchOf

(* What IInv says of one node and of one message.                           *)
LEMMA NodeFacts ==
  ASSUME IInv, NEW n \in Node
  PROVE  /\ TreeOK(n, parent[n], ancestors[n], children[n])
         /\ SearchOK(n, online[n], pending[n], parent[n], seeking[n], rejoin[n], waits[n])
         /\ Bound(n, waits[n], msgs)
         /\ online[n] \in BOOLEAN /\ pending[n] \in BOOLEAN /\ rejoin[n] \in BOOLEAN
         /\ seeking[n] \in BOOLEAN
         /\ parent[n] \in Node \cup {NoNode} /\ ancestors[n] \in Seq(Node)
         /\ children[n] \in SUBSET Node /\ waits[n] \in SUBSET Wait
BY DEF IInv, TypeOK

(* A handler that ends in initiate_feed_join_req, called with the parent    *)
(* that the node has afterwards, leaves the node's search in order.         *)
LEMMA SearchAfterInitiate ==
  ASSUME IInv, NEW n \in Node, NEW p, NEW live, live \subseteq waits[n],
         Searches(n, p, live),
         n # Publisher,
         online'[n], parent'[n] = p,
         p # NoNode => p = parent[n] /\ (pending'[n] \/ rejoin'[n])
  PROVE  SearchOK(n, online'[n], pending'[n], parent'[n], seeking'[n], rejoin'[n], waits'[n])
<1>1. \A w \in live : Publisher \notin w.failed /\ (p # NoNode => Downwards(n, p, w))
  BY NodeFacts DEF SearchOK
<1>. QED  BY <1>1 DEF SearchOK, Searches

(* A search from scratch, with the node that was lost as the failed one.    *)
LEMMA FreshAskOK ==
  ASSUME NEW n \in Node, NEW failed \in SUBSET Node, Publisher \notin failed,
         NEW fwdNode, NEW periodic \in BOOLEAN
  PROVE  AskOK(n, NoNode, Ask(NobodyAttempted, failed, fwdNode, periodic))
BY DEF AskOK, Ask, NobodyAttempted

LEMMA InitEstablishes == Init => IInv
<1>. SUFFICES ASSUME Init
              PROVE  IInv
  OBVIOUS
<1>1. TypeOK
  BY DEF Init, TypeOK
<1>2. ASSUME NEW n \in Node
      PROVE  TreeOK(n, parent[n], ancestors[n], children[n])
  <2>1. IsFiniteSet({}) /\ Cardinality({}) = 0
    BY FS_EmptySet
  <2>2. Path(ancestors[n], n)
    <3>1. CASE n = Publisher
      BY <3>1 DEF Init, Path
    <3>2. CASE n # Publisher
      <4>1. ancestors[n] = <<Publisher>>
        BY <3>2 DEF Init
      <4>2. Rank[Publisher] < Rank[n]
        BY <3>2
      <4>. QED  BY <3>2, <4>1, <4>2 DEF Path
    <3>. QED  BY <3>1, <3>2
  <2>. QED  BY <2>1, <2>2 DEF Init, TreeOK
<1>3. ASSUME NEW n \in Node
      PROVE  SearchOK(n, online[n], pending[n], parent[n], seeking[n], rejoin[n], waits[n])
  BY DEF Init, SearchOK
<1>4. msgs = {}
  BY DEF Init
<1>. QED  BY <1>1, <1>2, <1>3, <1>4 DEF IInv, Bound

-----------------------------------------------------------------------------

(* Taking a child away, or messages, disturbs nothing else.                 *)
LEMMA FewerChildren ==
  ASSUME NEW n, NEW par, NEW anc, NEW ch, TreeOK(n, par, anc, ch), NEW some \in SUBSET ch
  PROVE  TreeOK(n, par, anc, some)
<1>1. IsFiniteSet(some) /\ Cardinality(some) <= Cardinality(ch)
      /\ Cardinality(some) \in Nat /\ Cardinality(ch) \in Nat
  BY FS_Subset, FS_CardinalityType DEF TreeOK
<1>. QED  BY <1>1 DEF TreeOK

(* Nor does losing the parent, except at the publisher.                     *)
LEMMA ParentLost ==
  ASSUME NEW n, NEW par, NEW anc, NEW ch, TreeOK(n, par, anc, ch), n # Publisher
  PROVE  TreeOK(n, NoNode, anc, ch)
BY DEF TreeOK

LEMMA LosePreserves ==
  ASSUME IInv, NEW m \in msgs, msgs' = msgs \ {m},
         UNCHANGED <<online, pending, parent, ancestors, children, seeking, rejoin, waits>>
  PROVE  IInv'
<1>1. TypeOK'
  BY DEF IInv, TypeOK
<1>2. \A n \in Node : Bound(n, waits'[n], msgs')
  BY BoundShrinks DEF IInv
<1>3. \A k \in msgs' : GoodMsg(k)
  BY DEF IInv
<1>. QED  BY <1>1, <1>2, <1>3 DEF IInv

(* A handler that ends in initiate_feed_join_req and changes nothing else.  *)
MayInitiate(n, isSeeking, p, ask, live, net) ==
  /\ n # Publisher
  /\ isSeeking \in BOOLEAN
  /\ live \subseteq waits[n] /\ net \subseteq msgs
  /\ isSeeking <=> live # {}
  /\ \A v, w \in live : v = w
  /\ AskOK(n, p, ask)
  /\ Initiate(n, isSeeking, p, ask, live, net)

SeeksOnly(n, isSeeking, ask, live, net) ==
  /\ MayInitiate(n, isSeeking, parent[n], ask, live, net)
  /\ online[n]
  /\ parent[n] # NoNode => pending[n] \/ rejoin[n]
  /\ UNCHANGED <<online, pending, parent, ancestors, children, rejoin>>

LEMMA SearchOnlyPreserves ==
  ASSUME IInv, NEW n \in Node, NEW isSeeking, NEW ask, NEW live, NEW net,
         SeeksOnly(n, isSeeking, ask, live, net)
  PROVE  IInv'
<1>. USE DEF SeeksOnly
<1>1. Searches(n, parent[n], live)
  BY NodeFacts, InitiateSearches DEF MayInitiate
<1>. USE DEF MayInitiate
<1>2. TypeOK'
  BY <1>1 DEF IInv, TypeOK, Searches, OnlySearchOf
<1>3. SearchOK(n, online'[n], pending'[n], parent'[n], seeking'[n], rejoin'[n], waits'[n])
  BY <1>1, SearchAfterInitiate
<1>4. TreeOK(n, parent'[n], ancestors'[n], children'[n])
  BY NodeFacts
<1>. QED  BY <1>1, <1>2, <1>3, <1>4, Frame DEF Searches

(* A handler that ends in initiate_feed_join_req after the node has lost    *)
(* its parent, and perhaps some children.                                   *)
SeeksAnew(n, isSeeking, ask, live, net, ch) ==
  /\ MayInitiate(n, isSeeking, NoNode, ask, live, net)
  /\ online' = [online EXCEPT ![n] = TRUE]
  /\ parent' = [parent EXCEPT ![n] = NoNode]
  /\ ch \subseteq children[n]
  /\ children' = [children EXCEPT ![n] = ch]
  /\ UNCHANGED <<pending, ancestors, rejoin>>

LEMMA SeeksAnewPreserves ==
  ASSUME IInv, NEW n \in Node, NEW isSeeking, NEW ask, NEW live, NEW net, NEW ch,
         SeeksAnew(n, isSeeking, ask, live, net, ch)
  PROVE  IInv'
<1>. USE DEF SeeksAnew
<1>1. Searches(n, NoNode, live)
  BY InitiateSearches DEF MayInitiate
<1>2. n # Publisher /\ live \subseteq waits[n]
  BY DEF MayInitiate
<1>3. /\ online'[n] /\ parent'[n] = NoNode /\ children'[n] = ch
      /\ \A k \in Node : k # n =>
           online'[k] = online[k] /\ parent'[k] = parent[k] /\ children'[k] = children[k]
  BY DEF IInv, TypeOK
<1>4. TypeOK'
  BY <1>1 DEF IInv, TypeOK, Searches, OnlySearchOf
<1>5. SearchOK(n, online'[n], pending'[n], parent'[n], seeking'[n], rejoin'[n], waits'[n])
  BY <1>1, <1>2, <1>3, SearchAfterInitiate
<1>6. TreeOK(n, parent'[n], ancestors'[n], children'[n])
  BY <1>2, <1>3, NodeFacts, ParentLost, FewerChildren
<1>. QED  BY <1>1, <1>3, <1>4, <1>5, <1>6, Frame DEF Searches

(* A live timer belongs to the only search of an online subscriber.         *)
LEMMA WaitFacts ==
  ASSUME IInv, NEW n \in Node, NEW w \in waits[n]
  PROVE  /\ n # Publisher /\ online[n]
         /\ waits[n] \ {w} = {}
         /\ w \in Wait
         /\ Publisher \notin w.failed
         /\ parent[n] # NoNode => Downwards(n, parent[n], w) /\ (pending[n] \/ rejoin[n])
<1>1. SearchOK(n, online[n], pending[n], parent[n], seeking[n], rejoin[n], waits[n])
  BY NodeFacts
<1>. QED  BY <1>1, NodeFacts DEF SearchOK

LEMMA NextFeedJoinPreserves ==
  ASSUME IInv, NEW n \in Node, NextFeedJoin(n)
  PROVE  IInv'
<1>. DEFINE ask == Ask(NobodyAttempted, {}, NoNode, FALSE)
<1>1. /\ pending[n]
      /\ pending' = [pending EXCEPT ![n] = FALSE]
      /\ parent' = [parent EXCEPT ![n] = NoNode]
      /\ Initiate(n, seeking[n], NoNode, ask, waits[n], msgs)
      /\ UNCHANGED <<online, ancestors, children, rejoin>>
  BY DEF NextFeedJoin
<1>2. /\ n # Publisher /\ online[n]
      /\ seeking[n] <=> waits[n] # {}
      /\ \A v, w \in waits[n] : v = w
      /\ seeking[n] \in BOOLEAN /\ rejoin[n] \in BOOLEAN
  BY <1>1, NodeFacts DEF SearchOK
<1>3. AskOK(n, NoNode, ask)
  BY FreshAskOK
<1>4. Searches(n, NoNode, waits[n])
  BY <1>1, <1>2, <1>3, InitiateSearches
<1>5. TypeOK'
  BY <1>1, <1>4 DEF IInv, TypeOK, Searches, OnlySearchOf
<1>6. /\ online'[n] /\ parent'[n] = NoNode
      /\ ancestors'[n] = ancestors[n] /\ children'[n] = children[n]
      /\ \A k \in Node : k # n =>
           /\ online'[k] = online[k] /\ pending'[k] = pending[k]
           /\ parent'[k] = parent[k] /\ ancestors'[k] = ancestors[k]
           /\ children'[k] = children[k] /\ rejoin'[k] = rejoin[k]
  BY <1>1, <1>2 DEF IInv, TypeOK
<1>7. SearchOK(n, online'[n], pending'[n], parent'[n], seeking'[n], rejoin'[n], waits'[n])
  BY <1>2, <1>4, <1>6, SearchAfterInitiate
<1>8. TreeOK(n, parent'[n], ancestors'[n], children'[n])
  BY <1>2, <1>6, ParentLost, NodeFacts
<1>. QED  BY <1>4, <1>5, <1>6, <1>7, <1>8, Frame DEF Searches

LEMMA PeriodicRejoinPreserves ==
  ASSUME IInv, NEW n \in Node, PeriodicRejoin(n)
  PROVE  IInv'
<1>1. /\ rejoin[n]
      /\ UNCHANGED <<online, pending, parent, ancestors, children, rejoin>>
  BY DEF PeriodicRejoin
<1>2. /\ online[n]
      /\ seeking[n] <=> waits[n] # {}
      /\ \A v, w \in waits[n] : v = w
      /\ seeking[n] \in BOOLEAN /\ rejoin[n] \in BOOLEAN /\ pending[n] \in BOOLEAN
      /\ parent[n] \in Node \cup {NoNode}
      /\ n = Publisher => parent[n] = Publisher
  BY <1>1, NodeFacts DEF SearchOK, TreeOK
<1>3. CASE parent[n] = Publisher /\ UNCHANGED <<seeking, waits, msgs>>
  BY <1>1, <1>3 DEF IInv, TypeOK
<1>4. ASSUME n # Publisher, NEW ask, AskOK(n, parent[n], ask),
             Initiate(n, seeking[n], parent[n], ask, waits[n], msgs)
      PROVE  IInv'
  <2>1. SeeksOnly(n, seeking[n], ask, waits[n], msgs)
    BY <1>1, <1>2, <1>4 DEF SeeksOnly, MayInitiate
  <2>. QED  BY <2>1, SearchOnlyPreserves
<1>5. ASSUME parent[n] = NoNode,
             Initiate(n, seeking[n], NoNode, Ask(NobodyAttempted, {}, NoNode, FALSE), waits[n], msgs)
      PROVE  IInv'
  <2>1. AskOK(n, parent[n], Ask(NobodyAttempted, {}, NoNode, FALSE))
    BY <1>5, FreshAskOK
  <2>. QED  BY <1>2, <1>4, <1>5, <2>1
<1>6. ASSUME parent[n] \notin {NoNode, Publisher}, NEW i \in 1..(Len(ancestors[n]) - 1),
             Initiate(n, seeking[n], parent[n],
                      Ask(NobodyAttempted, {}, ancestors[n][i], TRUE), waits[n], msgs)
      PROVE  IInv'
  <2>. DEFINE anc == ancestors[n]
              ask == Ask(NobodyAttempted, {}, anc[i], TRUE)
  <2>1. n # Publisher
    BY <1>2, <1>6
  <2>2. /\ anc \in Seq(Node) /\ anc[Len(anc)] = parent[n]
        /\ \A j \in 1..Len(anc) : Rank[anc[j]] < Rank[n]
        /\ \A j, k \in 1..Len(anc) : j < k => Rank[anc[j]] < Rank[anc[k]]
    BY <1>6, <2>1, NodeFacts DEF TreeOK, Path
  <2>3. i \in 1..Len(anc) /\ Len(anc) \in 1..Len(anc) /\ i < Len(anc)
    BY <2>2
  <2>4. anc[i] \in Node /\ Rank[anc[i]] < Rank[n] /\ Rank[anc[i]] < Rank[parent[n]]
    BY <2>2, <2>3
  <2>5. anc[i] # parent[n]
    BY <2>4, <1>2, <1>6
  <2>6. AskOK(n, parent[n], ask)
    BY <2>4, <2>5 DEF AskOK, Ask, NobodyAttempted
  <2>. QED  BY <1>4, <1>6, <2>1, <2>6
<1>. QED  BY <1>3, <1>5, <1>6 DEF PeriodicRejoin

(* peer_has_failed, called at a node that is online with a search that is   *)
(* in order.                                                                *)
FailureHandled(n, q, isSeeking, live) ==
  /\ isSeeking \in BOOLEAN
  /\ live \subseteq waits[n]
  /\ online[n] /\ q # n
  /\ isSeeking <=> live # {}
  /\ \A v, w \in live : v = w
  /\ n # Publisher => pending[n] \/ isSeeking \/ rejoin[n] \/ parent[n] = q
  /\ PeerHasFailed(n, q, isSeeking, live, msgs)
  /\ UNCHANGED <<online, pending, ancestors>>

LEMMA PeerHasFailedPreserves ==
  ASSUME IInv, NEW n \in Node, NEW q \in Node, NEW isSeeking, NEW live,
         FailureHandled(n, q, isSeeking, live)
  PROVE  IInv'
<1>. USE DEF FailureHandled
<1>. DEFINE ask == Ask(NobodyAttempted, {q}, GrandParent(n), FALSE)
<1>1. /\ children' = [children EXCEPT ![n] = children[n] \ {q}]
      /\ children'[n] = children[n] \ {q}
      /\ children' \in [Node -> SUBSET Node]
      /\ \A k \in Node : k # n => children'[k] = children[k]
  BY DEF PeerHasFailed, IInv, TypeOK
<1>2. /\ TreeOK(n, parent[n], ancestors[n], children'[n])
      /\ SearchOK(n, online[n], pending[n], parent[n], seeking[n], rejoin[n], waits[n])
  BY <1>1, NodeFacts, FewerChildren
<1>3. CASE parent[n] # q
  <2>1. Unchanging(n, isSeeking, live, msgs) /\ UNCHANGED <<parent, rejoin>>
    BY <1>3 DEF PeerHasFailed
  <2>2. OnlySearchOf(n) /\ seeking'[n] = isSeeking /\ waits'[n] = live
    <3>1. KeepsSearch(n, isSeeking, live, msgs)
      BY <2>1 DEF KeepsSearch
    <3>. QED  BY <3>1, UnchangingKeeps
  <2>3. TypeOK'
    BY <1>1, <2>1, <2>2 DEF IInv, TypeOK, OnlySearchOf
  <2>4. SearchOK(n, online'[n], pending'[n], parent'[n], seeking'[n], rejoin'[n], waits'[n])
    BY <1>2, <1>3, <2>1, <2>2 DEF SearchOK
  <2>. QED  BY <1>1, <1>2, <2>1, <2>2, <2>3, <2>4, Frame
<1>4. CASE parent[n] = q
  <2>1. n # Publisher
    BY <1>2, <1>4 DEF TreeOK
  <2>2. /\ parent' = [parent EXCEPT ![n] = NoNode]
        /\ parent'[n] = NoNode
        /\ parent' \in [Node -> Node \cup {NoNode}]
        /\ \A k \in Node : k # n => parent'[k] = parent[k]
    BY <1>4 DEF PeerHasFailed, IInv, TypeOK
  <2>3. TreeOK(n, parent'[n], ancestors'[n], children'[n])
    BY <1>2, <2>1, <2>2, ParentLost
  <2>4. CASE q = Publisher
    <3>1. /\ rejoin' = [rejoin EXCEPT ![n] = TRUE]
          /\ rejoin'[n] = TRUE
          /\ rejoin' \in [Node -> BOOLEAN]
          /\ \A k \in Node : k # n => rejoin'[k] = rejoin[k]
          /\ Unchanging(n, isSeeking, live, msgs)
      BY <1>4, <2>4 DEF PeerHasFailed, IInv, TypeOK
    <3>2. OnlySearchOf(n) /\ seeking'[n] = isSeeking /\ waits'[n] = live
      <4>1. KeepsSearch(n, isSeeking, live, msgs)
        BY <3>1 DEF KeepsSearch
      <4>. QED  BY <4>1, UnchangingKeeps
    <3>3. TypeOK'
      BY <1>1, <2>2, <3>1, <3>2 DEF IInv, TypeOK, OnlySearchOf
    <3>4. SearchOK(n, online'[n], pending'[n], parent'[n], seeking'[n], rejoin'[n], waits'[n])
      BY <1>2, <2>1, <2>2, <3>1, <3>2 DEF SearchOK
    <3>. QED  BY <1>1, <2>2, <2>3, <3>1, <3>2, <3>3, <3>4, Frame
  <2>5. CASE q # Publisher
    <3>1. Initiate(n, isSeeking, NoNode, ask, live, msgs) /\ rejoin' = rejoin
      BY <1>4, <2>5 DEF PeerHasFailed
    <3>2. AskOK(n, NoNode, ask)
      BY <2>5, FreshAskOK
    <3>3. Searches(n, NoNode, live)
      BY <3>1, <3>2, InitiateSearches
    <3>4. TypeOK'
      BY <1>1, <2>2, <3>1, <3>3 DEF IInv, TypeOK, Searches, OnlySearchOf
    <3>5. SearchOK(n, online'[n], pending'[n], parent'[n], seeking'[n], rejoin'[n], waits'[n])
      BY <2>1, <2>2, <3>3, SearchAfterInitiate
    <3>. QED  BY <1>1, <2>2, <2>3, <3>1, <3>3, <3>4, <3>5, Frame DEF Searches
  <2>. QED  BY <2>4, <2>5
<1>. QED  BY <1>3, <1>4

-----------------------------------------------------------------------------

(* A node that answers request m with r, and perhaps sends a directive,     *)
(* keeps the invariant if its children are left in order and it says        *)
(* nothing wrong.                                                           *)
Answers(m, r, more, ch) ==
  /\ m \in msgs /\ m.kind = "req"
  /\ r \in Message /\ GoodMsg(r) /\ r.kind \in {"ok", "deny", "fwd"}
  /\ r.src = m.dst /\ r.dst = m.src /\ r.timer = m.timer
  /\ more \subseteq Message
  /\ \A x \in more : GoodMsg(x) /\ x.kind = "change_parent"
  /\ msgs' = ((msgs \ {m}) \cup {r}) \cup more
  /\ ch \in SUBSET Node /\ children' = [children EXCEPT ![m.dst] = ch]
  /\ TreeOK(m.dst, parent[m.dst], ancestors[m.dst], ch)
  /\ UNCHANGED <<online, pending, parent, ancestors, seeking, rejoin, waits>>

LEMMA AnswerPreserves ==
  ASSUME IInv, NEW m, NEW r, NEW more, NEW ch, Answers(m, r, more, ch)
  PROVE  IInv'
<1>. USE DEF Answers
<1>. DEFINE n == m.dst
<1>1. m \in Message /\ n \in Node
  BY MessageFields DEF IInv, TypeOK
<1>2. ASSUME NEW k \in Node
      PROVE  Bound(k, waits'[k], msgs')
  <2>1. Bound(k, waits[k], (msgs \ {m}) \cup {r})
    BY BoundReply DEF IInv
  <2>. QED  BY <2>1, BoundIgnoresDirectives
<1>3. OnlySearchOf(n)
  BY <1>2 DEF OnlySearchOf, IInv, TypeOK
<1>4. TypeOK'
  BY <1>1 DEF IInv, TypeOK
<1>5. children'[n] = ch /\ \A k \in Node : k # n => children'[k] = children[k]
  BY <1>1 DEF IInv, TypeOK
<1>6. SearchOK(n, online'[n], pending'[n], parent'[n], seeking'[n], rejoin'[n], waits'[n])
  BY <1>1, NodeFacts
<1>7. TreeOK(n, parent'[n], ancestors'[n], children'[n])
  BY <1>5
<1>. QED  BY <1>1, <1>3, <1>4, <1>5, <1>6, <1>7, Frame

(* What a node tells whom it accepts as a child, or whom it passes on.      *)
LEMMA GoodOk ==
  ASSUME IInv, NEW n \in Node, NEW d \in Node, NEW id \in TimerIds, Rank[n] < Rank[d]
  PROVE  /\ JoinOk(n, d, id, ancestors[n]) \in Message
         /\ GoodMsg(JoinOk(n, d, id, ancestors[n]))
<1>1. Path(ancestors[n], n) /\ ancestors[n] \in Seq(Node)
  BY NodeFacts DEF TreeOK
<1>2. n # d
  BY PublisherIsClosest
<1>. QED  BY <1>1, <1>2, MessageTypes DEF GoodMsg, JoinOk

LEMMA GoodFwd ==
  ASSUME NEW n \in Node, NEW d \in Node, NEW id \in TimerIds, NEW f \in Node,
         n # d, f # d,
         Rank[n] < Rank[d] => Rank[n] < Rank[f] /\ Rank[f] < Rank[d]
  PROVE  JoinFwd(n, d, id, f) \in Message /\ GoodMsg(JoinFwd(n, d, id, f))
BY MessageTypes DEF GoodMsg, JoinFwd

LEMMA ReceiveJoinReqPreserves ==
  ASSUME IInv, NEW m \in msgs, ReceiveJoinReq(m)
  PROVE  IInv'
<1>. DEFINE n == m.dst
            s == m.src
            id == m.timer
            ch == children[n]
<1>1. /\ m.kind = "req" /\ s # n
      /\ n \in Node /\ s \in Node /\ id \in TimerIds /\ m.failed \in SUBSET Node
  <2>1. m \in Message /\ GoodMsg(m)
    BY DEF IInv, TypeOK
  <2>. QED  BY <2>1, MessageFields DEF ReceiveJoinReq, GoodMsg
<1>2. /\ TreeOK(n, parent[n], ancestors[n], ch)
      /\ parent[n] \in Node \cup {NoNode} /\ ch \in SUBSET Node
      /\ IsFiniteSet(ch) /\ Cardinality(ch) <= MaxChildren
      /\ \A c \in ch : Rank[n] < Rank[c] /\ c # n
  BY <1>1, NodeFacts, PublisherIsClosest DEF TreeOK
<1>3. /\ UNCHANGED <<online, pending, parent, ancestors, seeking, rejoin, waits>>
      /\ children = [children EXCEPT ![n] = ch]
  BY DEF ReceiveJoinReq, IInv, TypeOK
<1>4. ASSUME Rank[s] >= Rank[n]
      PROVE  Rank[n] < Rank[s]
  BY <1>1, <1>4
<1>5. ASSUME NEW r \in Message, GoodMsg(r), r.kind \in {"deny", "fwd"},
             r.src = n, r.dst = s, r.timer = id,
             msgs' = (msgs \ {m}) \cup {r}, UNCHANGED children
      PROVE  IInv'
  <2>1. Answers(m, r, {}, ch)
    BY <1>1, <1>2, <1>3, <1>5 DEF Answers
  <2>. QED  BY <2>1, AnswerPreserves
<1>6. CASE Denies(n, s) /\ msgs' = (msgs \ {m}) \cup {JoinDeny(n, s, id)} /\ UNCHANGED children
  <2>. DEFINE r == JoinDeny(n, s, id)
  <2>1. n # Publisher
    BY <1>1, <1>2, <1>6 DEF Denies, TreeOK
  <2>2. r \in Message /\ GoodMsg(r) /\ r.kind = "deny" /\ r.src = n /\ r.dst = s /\ r.timer = id
    BY <1>1, <2>1, MessageTypes DEF JoinDeny, GoodMsg
  <2>. QED  BY <1>5, <1>6, <2>2
<1>7. CASE /\ ~Denies(n, s) /\ Rank[s] < Rank[n]
           /\ msgs' = (msgs \ {m}) \cup {JoinFwd(n, s, id, parent[n])} /\ UNCHANGED children
  <2>. DEFINE r == JoinFwd(n, s, id, parent[n])
  <2>1. parent[n] \in Node /\ parent[n] # s
    BY <1>2, <1>7 DEF Denies
  <2>2. ~(Rank[n] < Rank[s])
    BY <1>1, <1>7
  <2>3. r \in Message /\ GoodMsg(r)
    BY <1>1, <2>1, <2>2, GoodFwd
  <2>4. r.kind = "fwd" /\ r.src = n /\ r.dst = s /\ r.timer = id
    BY DEF JoinFwd
  <2>. QED  BY <1>5, <1>7, <2>3, <2>4
<1>8. CASE /\ ~Denies(n, s) /\ Rank[s] >= Rank[n] /\ HasRoom(n, s)
           /\ children' = [children EXCEPT ![n] = @ \cup {s}]
           /\ msgs' = (msgs \ {m}) \cup {JoinOk(n, s, id, ancestors[n])}
  <2>. DEFINE r == JoinOk(n, s, id, ancestors[n])
  <2>1. r \in Message /\ GoodMsg(r)
    BY <1>1, <1>4, <1>8, GoodOk
  <2>2. r.kind = "ok" /\ r.src = n /\ r.dst = s /\ r.timer = id
    BY DEF JoinOk
  <2>3. IsFiniteSet(ch \cup {s}) /\ Cardinality(ch \cup {s}) <= MaxChildren
    <3>1. CASE s \in ch
      <4>1. ch \cup {s} = ch
        BY <3>1
      <4>. QED  BY <1>2, <4>1
    <3>2. CASE s \notin ch
      <4>1. Cardinality(ch) < MaxChildren
        BY <1>8, <3>2 DEF HasRoom
      <4>2. IsFiniteSet(ch \cup {s}) /\ Cardinality(ch \cup {s}) = Cardinality(ch) + 1
        BY <1>2, <3>2, FS_AddElement
      <4>3. Cardinality(ch) \in Nat
        BY <1>2, FS_CardinalityType
      <4>. QED  BY <4>1, <4>2, <4>3
    <3>. QED  BY <3>1, <3>2
  <2>4. TreeOK(n, parent[n], ancestors[n], ch \cup {s})
    BY <1>1, <1>2, <1>4, <1>8, <2>3 DEF TreeOK
  <2>5. msgs' = ((msgs \ {m}) \cup {r}) \cup {}
    BY <1>8
  <2>6. children' = [children EXCEPT ![n] = ch \cup {s}] /\ ch \cup {s} \in SUBSET Node
    BY <1>1, <1>2, <1>8
  <2>7. Answers(m, r, {}, ch \cup {s})
    BY <1>1, <1>3, <2>1, <2>2, <2>4, <2>5, <2>6 DEF Answers
  <2>. QED  BY <2>7, AnswerPreserves
<1>9. ASSUME ~Denies(n, s), Rank[s] >= Rank[n], ~HasRoom(n, s), ~SomeChildIsFarther(n, m),
             NEW c \in Alive(n, m.failed),
             msgs' = (msgs \ {m}) \cup {JoinFwd(n, s, id, c)}, UNCHANGED children
      PROVE  IInv'
  <2>. DEFINE r == JoinFwd(n, s, id, c)
  <2>1. c \in ch /\ c \in Node /\ s \notin ch
    BY <1>2, <1>9 DEF Alive, HasRoom
  <2>2. Rank[n] < Rank[c] /\ Rank[c] < Rank[s]
    BY <1>1, <1>2, <1>9, <2>1 DEF SomeChildIsFarther
  <2>3. r \in Message /\ GoodMsg(r)
    BY <1>1, <2>1, <2>2, GoodFwd
  <2>4. r.kind = "fwd" /\ r.src = n /\ r.dst = s /\ r.timer = id
    BY DEF JoinFwd
  <2>. QED  BY <1>5, <1>9, <2>3, <2>4
<1>10. ASSUME ~Denies(n, s), Rank[s] >= Rank[n], ~HasRoom(n, s), Replace(n, m)
       PROVE  IInv'
  <2>1. PICK f \in Alive(n, m.failed) :
          /\ children' = [children EXCEPT ![n] = (ch \ {f}) \cup {s}]
          /\ \E newParent \in ((ch \ {f}) \cup {s}) \ m.failed :
               msgs' = (msgs \ {m}) \cup
                 {JoinOk(n, s, id, ancestors[n]), ChangeParent(n, f, newParent)}
    BY <1>10 DEF Replace
  <2>2. PICK newParent \in ((ch \ {f}) \cup {s}) \ m.failed :
               msgs' = (msgs \ {m}) \cup
                 {JoinOk(n, s, id, ancestors[n]), ChangeParent(n, f, newParent)}
    BY <2>1
  <2>. DEFINE r == JoinOk(n, s, id, ancestors[n])
              x == ChangeParent(n, f, newParent)
              left == (ch \ {f}) \cup {s}
  <2>3. f \in ch /\ f \in Node /\ f # n /\ s \notin ch /\ newParent \in Node /\ newParent # f
    BY <1>1, <1>2, <1>10 DEF Alive, HasRoom
  <2>4. r \in Message /\ GoodMsg(r)
    BY <1>1, <1>4, <1>10, GoodOk
  <2>5. r.kind = "ok" /\ r.src = n /\ r.dst = s /\ r.timer = id
    BY DEF JoinOk
  <2>6. x \in Message /\ x.kind = "change_parent" /\ GoodMsg(x)
    BY <1>1, <2>3, DirectiveTypes DEF GoodMsg, ChangeParent
  <2>7. IsFiniteSet(left) /\ Cardinality(left) <= MaxChildren
    <3>. HIDE DEF ch
    <3>1. IsFiniteSet(ch \ {f}) /\ Cardinality(ch \ {f}) = Cardinality(ch) - 1
      <4>1. IsFiniteSet(ch) /\ f \in ch
        BY <1>2, <2>3
      <4>. QED  BY <4>1, FS_RemoveElement
    <3>2. IsFiniteSet(left) /\ Cardinality(left) = Cardinality(ch \ {f}) + 1
      BY <2>3, <3>1, FS_AddElement
    <3>3. Cardinality(ch) \in Nat
      BY <1>2, FS_CardinalityType
    <3>. QED  BY <1>2, <3>1, <3>2, <3>3
  <2>8. TreeOK(n, parent[n], ancestors[n], left)
    BY <1>1, <1>2, <1>4, <1>10, <2>7 DEF TreeOK
  <2>9. msgs' = ((msgs \ {m}) \cup {r}) \cup {x}
    BY <2>2
  <2>10. children' = [children EXCEPT ![n] = left] /\ left \in SUBSET Node
    BY <1>1, <1>2, <2>1
  <2>11. Answers(m, r, {x}, left)
    BY <1>1, <1>3, <2>4, <2>5, <2>6, <2>8, <2>9, <2>10 DEF Answers
  <2>. QED  BY <2>11, AnswerPreserves
<1>. QED
  BY <1>6, <1>7, <1>8, <1>9, <1>10 DEF ReceiveJoinReq

LEMMA ReceiveDenyPreserves ==
  ASSUME IInv, NEW m \in msgs, ReceiveDeny(m)
  PROVE  IInv'
<1>. DEFINE n == m.dst
<1>1. /\ m \in Message /\ GoodMsg(m) /\ m.kind = "deny"
      /\ n \in Node /\ m.src \in Node /\ m.src # Publisher
      /\ UNCHANGED <<online, pending, parent, ancestors, children, rejoin>>
  BY MessageFields DEF ReceiveDeny, IsReply, GoodMsg, IInv, TypeOK
<1>2. PICK w \in waits[n] :
        \/ /\ parent[n] # NoNode
           /\ Unchanging(n, FALSE, waits[n] \ {w}, msgs \ {m})
        \/ /\ parent[n] = NoNode
           /\ Initiate(n, FALSE, NoNode,
                       Ask(w.attempted, w.failed \cup {m.src}, NoNode, w.periodic),
                       waits[n] \ {w}, msgs \ {m})
  BY DEF ReceiveDeny
<1>3. /\ n # Publisher /\ online[n] /\ waits[n] \ {w} = {} /\ w \in Wait
      /\ Publisher \notin w.failed
      /\ parent[n] # NoNode => pending[n] \/ rejoin[n]
  BY <1>1, WaitFacts
<1>4. CASE parent[n] # NoNode
  <2>1. Unchanging(n, FALSE, {}, msgs \ {m})
    BY <1>2, <1>3, <1>4
  <2>2. OnlySearchOf(n) /\ seeking'[n] = FALSE /\ waits'[n] = {}
    <3>1. KeepsSearch(n, FALSE, {}, msgs \ {m})
      BY <2>1 DEF KeepsSearch
    <3>. QED  BY <1>1, <3>1, UnchangingKeeps
  <2>3. TypeOK'
    BY <1>1, <2>2 DEF IInv, TypeOK, OnlySearchOf
  <2>4. SearchOK(n, online'[n], pending'[n], parent'[n], seeking'[n], rejoin'[n], waits'[n])
    BY <1>1, <1>3, <1>4, <2>2 DEF SearchOK
  <2>. QED  BY <1>1, <2>2, <2>3, <2>4, NodeFacts, Frame
<1>5. CASE parent[n] = NoNode
  <2>. DEFINE ask == Ask(w.attempted, w.failed \cup {m.src}, NoNode, w.periodic)
  <2>1. AskOK(n, parent[n], ask)
    BY <1>1, <1>3, <1>5 DEF AskOK, Ask, Wait
  <2>2. Initiate(n, FALSE, parent[n], ask, {}, msgs \ {m})
    BY <1>2, <1>3, <1>5
  <2>. HIDE DEF ask
  <2>3. SeeksOnly(n, FALSE, ask, {}, msgs \ {m})
    BY <1>1, <1>3, <2>1, <2>2 DEF SeeksOnly, MayInitiate
  <2>. QED  BY <1>1, <2>3, SearchOnlyPreserves
<1>. QED  BY <1>4, <1>5

LEMMA ReceiveFwdPreserves ==
  ASSUME IInv, NEW m \in msgs, ReceiveFwd(m)
  PROVE  IInv'
<1>. DEFINE n == m.dst
<1>1. /\ m \in Message /\ GoodMsg(m) /\ m.kind = "fwd"
      /\ n \in Node /\ m.src \in Node /\ m.fwd_node \in Node /\ m.fwd_node # n
      /\ UNCHANGED <<online, pending, parent, ancestors, children, rejoin>>
  BY MessageFields DEF ReceiveFwd, IsReply, GoodMsg, IInv, TypeOK
<1>2. PICK w \in waits[n] :
        /\ Cancels(m, w)
        /\ \/ /\ parent[n] = m.fwd_node
              /\ Unchanging(n, FALSE, waits[n] \ {w}, msgs \ {m})
           \/ /\ parent[n] # m.fwd_node
              /\ Initiate(n, FALSE, parent[n], Ask(w.attempted, w.failed, m.fwd_node, FALSE),
                          waits[n] \ {w}, msgs \ {m})
  BY DEF ReceiveFwd
<1>3. /\ n # Publisher /\ online[n] /\ waits[n] \ {w} = {} /\ w \in Wait
      /\ Publisher \notin w.failed
      /\ parent[n] # NoNode => Downwards(n, parent[n], w) /\ (pending[n] \/ rejoin[n])
  BY <1>1, WaitFacts
<1>4. CASE parent[n] = m.fwd_node
  <2>1. Unchanging(n, FALSE, {}, msgs \ {m}) /\ parent[n] # NoNode
    BY <1>1, <1>2, <1>3, <1>4
  <2>2. OnlySearchOf(n) /\ seeking'[n] = FALSE /\ waits'[n] = {}
    <3>1. KeepsSearch(n, FALSE, {}, msgs \ {m})
      BY <2>1 DEF KeepsSearch
    <3>. QED  BY <1>1, <3>1, UnchangingKeeps
  <2>3. TypeOK'
    BY <1>1, <2>2 DEF IInv, TypeOK, OnlySearchOf
  <2>4. SearchOK(n, online'[n], pending'[n], parent'[n], seeking'[n], rejoin'[n], waits'[n])
    BY <1>1, <1>3, <2>1, <2>2 DEF SearchOK
  <2>. QED  BY <1>1, <2>2, <2>3, <2>4, NodeFacts, Frame
<1>5. CASE parent[n] # m.fwd_node
  <2>. DEFINE ask == Ask(w.attempted, w.failed, m.fwd_node, FALSE)
  <2>1. Initiate(n, FALSE, parent[n], ask, {}, msgs \ {m})
    BY <1>2, <1>3, <1>5
  <2>2. ASSUME parent[n] # NoNode
        PROVE  /\ w.failed = {} /\ Rank[m.fwd_node] < Rank[n]
               /\ \A t \in Node : w.attempted[t] > 0 => Rank[t] < Rank[m.fwd_node]
    <3>1. /\ w.failed = {} /\ Rank[w.target] < Rank[n]
          /\ \A t \in Node : w.attempted[t] > 0 => Rank[t] <= Rank[w.target]
      BY <1>3, <2>2 DEF Downwards
    <3>2. m.src = w.target
      BY <1>1, <1>2, NodeFacts DEF Bound, Cancels
    <3>3. Rank[w.target] < Rank[m.fwd_node] /\ Rank[m.fwd_node] < Rank[n]
      BY <1>1, <3>1, <3>2 DEF GoodMsg
    <3>4. Rank[w.target] \in Nat /\ Rank[m.fwd_node] \in Nat /\ \A t \in Node : Rank[t] \in Nat
      BY <1>1, <3>2
    <3>. QED  BY <3>1, <3>3, <3>4
  <2>3. AskOK(n, parent[n], ask)
    BY <1>1, <1>3, <1>5, <2>2 DEF AskOK, Ask, Wait
  <2>. HIDE DEF ask
  <2>4. SeeksOnly(n, FALSE, ask, {}, msgs \ {m})
    BY <1>1, <1>3, <2>1, <2>3 DEF SeeksOnly, MayInitiate
  <2>. QED  BY <1>1, <2>4, SearchOnlyPreserves
<1>. QED  BY <1>2, <1>4, <1>5

LEMMA ReceiveOkPreserves ==
  ASSUME IInv, NEW m \in msgs, ReceiveOk(m)
  PROVE  IInv'
<1>. DEFINE n == m.dst
            anc == Append(m.ancestors, m.src)
            leave == IF parent[n] = NoNode THEN {} ELSE {NoLongerYourChild(n, parent[n])}
            net == (msgs \ {m}) \cup leave \cup {FlushAncestry(n, c, anc) : c \in children[n]}
<1>1. /\ m \in Message /\ GoodMsg(m) /\ m.kind = "ok"
      /\ n \in Node /\ m.src \in Node
      /\ Path(m.ancestors, m.src) /\ Rank[m.src] < Rank[n]
      /\ parent' = [parent EXCEPT ![n] = m.src]
      /\ rejoin' = [rejoin EXCEPT ![n] = TRUE]
      /\ ancestors' = [ancestors EXCEPT ![n] = anc]
      /\ UNCHANGED <<online, pending, children>>
  BY MessageFields DEF ReceiveOk, IsReply, GoodMsg, IInv, TypeOK
<1>2. PICK w \in waits[n] : Unchanging(n, FALSE, waits[n] \ {w}, net)
  BY DEF ReceiveOk
<1>3. n # Publisher /\ online[n] /\ waits[n] \ {w} = {}
  BY <1>1, WaitFacts
<1>4. Path(anc, n) /\ anc[Len(anc)] = m.src /\ anc \in Seq(Node)
  <2>1. Path(anc, n) /\ anc[Len(anc)] = m.src
    BY <1>1, PathExtends
  <2>. QED  BY <2>1 DEF Path
<1>5. /\ children[n] \in SUBSET Node /\ parent[n] \in Node \cup {NoNode}
      /\ \A c \in children[n] : Rank[n] < Rank[c] /\ c # n
      /\ parent[n] # NoNode => parent[n] # n
  <2>1. TreeOK(n, parent[n], ancestors[n], children[n])
    BY <1>1, NodeFacts
  <2>2. parent[n] # NoNode => Rank[parent[n]] < Rank[n]
    <3>1. /\ Path(ancestors[n], n)
          /\ parent[n] # NoNode => ancestors[n][Len(ancestors[n])] = parent[n]
      BY <1>3, <2>1 DEF TreeOK
    <3>2. Len(ancestors[n]) \in 1..Len(ancestors[n])
      BY <1>3, <3>1 DEF Path
    <3>. QED  BY <3>1, <3>2 DEF Path
  <2>. QED  BY <1>1, <2>1, <2>2, NodeFacts, PublisherIsClosest DEF TreeOK
<1>6. ASSUME NEW x \in net
      PROVE  \/ x \in msgs
             \/ /\ x \in Message /\ GoodMsg(x)
                /\ x.kind \in {"change_parent", "no_longer_your_child", "flush"}
  <2>1. CASE x \in msgs
    BY <2>1
  <2>2. CASE parent[n] # NoNode /\ x = NoLongerYourChild(n, parent[n])
    BY <1>1, <1>5, <2>2, DirectiveTypes DEF NoLongerYourChild, GoodMsg
  <2>3. ASSUME NEW c \in children[n], x = FlushAncestry(n, c, anc)
        PROVE  x \in Message /\ GoodMsg(x) /\ x.kind = "flush"
    <3>1. c \in Node /\ c # n
      BY <1>5
    <3>2. x \in Message
      BY <1>1, <1>4, <2>3, <3>1, DirectiveTypes
    <3>3. x.kind = "flush" /\ x.src = n /\ x.dst = c /\ x.ancestors = anc
      BY <2>3 DEF FlushAncestry
    <3>. HIDE DEF anc
    <3>. QED  BY <1>4, <3>1, <3>2, <3>3 DEF GoodMsg
  <2>. QED  BY <2>1, <2>2, <2>3
<1>7. OnlySearchOf(n) /\ seeking'[n] = FALSE /\ waits'[n] = {}
  <2>. HIDE DEF net
  <2>1. KeepsSearch(n, FALSE, {}, net)
    BY <1>2, <1>3, <1>6 DEF KeepsSearch
  <2>. QED  BY <1>1, <2>1, UnchangingKeeps
<1>8. /\ parent'[n] = m.src /\ rejoin'[n] = TRUE /\ ancestors'[n] = anc
      /\ \A k \in Node : k # n =>
           /\ parent'[k] = parent[k] /\ rejoin'[k] = rejoin[k] /\ ancestors'[k] = ancestors[k]
  BY <1>1 DEF IInv, TypeOK
<1>9. TypeOK'
  BY <1>1, <1>4, <1>7 DEF IInv, TypeOK, OnlySearchOf
<1>10. TreeOK(n, parent'[n], ancestors'[n], children'[n])
  <2>. HIDE DEF anc
  <2>. QED  BY <1>1, <1>3, <1>4, <1>8, NodeFacts DEF TreeOK
<1>11. SearchOK(n, online'[n], pending'[n], parent'[n], seeking'[n], rejoin'[n], waits'[n])
  BY <1>1, <1>3, <1>7, <1>8 DEF SearchOK
<1>. QED  BY <1>1, <1>7, <1>8, <1>9, <1>10, <1>11, Frame

LEMMA ReceiveChangeParentPreserves ==
  ASSUME IInv, NEW m \in msgs, ReceiveChangeParent(m)
  PROVE  IInv'
<1>. DEFINE n == m.dst
            ask == Ask(NobodyAttempted, {}, m.new_parent, FALSE)
<1>1. /\ GoodMsg(m) /\ n \in Node /\ online[n] /\ m.src # n
      /\ UNCHANGED <<online, pending, ancestors, children, rejoin>>
  BY MessageFields DEF ReceiveChangeParent, GoodMsg, IInv, TypeOK
<1>2. /\ TreeOK(n, parent[n], ancestors[n], children[n])
      /\ SearchOK(n, online[n], pending[n], parent[n], seeking[n], rejoin[n], waits[n])
      /\ seeking[n] \in BOOLEAN
  BY <1>1, NodeFacts
<1>3. CASE Unchanging(n, seeking[n], waits[n], msgs \ {m}) /\ UNCHANGED parent
  <2>1. KeepsSearch(n, seeking[n], waits[n], msgs \ {m})
    BY <1>2, <1>3 DEF KeepsSearch
  <2>2. OnlySearchOf(n) /\ seeking'[n] = seeking[n] /\ waits'[n] = waits[n]
    BY <1>1, <2>1, UnchangingKeeps
  <2>3. TypeOK'
    BY <1>1, <1>3, <2>2 DEF IInv, TypeOK, OnlySearchOf
  <2>4. SearchOK(n, online'[n], pending'[n], parent'[n], seeking'[n], rejoin'[n], waits'[n])
    BY <1>1, <1>2, <1>3, <2>2
  <2>. QED  BY <1>1, <1>2, <1>3, <2>2, <2>3, <2>4, Frame
<1>4. CASE /\ parent[n] = m.src
           /\ parent' = [parent EXCEPT ![n] = NoNode]
           /\ Initiate(n, seeking[n], NoNode, ask, waits[n], msgs \ {m})
  <2>1. n # Publisher
    BY <1>1, <1>2, <1>4 DEF TreeOK
  <2>2. AskOK(n, NoNode, ask)
    BY <1>1, FreshAskOK
  <2>. HIDE DEF ask
  <2>3. MayInitiate(n, seeking[n], NoNode, ask, waits[n], msgs \ {m})
    BY <1>1, <1>2, <1>4, <2>1, <2>2 DEF MayInitiate, SearchOK
  <2>4. /\ online' = [online EXCEPT ![n] = TRUE]
        /\ children' = [children EXCEPT ![n] = children[n]]
    BY <1>1 DEF IInv, TypeOK
  <2>5. SeeksAnew(n, seeking[n], ask, waits[n], msgs \ {m}, children[n])
    BY <1>1, <1>4, <2>3, <2>4 DEF SeeksAnew
  <2>. QED  BY <1>1, <2>5, SeeksAnewPreserves
<1>. QED  BY <1>3, <1>4 DEF ReceiveChangeParent

LEMMA ReceiveNoLongerYourChildPreserves ==
  ASSUME IInv, NEW m \in msgs, ReceiveNoLongerYourChild(m)
  PROVE  IInv'
<1>. DEFINE n == m.dst
<1>1. /\ n \in Node
      /\ children' = [children EXCEPT ![n] = @ \ {m.src}]
      /\ msgs' = msgs \ {m}
      /\ UNCHANGED <<online, pending, parent, ancestors, seeking, rejoin, waits>>
  BY MessageFields DEF ReceiveNoLongerYourChild, IInv, TypeOK
<1>2. /\ children'[n] = children[n] \ {m.src}
      /\ \A k \in Node : k # n => children'[k] = children[k]
      /\ children' \in [Node -> SUBSET Node]
  BY <1>1 DEF IInv, TypeOK
<1>3. Unchanging(n, seeking[n], waits[n], msgs \ {m})
  BY <1>1 DEF Unchanging, IInv, TypeOK
<1>4. KeepsSearch(n, seeking[n], waits[n], msgs \ {m})
  BY <1>1, <1>3, NodeFacts DEF KeepsSearch
<1>5. OnlySearchOf(n)
  BY <1>1, <1>4, UnchangingKeeps
<1>6. TypeOK'
  BY <1>1, <1>2 DEF IInv, TypeOK
<1>7. TreeOK(n, parent'[n], ancestors'[n], children'[n])
  BY <1>1, <1>2, NodeFacts, FewerChildren
<1>8. SearchOK(n, online'[n], pending'[n], parent'[n], seeking'[n], rejoin'[n], waits'[n])
  BY <1>1, NodeFacts
<1>. QED  BY <1>1, <1>2, <1>5, <1>6, <1>7, <1>8, Frame

LEMMA ReceiveFlushAncestryPreserves ==
  ASSUME IInv, NEW m \in msgs, ReceiveFlushAncestry(m)
  PROVE  IInv'
<1>. DEFINE n == m.dst
            anc == Append(m.ancestors, m.src)
            net == (msgs \ {m}) \cup {FlushAncestry(n, c, anc) : c \in children[n]}
<1>1. /\ GoodMsg(m) /\ m.kind = "flush" /\ n \in Node /\ m.src \in Node /\ m.src # n
      /\ Path(m.ancestors, m.src)
      /\ UNCHANGED <<online, pending, parent, children, seeking, rejoin, waits>>
  BY MessageFields DEF ReceiveFlushAncestry, GoodMsg, IInv, TypeOK
<1>2. /\ TreeOK(n, parent[n], ancestors[n], children[n])
      /\ SearchOK(n, online[n], pending[n], parent[n], seeking[n], rejoin[n], waits[n])
  BY <1>1, NodeFacts
<1>3. CASE msgs' = msgs \ {m} /\ UNCHANGED ancestors
  BY <1>1, <1>3, LosePreserves
<1>4. CASE /\ parent[n] = m.src
           /\ ancestors' = [ancestors EXCEPT ![n] = anc]
           /\ msgs' = net
  <2>1. n # Publisher
    BY <1>1, <1>2, <1>4 DEF TreeOK
  <2>2. Rank[m.src] < Rank[n]
    <3>1. /\ Path(ancestors[n], n)
          /\ ancestors[n][Len(ancestors[n])] = m.src
      BY <1>1, <1>2, <1>4, <2>1 DEF TreeOK
    <3>2. Len(ancestors[n]) \in 1..Len(ancestors[n])
      BY <2>1, <3>1 DEF Path
    <3>. QED  BY <3>1, <3>2 DEF Path
  <2>3. Path(anc, n) /\ anc[Len(anc)] = m.src
    BY <1>1, <2>2, PathExtends
  <2>4. anc \in Seq(Node)
    BY <2>3 DEF Path
  <2>5. \A c \in children[n] : c \in Node /\ c # n
    BY <1>1, <1>2, NodeFacts, PublisherIsClosest DEF TreeOK
  <2>. HIDE DEF anc
  <2>6. ASSUME NEW c \in children[n], NEW x, x = FlushAncestry(n, c, anc)
        PROVE  x \in Message /\ GoodMsg(x) /\ x.kind = "flush"
    <3>1. x \in Message
      BY <1>1, <2>4, <2>5, <2>6, DirectiveTypes
    <3>2. x.kind = "flush" /\ x.src = n /\ x.dst = c /\ x.ancestors = anc
      BY <2>6 DEF FlushAncestry
    <3>. QED  BY <2>3, <2>5, <3>1, <3>2 DEF GoodMsg
  <2>7. \A x \in net : x \in msgs \/ (x \in Message /\ GoodMsg(x) /\ x.kind = "flush")
    BY <2>6
  <2>. HIDE DEF net
  <2>8. Unchanging(n, seeking[n], waits[n], net)
    BY <1>1, <1>4 DEF Unchanging, IInv, TypeOK
  <2>9. KeepsSearch(n, seeking[n], waits[n], net)
    BY <1>1, <2>7, <2>8, NodeFacts DEF KeepsSearch
  <2>10. OnlySearchOf(n)
    BY <1>1, <2>9, UnchangingKeeps
  <2>11. ancestors'[n] = anc /\ (\A k \in Node : k # n => ancestors'[k] = ancestors[k])
         /\ ancestors' \in [Node -> Seq(Node)]
    BY <1>1, <1>4, <2>4 DEF IInv, TypeOK
  <2>12. TypeOK'
    BY <1>1, <2>10, <2>11 DEF IInv, TypeOK, OnlySearchOf
  <2>13. TreeOK(n, parent'[n], ancestors'[n], children'[n])
    BY <1>1, <1>2, <1>4, <2>1, <2>3, <2>11 DEF TreeOK
  <2>14. SearchOK(n, online'[n], pending'[n], parent'[n], seeking'[n], rejoin'[n], waits'[n])
    BY <1>1, <1>2
  <2>. QED  BY <1>1, <2>10, <2>11, <2>12, <2>13, <2>14, Frame
<1>. QED  BY <1>3, <1>4 DEF ReceiveFlushAncestry

-----------------------------------------------------------------------------

LEMMA JoinReqTimeoutPreserves ==
  ASSUME IInv, NEW n \in Node, NEW w \in waits[n], JoinReqTimeout(n, w)
  PROVE  IInv'
<1>. DEFINE t == w.target
<1>1. /\ n # Publisher /\ online[n] /\ waits[n] \ {w} = {} /\ w \in Wait
      /\ t \in Node /\ Publisher \notin w.failed
      /\ parent[n] # NoNode => Downwards(n, parent[n], w) /\ (pending[n] \/ rejoin[n])
      /\ UNCHANGED <<online, pending, ancestors>>
  BY WaitFacts DEF JoinReqTimeout, Wait
<1>2. CASE /\ parent[n] = NoNode /\ t # Publisher
           /\ children' = [children EXCEPT ![n] = @ \ {t}]
           /\ Initiate(n, FALSE, NoNode,
                       Ask(w.attempted, w.failed \cup {t}, NoNode, w.periodic), {}, msgs)
           /\ UNCHANGED <<parent, rejoin>>
  <2>. DEFINE ask == Ask(w.attempted, w.failed \cup {t}, NoNode, w.periodic)
              ch == children[n] \ {t}
  <2>1. AskOK(n, NoNode, ask)
    BY <1>1, <1>2 DEF AskOK, Ask, Wait
  <2>2. Initiate(n, FALSE, NoNode, ask, {}, msgs)
    BY <1>2
  <2>. HIDE DEF ask
  <2>3. MayInitiate(n, FALSE, NoNode, ask, {}, msgs)
    BY <1>1, <2>1, <2>2 DEF MayInitiate
  <2>4. /\ online' = [online EXCEPT ![n] = TRUE] /\ parent' = [parent EXCEPT ![n] = NoNode]
        /\ children' = [children EXCEPT ![n] = ch] /\ ch \subseteq children[n]
    BY <1>1, <1>2 DEF IInv, TypeOK
  <2>. HIDE DEF ch
  <2>5. SeeksAnew(n, FALSE, ask, {}, msgs, ch)
    BY <1>1, <1>2, <2>3, <2>4 DEF SeeksAnew
  <2>. QED  BY <2>5, SeeksAnewPreserves
<1>3. CASE parent[n] # NoNode /\ PeerHasFailed(n, t, FALSE, {}, msgs)
  <2>1. t # n
    BY <1>1, <1>3, PublisherIsClosest DEF Downwards
  <2>2. FailureHandled(n, t, FALSE, {})
    BY <1>1, <1>3, <2>1 DEF FailureHandled
  <2>. QED  BY <1>1, <2>2, PeerHasFailedPreserves
<1>4. CASE /\ t = Publisher
           /\ children' = [children EXCEPT ![n] = @ \ {Publisher}]
           /\ parent' = [parent EXCEPT ![n] = IF @ = Publisher THEN NoNode ELSE @]
           /\ rejoin' = [rejoin EXCEPT ![n] = TRUE]
           /\ Unchanging(n, FALSE, {}, msgs)
  <2>1. KeepsSearch(n, FALSE, {}, msgs)
    BY <1>4 DEF KeepsSearch
  <2>2. OnlySearchOf(n) /\ seeking'[n] = FALSE /\ waits'[n] = {}
    BY <2>1, UnchangingKeeps
  <2>3. /\ children'[n] \subseteq children[n] /\ rejoin'[n] = TRUE
        /\ parent'[n] \in {parent[n], NoNode}
        /\ children' \in [Node -> SUBSET Node] /\ rejoin' \in [Node -> BOOLEAN]
        /\ parent' \in [Node -> Node \cup {NoNode}]
        /\ \A k \in Node : k # n =>
             children'[k] = children[k] /\ parent'[k] = parent[k] /\ rejoin'[k] = rejoin[k]
    BY <1>4 DEF IInv, TypeOK
  <2>4. TypeOK'
    BY <1>1, <2>2, <2>3 DEF IInv, TypeOK, OnlySearchOf
  <2>5. TreeOK(n, parent'[n], ancestors'[n], children'[n])
    BY <1>1, <2>3, NodeFacts, FewerChildren, ParentLost
  <2>6. SearchOK(n, online'[n], pending'[n], parent'[n], seeking'[n], rejoin'[n], waits'[n])
    BY <1>1, <2>2, <2>3 DEF SearchOK
  <2>. QED  BY <1>1, <2>2, <2>3, <2>4, <2>5, <2>6, Frame
<1>. QED  BY <1>1, <1>2, <1>3, <1>4 DEF JoinReqTimeout

LEMMA PeerTimeoutPreserves ==
  ASSUME IInv, NEW n \in Node, NEW q \in Node, PeerTimeout(n, q)
  PROVE  IInv'
<1>1. /\ seeking[n] \in BOOLEAN
      /\ SearchOK(n, online[n], pending[n], parent[n], seeking[n], rejoin[n], waits[n])
  BY NodeFacts
<1>2. FailureHandled(n, q, seeking[n], waits[n])
  BY <1>1 DEF PeerTimeout, FailureHandled, SearchOK
<1>. QED  BY <1>2, PeerHasFailedPreserves

LEMMA TakeOfflinePreserves ==
  ASSUME IInv, NEW n \in Node, TakeOffline(n)
  PROVE  IInv'
<1>1. TypeOK'
  BY DEF TakeOffline, IInv, TypeOK
<1>2. /\ online'[n] = FALSE /\ pending'[n] = FALSE /\ rejoin'[n] = FALSE /\ waits'[n] = {}
      /\ \A k \in Node : k # n =>
           /\ online'[k] = online[k] /\ pending'[k] = pending[k]
           /\ rejoin'[k] = rejoin[k] /\ waits'[k] = waits[k]
      /\ UNCHANGED <<parent, ancestors, children, seeking, msgs>>
  BY DEF TakeOffline, IInv, TypeOK
<1>3. SearchOK(n, online'[n], pending'[n], parent'[n], seeking'[n], rejoin'[n], waits'[n])
  BY <1>2, NodeFacts DEF SearchOK
<1>4. \A k \in Node : Bound(k, waits'[k], msgs')
  BY <1>2 DEF IInv, Bound
<1>5. OnlySearchOf(n)
  BY <1>1, <1>2, <1>4 DEF OnlySearchOf, IInv, TypeOK
<1>6. TreeOK(n, parent'[n], ancestors'[n], children'[n])
  BY <1>2, NodeFacts
<1>. QED  BY <1>1, <1>2, <1>3, <1>5, <1>6, Frame

LEMMA BringOnlinePreserves ==
  ASSUME IInv, NEW n \in Node, BringOnline(n)
  PROVE  IInv'
<1>1. /\ ~online[n] /\ waits[n] = {}
      /\ TreeOK(n, parent[n], ancestors[n], children[n])
      /\ SearchOK(n, online[n], pending[n], parent[n], seeking[n], rejoin[n], waits[n])
  BY NodeFacts DEF BringOnline, SearchOK
<1>2. /\ online' = [online EXCEPT ![n] = TRUE]
      /\ online'[n] = TRUE /\ children'[n] = {}
      /\ online' \in [Node -> BOOLEAN] /\ children' \in [Node -> SUBSET Node]
      /\ \A k \in Node : k # n => online'[k] = online[k] /\ children'[k] = children[k]
      /\ UNCHANGED <<ancestors, rejoin>>
  BY DEF BringOnline, IInv, TypeOK
<1>3. TreeOK(n, parent[n], ancestors'[n], children'[n])
  BY <1>1, <1>2, FewerChildren
<1>4. CASE n = Publisher /\ UNCHANGED <<pending, parent, seeking, waits, msgs>>
  <2>1. TypeOK'
    BY <1>2, <1>4 DEF IInv, TypeOK
  <2>2. OnlySearchOf(n)
    BY <2>1, <1>4 DEF OnlySearchOf, IInv, TypeOK
  <2>3. SearchOK(n, online'[n], pending'[n], parent'[n], seeking'[n], rejoin'[n], waits'[n])
    BY <1>1, <1>2, <1>4, NodeFacts DEF SearchOK
  <2>. QED  BY <1>2, <1>3, <1>4, <2>1, <2>2, <2>3, Frame
<1>5. CASE /\ n # Publisher
           /\ pending' = [pending EXCEPT ![n] = TRUE]
           /\ Unchanging(n, FALSE, waits[n], msgs)
           /\ UNCHANGED parent
  <2>1. KeepsSearch(n, FALSE, waits[n], msgs)
    BY <1>5 DEF KeepsSearch
  <2>2. OnlySearchOf(n) /\ seeking'[n] = FALSE /\ waits'[n] = {}
    BY <1>1, <2>1, UnchangingKeeps
  <2>3. /\ pending'[n] = TRUE /\ pending' \in [Node -> BOOLEAN]
        /\ \A k \in Node : k # n => pending'[k] = pending[k]
    BY <1>5 DEF IInv, TypeOK
  <2>4. TypeOK'
    BY <1>2, <1>5, <2>2, <2>3 DEF IInv, TypeOK, OnlySearchOf
  <2>5. SearchOK(n, online'[n], pending'[n], parent'[n], seeking'[n], rejoin'[n], waits'[n])
    BY <1>2, <1>5, <2>2, <2>3 DEF SearchOK
  <2>. QED  BY <1>2, <1>3, <1>5, <2>2, <2>3, <2>4, <2>5, Frame
<1>6. CASE /\ n # Publisher
           /\ parent' = [parent EXCEPT ![n] = NoNode]
           /\ Initiate(n, FALSE, NoNode, Ask(NobodyAttempted, {}, parent[n], FALSE), waits[n], msgs)
           /\ UNCHANGED pending
  <2>. DEFINE ask == Ask(NobodyAttempted, {}, parent[n], FALSE)
  <2>1. AskOK(n, NoNode, ask)
    BY FreshAskOK
  <2>. HIDE DEF ask
  <2>2. Initiate(n, FALSE, NoNode, ask, waits[n], msgs)
    BY <1>6 DEF ask
  <2>3. MayInitiate(n, FALSE, NoNode, ask, waits[n], msgs)
    BY <1>1, <1>6, <2>1, <2>2 DEF MayInitiate
  <2>4. children' = [children EXCEPT ![n] = {}]
    BY DEF BringOnline
  <2>5. SeeksAnew(n, FALSE, ask, waits[n], msgs, {})
    BY <1>2, <1>6, <2>3, <2>4 DEF SeeksAnew
  <2>. QED  BY <2>5, SeeksAnewPreserves
<1>. QED  BY <1>4, <1>5, <1>6 DEF BringOnline

LEMMA NextPreserves == IInv /\ [Next]_vars => IInv'
<1>. SUFFICES ASSUME IInv, [Next]_vars
              PROVE  IInv'
  OBVIOUS
<1>1. ASSUME NEW m \in msgs, Deliver(m)
      PROVE  IInv'
  <2>1. CASE ReceiveJoinReq(m)
    BY <2>1, ReceiveJoinReqPreserves
  <2>2. CASE ReceiveLateReply(m)
    BY <2>2, LosePreserves DEF ReceiveLateReply
  <2>3. CASE ReceiveDeny(m)
    BY <2>3, ReceiveDenyPreserves
  <2>4. CASE ReceiveOk(m)
    BY <2>4, ReceiveOkPreserves
  <2>5. CASE ReceiveFwd(m)
    BY <2>5, ReceiveFwdPreserves
  <2>6. CASE ReceiveChangeParent(m)
    BY <2>6, ReceiveChangeParentPreserves
  <2>7. CASE ReceiveNoLongerYourChild(m)
    BY <2>7, ReceiveNoLongerYourChildPreserves
  <2>8. CASE ReceiveFlushAncestry(m)
    BY <2>8, ReceiveFlushAncestryPreserves
  <2>. QED  BY <1>1, <2>1, <2>2, <2>3, <2>4, <2>5, <2>6, <2>7, <2>8 DEF Deliver
<1>2. ASSUME NEW m \in msgs, Lose(m)
      PROVE  IInv'
  BY <1>2, LosePreserves DEF Lose
<1>3. ASSUME NEW n \in Node, NextFeedJoin(n)
      PROVE  IInv'
  BY <1>3, NextFeedJoinPreserves
<1>4. ASSUME NEW n \in Node, PeriodicRejoin(n)
      PROVE  IInv'
  BY <1>4, PeriodicRejoinPreserves
<1>5. ASSUME NEW n \in Node, TakeOffline(n)
      PROVE  IInv'
  BY <1>5, TakeOfflinePreserves
<1>6. ASSUME NEW n \in Node, BringOnline(n)
      PROVE  IInv'
  BY <1>6, BringOnlinePreserves
<1>7. ASSUME NEW n \in Node, NEW w \in waits[n], JoinReqTimeout(n, w)
      PROVE  IInv'
  BY <1>7, JoinReqTimeoutPreserves
<1>8. ASSUME NEW n \in Node, NEW q \in Node, PeerTimeout(n, q)
      PROVE  IInv'
  BY <1>8, PeerTimeoutPreserves
<1>9. CASE UNCHANGED vars
  BY <1>9 DEF vars, IInv, TypeOK
<1>. QED  BY <1>1, <1>2, <1>3, <1>4, <1>5, <1>6, <1>7, <1>8, <1>9 DEF Next

-----------------------------------------------------------------------------

(* IInv holds of every reachable state.                                     *)
THEOREM Invariance == Spec => []IInv
<1>1. Init => IInv
  BY InitEstablishes
<1>2. IInv /\ [Next]_vars => IInv'
  BY NextPreserves
<1>. QED  BY <1>1, <1>2, PTL DEF Spec

(* Every variable always holds values of its type.                          *)
THEOREM TypeCorrect == Spec => []TypeOK
<1>1. IInv => TypeOK
  BY DEF IInv
<1>. QED  BY <1>1, Invariance, PTL

(* However messages are delayed, lost and reordered and whoever fails or is *)
(* thought to, the assertion of timer_periodic_garbage_collect holds: an    *)
(* online subscriber waits for its turn, seeks, or will rejoin.             *)
THEOREM SubscriberNeverStuck == Spec => []NeverStuck
<1>1. IInv => NeverStuck
  BY NodeFacts DEF NeverStuck, SearchOK, Subscriber
<1>. QED  BY <1>1, Invariance, PTL

(* A node never has two join timers at once, and it has one exactly while   *)
(* it is seeking, so initiate_feed_join_req never refuses to search for a   *)
(* node whose search is over.                                               *)
THEOREM SearchIsUnique == Spec => []OneSearch
<1>1. IInv => OneSearch
  BY NodeFacts DEF OneSearch, SearchOK
<1>. QED  BY <1>1, Invariance, PTL

(* The assertions of Feed::set_ancestors and Feed::set_parent hold in every *)
(* tree: an ancestor list leads from the publisher to the parent without    *)
(* a cycle, every node on it farther from the publisher than the last.      *)
THEOREM AncestryHasNoCycle == Spec => []AncestorsDescend
<1>1. IInv => AncestorsDescend
  <2>. SUFFICES ASSUME IInv, NEW n \in Subscriber
                PROVE  LET anc == ancestors[n]
                       IN  /\ anc # <<>> /\ anc[1] = Publisher
                           /\ parent[n] # NoNode => anc[Len(anc)] = parent[n] /\ Rank[parent[n]] < Rank[n]
                           /\ \A i \in 1..Len(anc) : anc[i] # n
                           /\ \A i, j \in 1..Len(anc) : i < j => Rank[anc[i]] < Rank[anc[j]]
    BY DEF AncestorsDescend
  <2>. DEFINE anc == ancestors[n]
  <2>1. n \in Node /\ n # Publisher
    BY DEF Subscriber
  <2>2. /\ Path(anc, n)
        /\ parent[n] # NoNode => anc[Len(anc)] = parent[n]
    BY <2>1, NodeFacts DEF TreeOK
  <2>3. /\ anc \in Seq(Node) /\ anc # <<>> /\ anc[1] = Publisher
        /\ \A i \in 1..Len(anc) : Rank[anc[i]] < Rank[n]
        /\ \A i, j \in 1..Len(anc) : i < j => Rank[anc[i]] < Rank[anc[j]]
    BY <2>1, <2>2 DEF Path
  <2>4. Len(anc) \in 1..Len(anc) /\ \A i \in 1..Len(anc) : anc[i] \in Node
    BY <2>3
  <2>5. \A i \in 1..Len(anc) : anc[i] # n
    BY <2>1, <2>3, <2>4, PublisherIsClosest
  <2>. QED  BY <2>2, <2>3, <2>4, <2>5
<1>. QED  BY <1>1, Invariance, PTL

(* No node ever has more children than rappel_num_feed_children, nor a      *)
(* child that is its parent.                                                *)
THEOREM FanOutIsBounded == Spec => []ChildrenBounded
<1>1. IInv => ChildrenBounded
  <2>. SUFFICES ASSUME IInv, NEW n \in Node
                PROVE  Cardinality(children[n]) <= MaxChildren /\ parent[n] \notin children[n] \ {Publisher}
    BY DEF ChildrenBounded
  <2>1. TreeOK(n, parent[n], ancestors[n], children[n])
    BY NodeFacts
  <2>2. ASSUME parent[n] \in children[n], parent[n] # Publisher
        PROVE  FALSE
    <3>1. n # Publisher /\ parent[n] # NoNode /\ parent[n] \in Node
      BY <2>1, <2>2, NodeFacts DEF TreeOK
    <3>2. Path(ancestors[n], n) /\ ancestors[n][Len(ancestors[n])] = parent[n]
      BY <2>1, <3>1 DEF TreeOK
    <3>3. Rank[parent[n]] < Rank[n]
      <4>1. Len(ancestors[n]) \in 1..Len(ancestors[n])
        BY <3>1, <3>2 DEF Path
      <4>. QED  BY <3>2, <4>1 DEF Path
    <3>4. Rank[n] < Rank[parent[n]]
      BY <2>1, <2>2 DEF TreeOK
    <3>. QED  BY <3>1, <3>3, <3>4
  <2>. QED  BY <2>1, <2>2 DEF TreeOK
<1>. QED  BY <1>1, Invariance, PTL

(* assert(target_node != NO_SUCH_NODE) never fails for want of somebody to  *)
(* ask: no search ever counts the publisher among the failed nodes.         *)
THEOREM PublisherCanBeAsked == Spec => []PublisherNeverFails
<1>1. IInv => PublisherNeverFails
  BY NodeFacts DEF PublisherNeverFails, SearchOK
<1>. QED  BY <1>1, Invariance, PTL

(* The assertion of receive_feed_join_reply_ok: a reply that still counts   *)
(* never comes from the parent, even when the node has one and is looking   *)
(* for a better.                                                            *)
THEOREM ParentIsNotAsked == Spec => []OkIsFromNewParent
<1>1. IInv => OkIsFromNewParent
  <2>. SUFFICES ASSUME IInv, NEW m \in msgs, m.kind = "ok",
                       NEW w \in waits[m.dst], Cancels(m, w), parent[m.dst] = m.src
                PROVE  FALSE
    BY DEF OkIsFromNewParent
  <2>. DEFINE n == m.dst
  <2>1. n \in Node /\ m.src \in Node
    BY MessageFields DEF IInv, TypeOK
  <2>2. m.src = w.target
    BY <2>1, NodeFacts DEF Bound, Cancels
  <2>3. Downwards(n, parent[n], w)
    BY <2>1, WaitFacts
  <2>. QED  BY <2>2, <2>3 DEF Downwards
<1>. QED  BY <1>1, Invariance, PTL

=============================================================================
