----------------------- MODULE ConnectionMessageProofs -----------------------
(***************************************************************************)
(* Proofs about the messages in Connections: a node keeps each at one      *)
(* place, each is delivered once at most, and none that waits is dropped.  *)
(***************************************************************************)
EXTENDS ConnectionsProofs

-----------------------------------------------------------------------------
(* Sequences in which nothing occurs twice.                                *)

LEMMA EmptyOnce == IsInjective(<<>>) /\ ToSet(<<>>) = {}
BY DEF IsInjective, ToSet

LEMMA SingleOnce == \A x : IsInjective(<<x>>) /\ ToSet(<<x>>) = {x}
BY DEF IsInjective, ToSet

LEMMA AppendOnce ==
  ASSUME NEW S, NEW q \in Seq(S), NEW x \in S, IsInjective(q), x \notin ToSet(q)
  PROVE  IsInjective(Append(q, x)) /\ ToSet(Append(q, x)) = ToSet(q) \cup {x}
<1> DEFINE a == Append(q, x)
<1>1. /\ DOMAIN q = 1..Len(q) /\ DOMAIN a = 1..(Len(q) + 1) /\ Len(q) \in Nat
      /\ \A k \in 1..Len(q) : a[k] = q[k]
      /\ a[Len(q) + 1] = x
  OBVIOUS
<1> HIDE DEF a
<1>2. \A k \in 1..Len(q) : q[k] # x
  BY <1>1 DEF ToSet
<1>3. \A k \in DOMAIN a : k \in 1..Len(q) \/ k = Len(q) + 1
  BY <1>1
<1>4. IsInjective(a)
  BY <1>1, <1>2, <1>3 DEF IsInjective
<1>5. ToSet(a) = ToSet(q) \cup {x}
  <2>1. \A y \in ToSet(a) : y \in ToSet(q) \cup {x}
    BY <1>1, <1>3 DEF ToSet
  <2>2. \A y \in ToSet(q) : y \in ToSet(a)
    BY <1>1 DEF ToSet
  <2>3. x \in ToSet(a)
    BY <1>1 DEF ToSet
  <2> QED BY <2>1, <2>2, <2>3
<1> QED BY <1>4, <1>5 DEF a

LEMMA ConcatOnce ==
  ASSUME NEW S, NEW q \in Seq(S), NEW u \in Seq(S), IsInjective(q), IsInjective(u),
         ToSet(q) \cap ToSet(u) = {}
  PROVE  IsInjective(q \o u) /\ ToSet(q \o u) = ToSet(q) \cup ToSet(u)
<1> DEFINE a == q \o u
<1>1. /\ DOMAIN q = 1..Len(q) /\ DOMAIN u = 1..Len(u) /\ DOMAIN a = 1..(Len(q) + Len(u))
      /\ Len(q) \in Nat /\ Len(u) \in Nat
      /\ \A k \in 1..Len(q) : a[k] = q[k]
      /\ \A k \in DOMAIN a : k \in 1..Len(q) \/ (k - Len(q) \in 1..Len(u) /\ a[k] = u[k - Len(q)])
      /\ \A k \in 1..Len(u) : k + Len(q) \in DOMAIN a /\ a[k + Len(q)] = u[k]
  OBVIOUS
<1> HIDE DEF a
<1>2. \A k \in 1..Len(q), l \in 1..Len(u) : q[k] # u[l]
  BY <1>1 DEF ToSet
<1>3. IsInjective(a)
  <2> SUFFICES ASSUME NEW k \in DOMAIN a, NEW l \in DOMAIN a, a[k] = a[l] PROVE k = l
    BY DEF IsInjective
  <2>1. CASE k \in 1..Len(q) /\ l \in 1..Len(q)
    BY <2>1, <1>1 DEF IsInjective
  <2>2. CASE k \notin 1..Len(q) /\ l \notin 1..Len(q)
    <3>1. k - Len(q) \in 1..Len(u) /\ l - Len(q) \in 1..Len(u) /\ u[k - Len(q)] = u[l - Len(q)]
      BY <2>2, <1>1
    <3>2. k - Len(q) = l - Len(q)
      BY <3>1, <1>1 DEF IsInjective
    <3> QED BY <3>2, <1>1
  <2>3. CASE (k \in 1..Len(q)) # (l \in 1..Len(q))
    BY <2>3, <1>1, <1>2
  <2> QED BY <2>1, <2>2, <2>3
<1>4. ToSet(a) = ToSet(q) \cup ToSet(u)
  <2>1. \A y \in ToSet(a) : y \in ToSet(q) \cup ToSet(u)
    BY <1>1 DEF ToSet
  <2>2. \A y \in ToSet(q) : y \in ToSet(a)
    BY <1>1 DEF ToSet
  <2>3. \A y \in ToSet(u) : y \in ToSet(a)
    BY <1>1 DEF ToSet
  <2> QED BY <2>1, <2>2, <2>3
<1> QED BY <1>3, <1>4 DEF a

LEMMA TailOnce ==
  ASSUME NEW S, NEW q \in Seq(S), q # <<>>, IsInjective(q)
  PROVE  /\ IsInjective(Tail(q)) /\ ToSet(Tail(q)) = ToSet(q) \ {Head(q)}
         /\ Head(q) \in ToSet(q)
<1> DEFINE a == Tail(q)
<1>1. /\ DOMAIN q = 1..Len(q) /\ Len(q) \in Nat \ {0} /\ DOMAIN a = 1..(Len(q) - 1)
      /\ \A k \in DOMAIN a : k + 1 \in DOMAIN q /\ a[k] = q[k + 1]
      /\ Head(q) = q[1] /\ 1 \in DOMAIN q
  OBVIOUS
<1> HIDE DEF a
<1>2. IsInjective(a)
  <2> SUFFICES ASSUME NEW k \in DOMAIN a, NEW l \in DOMAIN a, a[k] = a[l] PROVE k = l
    BY DEF IsInjective
  <2>1. k + 1 = l + 1
    BY <1>1 DEF IsInjective
  <2> QED BY <1>1, <2>1
<1>3. \A y \in ToSet(a) : y \in ToSet(q) \ {Head(q)}
  <2> SUFFICES ASSUME NEW k \in DOMAIN a PROVE a[k] \in ToSet(q) \ {Head(q)}
    BY DEF ToSet
  <2>1. k + 1 \in DOMAIN q /\ k + 1 # 1 /\ a[k] = q[k + 1]
    BY <1>1
  <2> QED BY <2>1, <1>1 DEF ToSet, IsInjective
<1>4. \A y \in ToSet(q) \ {Head(q)} : y \in ToSet(a)
  <2> SUFFICES ASSUME NEW k \in DOMAIN q, q[k] # Head(q) PROVE q[k] \in ToSet(a)
    BY DEF ToSet
  <2>1. k - 1 \in DOMAIN a /\ a[k - 1] = q[k]
    BY <1>1
  <2> QED BY <2>1 DEF ToSet
<1>5. Head(q) \in ToSet(q)
  BY <1>1 DEF ToSet
<1> QED BY <1>2, <1>3, <1>4, <1>5 DEF a

-----------------------------------------------------------------------------
(* What a node holds: s, e and r stand for its manager, its connections    *)
(* and its unresolved messages.                                            *)

\* what a connection is sending: seen from async_write, or from the other end
Sending(f, x) == IF f = "out" THEN x.out ELSE x.wire

Views == {"out", "wire"}

Apart(f, s, e, r) ==
  /\ \A m \in Node :
       /\ ToSet(s.pending[m]) \cap r = {}
       /\ \A k \in Node : m # k => ToSet(s.pending[m]) \cap ToSet(s.pending[k]) = {}
       /\ \A i \in Conn : /\ ToSet(s.pending[m]) \cap ToSet(e[i].queue) = {}
                          /\ ToSet(s.pending[m]) \cap ToSet(Sending(f, e[i])) = {}
  /\ \A i \in Conn :
       /\ ToSet(e[i].queue) \cap r = {} /\ ToSet(Sending(f, e[i])) \cap r = {}
       /\ \A j \in Conn : i # j => /\ ToSet(e[i].queue) \cap ToSet(e[j].queue) = {}
                                   /\ ToSet(Sending(f, e[i])) \cap ToSet(Sending(f, e[j])) = {}
       /\ \A j \in Conn : ToSet(e[i].queue) \cap ToSet(Sending(f, e[j])) = {}

NoRepeats(s, e) ==
  /\ \A m \in Node : IsInjective(s.pending[m])
  /\ \A i \in Conn : IsInjective(e[i].queue) /\ IsInjective(e[i].out) /\ IsInjective(e[i].wire)

Holds(f, s, e, r, msg) ==
  \/ msg \in r
  \/ \E m \in Node : msg \in ToSet(s.pending[m])
  \/ \E i \in Conn : msg \in ToSet(e[i].queue) \/ msg \in ToSet(Sending(f, e[i]))

\* what node n can have sent when k messages have been sent
Mine(n, k) == {msg \in Message : msg.src = n /\ msg.dst # n /\ msg.id <= k}

Good(n, k, s, e, r) ==
  /\ NoRepeats(s, e)
  /\ \A f \in Views : Apart(f, s, e, r) /\ \A msg : Holds(f, s, e, r, msg) => msg \in Mine(n, k)

Added(place, kind, x, A) == IF place = <<kind, x>> THEN A ELSE {}

\* from s, e, r to t, g, q nothing is added but the messages of A, and those at one place
Puts(place, A, s, e, r, t, g, q) ==
  /\ NoRepeats(t, g)
  /\ \A m \in Node : ToSet(t.pending[m]) \subseteq ToSet(s.pending[m]) \cup Added(place, "pending", m, A)
  /\ \A i \in Conn :
       /\ ToSet(g[i].queue) \subseteq ToSet(e[i].queue) \cup Added(place, "queue", i, A)
       /\ ToSet(g[i].out) \subseteq ToSet(e[i].out) \cup Added(place, "sending", i, A)
       /\ ToSet(g[i].wire) \subseteq ToSet(e[i].wire) \cup Added(place, "sending", i, A)
  /\ q \subseteq r \cup Added(place, "resolving", None, A)

Drops(s, e, r, t, g, q) == Puts(None, {}, s, e, r, t, g, q)

\* the outcome: t, g, q are as good, and hold nothing else but the messages of A
Passes(n, k, A, s, e, r, t, g, q) ==
  /\ Good(n, k, t, g, q)
  /\ \A f \in Views : \A msg : Holds(f, t, g, q, msg) => Holds(f, s, e, r, msg) \/ msg \in A

Fresh(A, s, e, r) == \A f \in Views, msg \in A : ~Holds(f, s, e, r, msg)

LEMMA PutPasses ==
  ASSUME NEW n \in Node, NEW k, NEW l, NEW place, NEW A, NEW s, NEW e, NEW r, NEW t, NEW g, NEW q,
         Good(n, k, s, e, r), Mine(n, k) \subseteq Mine(n, l), A \subseteq Mine(n, l),
         Fresh(A, s, e, r), Puts(place, A, s, e, r, t, g, q)
  PROVE  Passes(n, l, A, s, e, r, t, g, q)
<1>1. ASSUME NEW f \in Views
      PROVE  /\ \A i \in Conn : ToSet(Sending(f, g[i])) \subseteq ToSet(Sending(f, e[i])) \cup Added(place, "sending", i, A)
             /\ Apart(f, s, e, r)
             /\ \A msg \in A : ~Holds(f, s, e, r, msg)
  BY DEF Puts, Sending, Views, Good, Fresh
<1>2. ASSUME NEW f \in Views
      PROVE  /\ Apart(f, t, g, q)
             /\ \A msg : Holds(f, t, g, q, msg) => Holds(f, s, e, r, msg) \/ msg \in A
  <2> DEFINE p(m) == ToSet(s.pending[m])  p2(m) == ToSet(t.pending[m])
             u(i) == ToSet(e[i].queue)  u2(i) == ToSet(g[i].queue)
             v(i) == ToSet(Sending(f, e[i]))  v2(i) == ToSet(Sending(f, g[i]))
  <2>1. /\ \A m \in Node : p2(m) \subseteq p(m) \cup Added(place, "pending", m, A)
        /\ \A i \in Conn : u2(i) \subseteq u(i) \cup Added(place, "queue", i, A)
        /\ \A i \in Conn : v2(i) \subseteq v(i) \cup Added(place, "sending", i, A)
        /\ q \subseteq r \cup Added(place, "resolving", None, A)
    BY <1>1 DEF Puts
  <2>2. /\ \A m \in Node : p(m) \cap r = {} /\ p(m) \cap A = {}
        /\ \A m, j \in Node : m # j => p(m) \cap p(j) = {}
        /\ \A m \in Node, i \in Conn : p(m) \cap u(i) = {} /\ p(m) \cap v(i) = {}
        /\ \A i \in Conn : u(i) \cap r = {} /\ v(i) \cap r = {} /\ u(i) \cap A = {} /\ v(i) \cap A = {}
        /\ \A i, j \in Conn : i # j => u(i) \cap u(j) = {} /\ v(i) \cap v(j) = {}
        /\ \A i, j \in Conn : u(i) \cap v(j) = {}
        /\ r \cap A = {}
    BY <1>1 DEF Apart, Holds
  <2>3. Apart(f, t, g, q) <=>
        /\ \A m \in Node : p2(m) \cap q = {}
        /\ \A m, j \in Node : m # j => p2(m) \cap p2(j) = {}
        /\ \A m \in Node, i \in Conn : p2(m) \cap u2(i) = {} /\ p2(m) \cap v2(i) = {}
        /\ \A i \in Conn : u2(i) \cap q = {} /\ v2(i) \cap q = {}
        /\ \A i, j \in Conn : i # j => u2(i) \cap u2(j) = {} /\ v2(i) \cap v2(j) = {}
        /\ \A i, j \in Conn : u2(i) \cap v2(j) = {}
    BY DEF Apart
  <2>4. \A msg : Holds(f, t, g, q, msg) <=>
          msg \in q \/ (\E m \in Node : msg \in p2(m)) \/ (\E i \in Conn : msg \in u2(i) \/ msg \in v2(i))
    BY DEF Holds
  <2>5. \A msg : Holds(f, s, e, r, msg) <=>
          msg \in r \/ (\E m \in Node : msg \in p(m)) \/ (\E i \in Conn : msg \in u(i) \/ msg \in v(i))
    BY DEF Holds
  <2> HIDE DEF p, p2, u, u2, v, v2
  <2>6. /\ \A m \in Node : p2(m) \cap q = {}
        /\ \A i \in Conn : u2(i) \cap q = {} /\ v2(i) \cap q = {}
    BY <2>1, <2>2 DEF Added
  <2>7. \A m, j \in Node : m # j => p2(m) \cap p2(j) = {}
    BY <2>1, <2>2 DEF Added
  <2>8. \A m \in Node, i \in Conn : p2(m) \cap u2(i) = {} /\ p2(m) \cap v2(i) = {}
    BY <2>1, <2>2 DEF Added
  <2>9. \A i, j \in Conn : i # j => u2(i) \cap u2(j) = {} /\ v2(i) \cap v2(j) = {}
    BY <2>1, <2>2 DEF Added
  <2>10. \A i, j \in Conn : u2(i) \cap v2(j) = {}
    BY <2>1, <2>2 DEF Added
  <2>11. \A msg : Holds(f, t, g, q, msg) => Holds(f, s, e, r, msg) \/ msg \in A
    BY <2>1, <2>4, <2>5 DEF Added
  <2> QED BY <2>3, <2>6, <2>7, <2>8, <2>9, <2>10, <2>11
<1>3. NoRepeats(t, g)
  BY DEF Puts
<1>4. \A f \in Views : \A msg : Holds(f, t, g, q, msg) => msg \in Mine(n, l)
  BY <1>2 DEF Good
<1> QED BY <1>2, <1>3, <1>4 DEF Passes, Good

LEMMA DropPasses ==
  ASSUME NEW n \in Node, NEW k, NEW s, NEW e, NEW r, NEW t, NEW g, NEW q,
         Good(n, k, s, e, r), Drops(s, e, r, t, g, q)
  PROVE  Passes(n, k, {}, s, e, r, t, g, q)
<1>1. Fresh({}, s, e, r)
  BY DEF Fresh
<1> QED BY <1>1, PutPasses DEF Drops

LEMMA PassesTwice ==
  ASSUME NEW n, NEW k, NEW l, NEW A, NEW B, NEW s, NEW e, NEW r, NEW s2, NEW e2, NEW r2,
         NEW t, NEW g, NEW q,
         Passes(n, k, A, s, e, r, s2, e2, r2), Passes(n, l, B, s2, e2, r2, t, g, q)
  PROVE  Passes(n, l, A \cup B, s, e, r, t, g, q)
BY DEF Passes

LEMMA PassesBack ==
  ASSUME NEW n, NEW k, NEW A, NEW s, NEW e, NEW r, NEW t, NEW g, NEW q,
         Passes(n, k, A, s, e, r, t, g, q), \A f \in Views, msg \in A : Holds(f, s, e, r, msg)
  PROVE  Passes(n, k, {}, s, e, r, t, g, q)
BY DEF Passes

\* nothing is added: what a place holds is kept or given up
Lessens(s, e, t, g) ==
  /\ \A m \in Node : t.pending[m] \in {s.pending[m], <<>>}
  /\ \A i \in Conn : /\ g[i].queue \in {e[i].queue, <<>>} /\ g[i].out \in {e[i].out, <<>>}
                     /\ g[i].wire \in {e[i].wire, <<>>}

LEMMA LessPasses ==
  ASSUME NEW n \in Node, NEW k, NEW s, NEW e, NEW r, NEW t, NEW g, NEW q,
         Good(n, k, s, e, r), Lessens(s, e, t, g), q \subseteq r
  PROVE  Passes(n, k, {}, s, e, r, t, g, q)
<1>1. NoRepeats(t, g)
  BY EmptyOnce DEF Good, NoRepeats, Lessens
<1>2. Drops(s, e, r, t, g, q)
  <2>1. \A m \in Node : ToSet(t.pending[m]) \subseteq ToSet(s.pending[m])
    BY EmptyOnce DEF Lessens
  <2>2. \A i \in Conn : /\ ToSet(g[i].queue) \subseteq ToSet(e[i].queue)
                        /\ ToSet(g[i].out) \subseteq ToSet(e[i].out)
                        /\ ToSet(g[i].wire) \subseteq ToSet(e[i].wire)
    BY EmptyOnce DEF Lessens
  <2> QED BY <1>1, <2>1, <2>2 DEF Drops, Puts
<1> QED BY <1>2, DropPasses

\* the wires of a node: written to only when open, and shortened by nobody but the reader
Onward(e, g) ==
  \A i \in Conn : /\ Len(g[i].wire) >= Len(e[i].wire)
                  /\ g[i].sock = "none" => e[i].sock = "none" /\ g[i].wire = e[i].wire

LEMMA OnwardTwice ==
  ASSUME NEW e \in [Conn -> End], NEW f \in [Conn -> End], NEW g \in [Conn -> End],
         Onward(e, f), Onward(f, g)
  PROVE  Onward(e, g)
<1>1. \A i \in Conn : Len(e[i].wire) \in Nat /\ Len(f[i].wire) \in Nat /\ Len(g[i].wire) \in Nat
  <2>1. \A x \in End : Len(x.wire) \in Nat
    BY DEF End
  <2> QED BY <2>1
<1> QED BY <1>1 DEF Onward

\* one message is sent on connection i
LEMMA SendOnPasses ==
  ASSUME NEW n \in Node, NEW k, NEW l, NEW s, NEW e \in [Conn -> End], NEW r, NEW i \in Conn,
         NEW msg \in Mine(n, l), Good(n, k, s, e, r), Mine(n, k) \subseteq Mine(n, l),
         Fresh({msg}, s, e, r), e[i].sock # "none"
  PROVE  /\ Passes(n, l, {msg}, s, e, r, s, SendOn(e, i, msg), r)
         /\ Onward(e, SendOn(e, i, msg))
<1> DEFINE g == SendOn(e, i, msg)
<1>1. /\ e[i] \in End /\ e[i].queue \in Seq(Message) /\ e[i].wire \in Seq(Message)
      /\ msg \in Message
  BY DEF End, Mine
<1>2. \A j \in Conn \ {i} : g[j] = e[j]
  BY DEF SendOn
<1>3. msg \notin ToSet(e[i].queue) /\ msg \notin ToSet(e[i].out) /\ msg \notin ToSet(e[i].wire)
  BY DEF Fresh, Holds, Views, Sending
<1>4. IsInjective(e[i].queue) /\ IsInjective(e[i].out) /\ IsInjective(e[i].wire)
  BY DEF Good, NoRepeats
<1>5. CASE e[i].out = <<>>
  <2>1. /\ g[i].queue = e[i].queue /\ g[i].out = <<msg>> /\ g[i].wire = Append(e[i].wire, msg)
        /\ g[i].sock = e[i].sock
    BY <1>1, <1>5 DEF SendOn, End
  <2>2. IsInjective(g[i].wire) /\ ToSet(g[i].wire) = ToSet(e[i].wire) \cup {msg}
    BY <1>1, <1>3, <1>4, <2>1, AppendOnce
  <2>3. IsInjective(g[i].out) /\ ToSet(g[i].out) = {msg}
    BY <2>1, SingleOnce
  <2>4. Len(g[i].wire) >= Len(e[i].wire)
    BY <1>1, <2>1
  <2> HIDE DEF g
  <2>5. NoRepeats(s, g)
    BY <1>2, <1>4, <2>1, <2>2, <2>3 DEF Good, NoRepeats
  <2>6. Puts(<<"sending", i>>, {msg}, s, e, r, s, g, r)
    BY <1>2, <2>1, <2>2, <2>3, <2>5 DEF Puts, Added
  <2>7. Passes(n, l, {msg}, s, e, r, s, g, r)
    BY <2>6, PutPasses
  <2>8. \A j \in Conn : Len(e[j].wire) \in Nat
    BY DEF End
  <2>9. Onward(e, g)
    BY <1>2, <2>1, <2>4, <2>8 DEF Onward
  <2> QED BY <2>7, <2>9 DEF g
<1>6. CASE e[i].out # <<>>
  <2>1. /\ g[i].queue = Append(e[i].queue, msg) /\ g[i].out = e[i].out /\ g[i].wire = e[i].wire
        /\ g[i].sock = e[i].sock
    BY <1>1, <1>6 DEF SendOn, End
  <2>2. IsInjective(g[i].queue) /\ ToSet(g[i].queue) = ToSet(e[i].queue) \cup {msg}
    BY <1>1, <1>3, <1>4, <2>1, AppendOnce
  <2> HIDE DEF g
  <2>5. NoRepeats(s, g)
    BY <1>2, <1>4, <2>1, <2>2 DEF Good, NoRepeats
  <2>6. Puts(<<"queue", i>>, {msg}, s, e, r, s, g, r)
    BY <1>2, <2>1, <2>2, <2>5 DEF Puts, Added
  <2>7. Passes(n, l, {msg}, s, e, r, s, g, r)
    BY <2>6, PutPasses
  <2>8. \A j \in Conn : Len(e[j].wire) \in Nat
    BY DEF End
  <2>9. Onward(e, g)
    BY <1>2, <2>1, <2>8 DEF Onward
  <2> QED BY <2>7, <2>9 DEF g
<1> QED BY <1>5, <1>6

\* messages that were held by nobody are sent on connection i
LEMMA SendAllOnPasses ==
  ASSUME NEW n \in Node, NEW k, NEW s, NEW e \in [Conn -> End], NEW r, NEW i \in Conn,
         NEW all \in Seq(Message), Good(n, k, s, e, r), IsInjective(all),
         ToSet(all) \subseteq Mine(n, k), Fresh(ToSet(all), s, e, r), e[i].sock # "none"
  PROVE  /\ Passes(n, k, ToSet(all), s, e, r, s, SendAllOn(e, i, all), r)
         /\ Onward(e, SendAllOn(e, i, all))
<1>1. CASE all = <<>>
  <2>1. \A j \in Conn : Len(e[j].wire) \in Nat
    BY DEF End
  <2> QED BY <1>1, <2>1, EmptyOnce DEF SendAllOn, Passes, Onward
<1>2. CASE all # <<>>
  <2> DEFINE msg == Head(all)  rest == Tail(all)  f == SendOn(e, i, msg)
             g == [f EXCEPT ![i].queue = @ \o rest]
  <2>1. /\ msg \in Message /\ rest \in Seq(Message) /\ IsInjective(rest)
        /\ ToSet(rest) = ToSet(all) \ {msg} /\ msg \in ToSet(all)
    BY <1>2, TailOnce
  <2>2. SendAllOn(e, i, all) = g
    BY <1>2 DEF SendAllOn
  <2> HIDE DEF msg, rest
  <2>3. f \in [Conn -> End] /\ SameShape(e, f)
    BY <2>1, SendOnIsFine
  <2>4. Fresh({msg}, s, e, r) /\ msg \in Mine(n, k)
    BY <2>1 DEF Fresh
  <2>5. Passes(n, k, {msg}, s, e, r, s, f, r) /\ Onward(e, f)
    BY <2>4, SendOnPasses
  <2> HIDE DEF f
  <2>6. Good(n, k, s, f, r) /\ Fresh(ToSet(rest), s, f, r)
    BY <2>1, <2>5 DEF Passes, Fresh
  <2>7. f[i] \in End /\ f[i].queue \in Seq(Message) /\ f[i].sock # "none"
    BY <2>3 DEF End, SameShape
  <2>8. /\ \A j \in Conn \ {i} : g[j] = f[j]
        /\ g[i].queue = f[i].queue \o rest /\ g[i].out = f[i].out /\ g[i].wire = f[i].wire
        /\ g[i].sock = f[i].sock
    BY <2>3, <2>7 DEF End
  <2> HIDE DEF g
  <2>9. \A y \in ToSet(rest) : y \notin ToSet(f[i].queue)
    BY <2>6 DEF Fresh, Holds, Views
  <2>10. IsInjective(f[i].queue)
    BY <2>6 DEF Good, NoRepeats
  <2>11. IsInjective(g[i].queue) /\ ToSet(g[i].queue) = ToSet(f[i].queue) \cup ToSet(rest)
    BY <2>1, <2>7, <2>8, <2>9, <2>10, ConcatOnce
  <2>12. NoRepeats(s, g)
    BY <2>6, <2>8, <2>11 DEF Good, NoRepeats
  <2>13. Puts(<<"queue", i>>, ToSet(rest), s, f, r, s, g, r)
    BY <2>8, <2>11, <2>12 DEF Puts, Added
  <2>14. ToSet(rest) \subseteq Mine(n, k)
    BY <2>1
  <2>15. Passes(n, k, ToSet(rest), s, f, r, s, g, r)
    BY <2>6, <2>13, <2>14, PutPasses
  <2>16. {msg} \cup ToSet(rest) = ToSet(all)
    BY <2>1
  <2>17. Passes(n, k, {msg} \cup ToSet(rest), s, e, r, s, g, r)
    BY <2>5, <2>15, PassesTwice
  <2>18. Onward(e, g)
    BY <2>5, <2>8 DEF Onward
  <2> QED BY <2>2, <2>16, <2>17, <2>18
<1> QED BY <1>1, <1>2

\* a message that was held by nobody begins to wait for a connection to m
LEMMA PendingPasses ==
  ASSUME NEW n \in Node, NEW k, NEW l, NEW s \in Manager, NEW t, NEW e, NEW g, NEW r, NEW m \in Node,
         NEW msg \in Mine(n, l), Good(n, k, s, e, r), Mine(n, k) \subseteq Mine(n, l),
         Fresh({msg}, s, e, r), t.pending = [s.pending EXCEPT ![m] = Append(@, msg)],
         Lessens(s, e, s, g)
  PROVE  Passes(n, l, {msg}, s, e, r, t, g, r)
<1>1. s.pending \in [Node -> Seq(Message)] /\ s.pending[m] \in Seq(Message) /\ msg \in Message
  BY DEF Manager, Mine
<1>2. msg \notin ToSet(s.pending[m])
  BY DEF Fresh, Holds, Views
<1>3. IsInjective(s.pending[m])
  BY DEF Good, NoRepeats
<1>4. /\ t.pending[m] = Append(s.pending[m], msg)
      /\ \A j \in Node \ {m} : t.pending[j] = s.pending[j]
  BY <1>1
<1>5. IsInjective(t.pending[m]) /\ ToSet(t.pending[m]) = ToSet(s.pending[m]) \cup {msg}
  BY <1>1, <1>2, <1>3, <1>4, AppendOnce
<1>6. NoRepeats(t, g)
  BY <1>4, <1>5, EmptyOnce DEF Good, NoRepeats, Lessens
<1>7. \A j \in Conn : /\ ToSet(g[j].queue) \subseteq ToSet(e[j].queue)
                      /\ ToSet(g[j].out) \subseteq ToSet(e[j].out)
                      /\ ToSet(g[j].wire) \subseteq ToSet(e[j].wire)
  BY EmptyOnce DEF Lessens
<1>8. Puts(<<"pending", m>>, {msg}, s, e, r, t, g, r)
  BY <1>4, <1>5, <1>6, <1>7 DEF Puts, Added
<1> QED BY <1>8, PutPasses

\* what waits for connection old is handed to connection i
LEMMA TakeOverPasses ==
  ASSUME NEW n \in Node, NEW k, NEW s, NEW t, NEW e \in [Conn -> End], NEW r, NEW i \in Conn,
         NEW old \in Conn \ {i}, NEW src \in Node, Good(n, k, s, e, r), t.pending = s.pending
  PROVE  /\ Passes(n, k, {}, s, e, r, t, TakeOver(e, i, old, src), r)
         /\ \A j \in Conn : TakeOver(e, i, old, src)[j].wire = e[j].wire
<1> DEFINE g == TakeOver(e, i, old, src)  A == ToSet(e[old].queue)
           d == [j \in Conn |-> IF j \in {i, old} THEN [e[j] EXCEPT !.queue = <<>>] ELSE e[j]]
<1>1. \A j \in Conn : e[j] \in End
  OBVIOUS
<1>2. /\ \A j \in Conn : g[j].wire = e[j].wire /\ g[j].out = e[j].out
      /\ g[i].queue = e[old].queue /\ g[old].queue = <<>>
      /\ \A j \in Conn \ {i, old} : g[j].queue = e[j].queue
  BY <1>1 DEF TakeOver, Close, End
<1>3. /\ \A j \in Conn : d[j].wire = e[j].wire /\ d[j].out = e[j].out
      /\ d[i].queue = <<>> /\ d[old].queue = <<>>
      /\ \A j \in Conn \ {i, old} : d[j].queue = e[j].queue
  BY <1>1 DEF End
<1> HIDE DEF g, d, A
<1>4. Lessens(s, e, s, d)
  BY <1>3 DEF Lessens
<1>5. Passes(n, k, {}, s, e, r, s, d, r)
  BY <1>4, LessPasses
<1>6. Fresh(A, s, d, r)
  <2>1. ASSUME NEW f \in Views, NEW msg \in A
        PROVE  ~Holds(f, s, d, r, msg)
    <3>1. Apart(f, s, e, r)
      BY DEF Good
    <3>2. \A j \in Conn : ToSet(Sending(f, d[j])) = ToSet(Sending(f, e[j]))
      BY <1>3 DEF Sending
    <3>3. \A j \in Conn : ToSet(d[j].queue) = IF j \in {i, old} THEN {} ELSE ToSet(e[j].queue)
      BY <1>3, EmptyOnce
    <3> QED BY <3>1, <3>2, <3>3, <2>1 DEF Apart, Holds, A
  <2> QED BY <2>1 DEF Fresh
<1>7. \A f \in Views, msg \in A : Holds(f, s, e, r, msg)
  BY DEF Holds, A
<1>8. NoRepeats(t, g)
  BY <1>2, EmptyOnce DEF Good, NoRepeats
<1>9. Puts(<<"queue", i>>, A, s, d, r, t, g, r)
  <2>1. \A j \in Conn : ToSet(g[j].queue) \subseteq ToSet(d[j].queue) \cup Added(<<"queue", i>>, "queue", j, A)
    BY <1>2, <1>3, EmptyOnce DEF Added, A
  <2> QED BY <2>1, <1>2, <1>3, <1>8 DEF Puts
<1>10. A \subseteq Mine(n, k)
  BY <1>7 DEF Good, Views
<1>11. Passes(n, k, A, s, d, r, t, g, r)
  BY <1>5, <1>6, <1>9, <1>10, PutPasses DEF Passes
<1>12. Passes(n, k, {} \cup A, s, e, r, t, g, r)
  BY <1>5, <1>11, PassesTwice
<1>13. Passes(n, k, A, s, e, r, t, g, r)
  BY <1>12
<1>14. Passes(n, k, {}, s, e, r, t, g, r)
  BY <1>7, <1>13, PassesBack
<1> QED BY <1>2, <1>14 DEF g

\* handle_write sends the next message of the queue
LEMMA NextPasses ==
  ASSUME NEW n \in Node, NEW k, NEW s, NEW e \in [Conn -> End], NEW r, NEW i \in Conn,
         NEW g, Good(n, k, s, e, r), e[i].queue # <<>>, \A j \in Conn \ {i} : g[j] = e[j],
         g[i] = [e[i] EXCEPT !.out = <<Head(e[i].queue)>>, !.queue = Tail(@),
                             !.wire = Append(@, Head(e[i].queue))]
  PROVE  Passes(n, k, {}, s, e, r, s, g, r)
<1> DEFINE msg == Head(e[i].queue)
           d == [e EXCEPT ![i] = [e[i] EXCEPT !.out = <<>>, !.queue = Tail(@)]]
<1>1. e[i] \in End /\ e[i].queue \in Seq(Message) /\ e[i].wire \in Seq(Message)
  BY DEF End
<1>2. /\ g[i].out = <<msg>> /\ g[i].queue = Tail(e[i].queue) /\ g[i].wire = Append(e[i].wire, msg)
      /\ d[i].out = <<>> /\ d[i].queue = Tail(e[i].queue) /\ d[i].wire = e[i].wire
      /\ \A j \in Conn \ {i} : d[j] = e[j]
  BY <1>1 DEF End
<1> HIDE DEF d
<1>3. NoRepeats(s, e)
  BY DEF Good
<1>4. /\ IsInjective(Tail(e[i].queue)) /\ msg \in ToSet(e[i].queue) /\ msg \in Message
      /\ ToSet(Tail(e[i].queue)) = ToSet(e[i].queue) \ {msg}
  BY <1>1, <1>3, TailOnce DEF NoRepeats
<1> HIDE DEF msg
<1>5. Drops(s, e, r, s, d, r)
  BY <1>2, <1>3, <1>4, EmptyOnce DEF Drops, Puts, NoRepeats
<1>6. Passes(n, k, {}, s, e, r, s, d, r)
  BY <1>5, DropPasses
<1>7. Fresh({msg}, s, d, r)
  <2>1. ASSUME NEW f \in Views
        PROVE  ~Holds(f, s, d, r, msg)
    <3>1. Apart(f, s, e, r)
      BY DEF Good
    <3>2. \A j \in Conn : ToSet(Sending(f, d[j])) \subseteq ToSet(Sending(f, e[j]))
      BY <1>2, EmptyOnce DEF Sending
    <3>3. \A j \in Conn : ToSet(d[j].queue) = IF j = i THEN ToSet(e[j].queue) \ {msg} ELSE ToSet(e[j].queue)
      BY <1>2, <1>4
    <3> QED BY <3>1, <3>2, <3>3, <1>4 DEF Apart, Holds
  <2> QED BY <2>1 DEF Fresh
<1>8. \A f \in Views : Holds(f, s, e, r, msg)
  BY <1>4 DEF Holds
<1>9. msg \notin ToSet(d[i].wire)
  BY <1>7 DEF Fresh, Holds, Sending, Views
<1>10. IsInjective(g[i].wire) /\ ToSet(g[i].wire) = ToSet(d[i].wire) \cup {msg}
  BY <1>1, <1>2, <1>3, <1>4, <1>9, AppendOnce DEF NoRepeats
<1>11. IsInjective(g[i].out) /\ ToSet(g[i].out) = {msg}
  BY <1>2, SingleOnce
<1>12. NoRepeats(s, g)
  BY <1>2, <1>3, <1>4, <1>10, <1>11 DEF NoRepeats
<1>13. Puts(<<"sending", i>>, {msg}, s, d, r, s, g, r)
  BY <1>2, <1>10, <1>11, <1>12 DEF Puts, Added
<1>14. {msg} \subseteq Mine(n, k)
  BY <1>8 DEF Good, Views
<1>15. Passes(n, k, {msg}, s, d, r, s, g, r)
  BY <1>6, <1>7, <1>13, <1>14, PutPasses DEF Passes
<1>16. Passes(n, k, {} \cup {msg}, s, e, r, s, g, r)
  BY <1>6, <1>15, PassesTwice
<1>17. Passes(n, k, {msg}, s, e, r, s, g, r)
  BY <1>16
<1> QED BY <1>8, <1>17, PassesBack

\* the other node reads the first message on the wire of connection i
LEMMA TailPasses ==
  ASSUME NEW n \in Node, NEW k, NEW s, NEW e \in [Conn -> End], NEW r, NEW i \in Conn,
         NEW g, Good(n, k, s, e, r), e[i].wire # <<>>, \A j \in Conn \ {i} : g[j] = e[j],
         g[i] = [e[i] EXCEPT !.wire = Tail(@)]
  PROVE  /\ Passes(n, k, {}, s, e, r, s, g, r)
         /\ ~Holds("wire", s, g, r, Head(e[i].wire))
         /\ Head(e[i].wire) \in Mine(n, k)
<1> DEFINE msg == Head(e[i].wire)
<1>1. e[i] \in End /\ e[i].wire \in Seq(Message)
  BY DEF End
<1>2. g[i].out = e[i].out /\ g[i].queue = e[i].queue /\ g[i].wire = Tail(e[i].wire)
  BY <1>1 DEF End
<1>3. NoRepeats(s, e)
  BY DEF Good
<1>4. /\ IsInjective(Tail(e[i].wire)) /\ msg \in ToSet(e[i].wire)
      /\ ToSet(Tail(e[i].wire)) = ToSet(e[i].wire) \ {msg}
  BY <1>1, <1>3, TailOnce DEF NoRepeats
<1> HIDE DEF msg
<1>5. Drops(s, e, r, s, g, r)
  BY <1>2, <1>3, <1>4 DEF Drops, Puts, NoRepeats
<1>6. Passes(n, k, {}, s, e, r, s, g, r)
  BY <1>5, DropPasses
<1>7. ~Holds("wire", s, g, r, msg)
  <2>1. Apart("wire", s, e, r)
    BY DEF Good, Views
  <2>2. \A j \in Conn : ToSet(Sending("wire", g[j])) =
          IF j = i THEN ToSet(Sending("wire", e[j])) \ {msg} ELSE ToSet(Sending("wire", e[j]))
    BY <1>2, <1>4 DEF Sending
  <2>3. msg \in ToSet(Sending("wire", e[i]))
    BY <1>4 DEF Sending
  <2>4. \A j \in Conn : g[j].queue = e[j].queue
    BY <1>2
  <2> QED BY <2>1, <2>2, <2>3, <2>4 DEF Apart, Holds
<1>8. msg \in Mine(n, k)
  BY <1>4 DEF Good, Views, Holds, Sending
<1> QED BY <1>6, <1>7, <1>8 DEF msg

\* a message that was waiting for its resolution begins to wait for a connection to m
LEMMA ResolvedPasses ==
  ASSUME NEW n \in Node, NEW k, NEW s \in Manager, NEW t, NEW e, NEW g, NEW r, NEW m \in Node,
         NEW msg \in r, Good(n, k, s, e, r),
         t.pending = [s.pending EXCEPT ![m] = Append(@, msg)], Lessens(s, e, s, g)
  PROVE  Passes(n, k, {}, s, e, r, t, g, r \ {msg})
<1> DEFINE q == r \ {msg}
<1>1. Passes(n, k, {}, s, e, r, s, e, q)
  BY LessPasses DEF Lessens
<1>2. Fresh({msg}, s, e, q)
  BY DEF Good, Fresh, Apart, Holds
<1>3. \A f \in Views : Holds(f, s, e, r, msg)
  BY DEF Holds
<1>4. msg \in Mine(n, k)
  BY <1>3 DEF Good, Views
<1>5. Good(n, k, s, e, q)
  BY <1>1 DEF Passes
<1> HIDE DEF q
<1>6. Passes(n, k, {msg}, s, e, q, t, g, q)
  BY <1>2, <1>4, <1>5, PendingPasses
<1>7. Passes(n, k, {} \cup {msg}, s, e, r, t, g, q)
  BY <1>1, <1>6, PassesTwice
<1>8. Passes(n, k, {msg}, s, e, r, t, g, q)
  BY <1>7
<1>9. Passes(n, k, {}, s, e, r, t, g, q)
  BY <1>3, <1>8, PassesBack
<1> QED BY <1>9 DEF q

-----------------------------------------------------------------------------
(* The inductive invariant, and how a step of node n preserves it.         *)

MInv ==
  /\ \A n \in Node : Good(n, sent, mgr[n], end[n], resolving[n])
  /\ \A n \in Node, i \in Conn : end[n][i].sock = "none" => end[n][i].wire = <<>>
  /\ \A i \in Conn : Tried(i) => link[i].from # link[i].to

NewMessages == {msg \in Message : msg.id > sent}

\* node n alone acts on its messages
Acts(n) ==
  /\ \A m \in Node \ {n} : mgr'[m] = mgr[m] /\ end'[m] = end[m] /\ resolving'[m] = resolving[m]
  /\ Passes(n, sent', NewMessages, mgr[n], end[n], resolving[n], mgr'[n], end'[n], resolving'[n])
  /\ Onward(end[n], end'[n])

RestOf(n) ==
  /\ sent' \in {sent, sent + 1}
  /\ \A i \in Conn : \/ link'[i].from = link[i].from /\ link'[i].to = link[i].to
                     \/ link'[i].from # link'[i].to

LEMMA SentMore ==
  ASSUME NEW n, IInv, sent' \in {sent, sent + 1}
  PROVE  Mine(n, sent) \subseteq Mine(n, sent')
BY DEF IInv, TypeOK, Mine, Message

LEMMA ActsKeeps ==
  ASSUME NEW n \in Node, IInv, MInv, Acts(n), RestOf(n)
  PROVE  MInv'
<1>1. \A m \in Node : Good(m, sent', mgr'[m], end'[m], resolving'[m])
  <2>1. ASSUME NEW m \in Node \ {n}
        PROVE  Good(m, sent', mgr'[m], end'[m], resolving'[m])
    <3>1. Good(m, sent, mgr[m], end[m], resolving[m])
      BY DEF MInv
    <3>2. Good(m, sent', mgr[m], end[m], resolving[m])
      BY <3>1, SentMore DEF Good, RestOf
    <3> QED BY <3>2 DEF Acts
  <2>2. Good(n, sent', mgr'[n], end'[n], resolving'[n])
    BY DEF Acts, Passes
  <2> QED BY <2>1, <2>2
<1>2. \A m \in Node, i \in Conn : end'[m][i].sock = "none" => end'[m][i].wire = <<>>
  BY DEF MInv, Acts, Onward
<1>3. \A i \in Conn : Tried(i)' => link'[i].from # link'[i].to
  BY DEF MInv, RestOf, Tried
<1> QED BY <1>1, <1>2, <1>3 DEF MInv, Good, NoRepeats, Apart, Holds, Sending, Mine

\* n ends the step with manager t, connections f and unresolved messages q
LEMMA BecomesActs ==
  ASSUME NEW n \in Node, NEW t, NEW f, NEW q, IInv, Becomes(n, t, f), NEW A \in SUBSET NewMessages,
         resolving' = [resolving EXCEPT ![n] = q],
         Passes(n, sent', A, mgr[n], end[n], resolving[n], t, f, q), Onward(end[n], f)
  PROVE  Acts(n)
<1>1. /\ mgr'[n] = t /\ end'[n] = f /\ resolving'[n] = q
      /\ \A m \in Node \ {n} : mgr'[m] = mgr[m] /\ end'[m] = end[m] /\ resolving'[m] = resolving[m]
  BY DEF Becomes, IInv, TypeOK
<1> QED BY <1>1 DEF Acts, Passes

LEMMA SameOnward ==
  ASSUME NEW e \in [Conn -> End], NEW f, \A i \in Conn : f[i].wire = e[i].wire,
         \A i \in Conn : f[i].sock = "none" => e[i].sock = "none"
  PROVE  Onward(e, f)
<1>1. \A x \in End : Len(x.wire) \in Nat
  BY DEF End
<1> QED BY <1>1 DEF Onward

\* n keeps all its messages, or gives up some of those that nobody will send
LEMMA LessActs ==
  ASSUME NEW n \in Node, NEW t, NEW f, IInv, MInv, Becomes(n, t, f), UNCHANGED <<resolving, sent>>,
         Lessens(mgr[n], end[n], t, f), Onward(end[n], f)
  PROVE  Acts(n)
<1>1. Good(n, sent, mgr[n], end[n], resolving[n])
  BY DEF MInv
<1>2. Passes(n, sent, {}, mgr[n], end[n], resolving[n], t, f, resolving[n])
  BY <1>1, LessPasses
<1>3. resolving' = [resolving EXCEPT ![n] = resolving[n]]
  BY DEF IInv, TypeOK
<1>4. sent' = sent /\ {} \in SUBSET NewMessages
  OBVIOUS
<1>5. Passes(n, sent', {}, mgr[n], end[n], resolving[n], t, f, resolving[n])
  BY <1>2, <1>4
<1> QED BY <1>3, <1>4, <1>5, BecomesActs

LEMMA NothingActs ==
  ASSUME NEW n \in Node, IInv, MInv, UNCHANGED <<mgr, end, sent>>,
         NEW q \in SUBSET resolving[n], resolving' = [resolving EXCEPT ![n] = q]
  PROVE  Acts(n)
<1>1. Good(n, sent, mgr[n], end[n], resolving[n]) /\ end[n] \in [Conn -> End]
  BY DEF MInv, IInv, TypeOK
<1>2. Passes(n, sent, {}, mgr[n], end[n], resolving[n], mgr[n], end[n], q)
  BY <1>1, LessPasses DEF Lessens
<1>3. Onward(end[n], end[n])
  BY <1>1, SameOnward
<1>4. resolving'[n] = q /\ \A m \in Node \ {n} : resolving'[m] = resolving[m]
  BY DEF IInv, TypeOK
<1> QED BY <1>2, <1>3, <1>4 DEF Acts, Passes

-----------------------------------------------------------------------------
(* The actions.                                                            *)

\* a connection is tried for a message, which waits for it
LEMMA ConnectEnds ==
  ASSUME NEW n \in Node, NEW msg \in Message, IInv, MInv, Running(n), msg.dst # n,
         Connect(n, mgr[n], msg)
  PROVE  \E t, f :
           /\ Becomes(n, t, f)
           /\ t.pending = [mgr[n].pending EXCEPT ![msg.dst] = Append(@, msg)]
           /\ Lessens(mgr[n], end[n], mgr[n], f)
           /\ Onward(end[n], f)
           /\ \A i \in Conn : link'[i] = link[i] \/ link'[i].from # link'[i].to
<1> DEFINE s == mgr[n]  m == msg.dst  e == end[n]
<1>1. PICK i \in Conn :
        /\ link[i] = NoLink
        /\ link' = [link EXCEPT ![i] = [from |-> n, to |-> m, made |-> FALSE]]
        /\ Becomes(n, [s EXCEPT !.progress[m] = i, !.pending[m] = Append(@, msg)],
                      [e EXCEPT ![i] = [NoEnd EXCEPT !.sock = "connecting", !.mapped = m]])
  BY DEF Connect
<1> DEFINE t == [s EXCEPT !.progress[m] = i, !.pending[m] = Append(@, msg)]
           f == [e EXCEPT ![i] = [NoEnd EXCEPT !.sock = "connecting", !.mapped = m]]
<1>2. s \in Manager /\ e \in [Conn -> End] /\ link \in [Conn -> [from : Node \cup {Temporary},
        to : Node \cup {Temporary}, made : BOOLEAN]]
  BY DEF IInv, TypeOK
<1>3. e[i].sock = "none" /\ e[i].wire = <<>>
  BY <1>1, NodeAssumption DEF IInv, Linked, Tried, NoLink, MInv
<1>4. /\ f[i].sock = "connecting" /\ f[i].wire = <<>> /\ f[i].queue = <<>> /\ f[i].out = <<>>
      /\ \A j \in Conn \ {i} : f[j] = e[j]
  BY <1>2 DEF NoEnd
<1>5. t.pending = [s.pending EXCEPT ![m] = Append(@, msg)]
  BY <1>2 DEF Manager
<1>6. Becomes(n, t, f)
  BY <1>1
<1>7. \A j \in Conn : link'[j] = link[j] \/ link'[j].from # link'[j].to
  BY <1>1, <1>2
<1> HIDE DEF t, f
<1>8. Lessens(s, e, s, f)
  BY <1>4 DEF Lessens
<1>9. Onward(e, f)
  BY <1>2, <1>3, <1>4, SameOnward
<1> QED BY <1>5, <1>6, <1>7, <1>8, <1>9

LEMMA SendActs ==
  ASSUME NEW n \in Node, NEW m \in Node \ {n}, IInv, MInv, Send(n, m)
  PROVE  Acts(n) /\ RestOf(n)
<1> DEFINE s == mgr[n]  e == end[n]  r == resolving[n]
           msg == [src |-> n, dst |-> m, id |-> sent + 1]
<1>1. /\ Running(n) /\ sent' = sent + 1
      /\ s \in Manager /\ e \in [Conn -> End] /\ Kept(s, e) /\ Good(n, sent, s, e, r)
      /\ resolving \in [Node -> SUBSET Message] /\ sent \in Nat
  BY DEF Send, IInv, TypeOK, MInv
<1>2. /\ msg \in Mine(n, sent') /\ {msg} \in SUBSET NewMessages
      /\ msg.dst = m /\ msg \in Message
  BY <1>1, BoundAssumption DEF Send, NewMessages, IInv, TypeOK, Message, Mine
<1>3. Mine(n, sent) \subseteq Mine(n, sent')
  BY <1>1, SentMore
<1>4. Fresh({msg}, s, e, r)
  <2>1. msg \notin Mine(n, sent)
    BY <1>1 DEF Mine
  <2> QED BY <2>1, <1>1 DEF Fresh, Good
<1>5. ASSUME UNCHANGED resolving
      PROVE  resolving' = [resolving EXCEPT ![n] = r]
  BY <1>1, <1>5
<1> HIDE DEF msg
<1>6. CASE /\ s.table[m] # None
           /\ Becomes(n, s, SendOn(e, s.table[m], msg))
           /\ UNCHANGED <<resolving, link>>
  <2>1. s.table[m] \in Conn /\ e[s.table[m]].sock # "none"
    BY <1>1, <1>6 DEF Manager, Kept
  <2>2. /\ Passes(n, sent', {msg}, s, e, r, s, SendOn(e, s.table[m], msg), r)
        /\ Onward(e, SendOn(e, s.table[m], msg))
    BY <2>1, <1>1, <1>2, <1>3, <1>4, SendOnPasses
  <2>3. Acts(n)
    BY <2>2, <1>2, <1>5, <1>6, BecomesActs
  <2> QED BY <2>3, <1>1, <1>6 DEF RestOf
<1>7. CASE /\ Becomes(n, [s EXCEPT !.pending[m] = Append(@, msg)], e)
           /\ UNCHANGED <<resolving, link>>
  <2> DEFINE t == [s EXCEPT !.pending[m] = Append(@, msg)]
  <2>1. t.pending = [s.pending EXCEPT ![m] = Append(@, msg)]
    BY <1>1, <1>2, PendingIsFine
  <2>2. Becomes(n, t, e)
    BY <1>7
  <2> HIDE DEF t
  <2>3. Lessens(s, e, s, e) /\ Onward(e, e)
    BY <1>1, SameOnward DEF Lessens
  <2>4. Passes(n, sent', {msg}, s, e, r, t, e, r)
    BY <2>1, <2>3, <1>1, <1>2, <1>3, <1>4, PendingPasses
  <2>5. Acts(n)
    BY <2>2, <2>3, <2>4, <1>2, <1>5, <1>7, BecomesActs
  <2> QED BY <2>5, <1>1, <1>7 DEF RestOf
<1>8. CASE Connect(n, s, msg) /\ UNCHANGED resolving
  <2>1. PICK t, f : /\ Becomes(n, t, f)
                    /\ t.pending = [s.pending EXCEPT ![m] = Append(@, msg)]
                    /\ Lessens(s, e, s, f)
                    /\ Onward(e, f)
                    /\ \A i \in Conn : link'[i] = link[i] \/ link'[i].from # link'[i].to
    BY <1>1, <1>2, <1>8, ConnectEnds
  <2>2. Passes(n, sent', {msg}, s, e, r, t, f, r)
    BY <2>1, <1>1, <1>2, <1>3, <1>4, PendingPasses
  <2>3. Acts(n)
    BY <2>1, <2>2, <1>2, <1>5, <1>8, BecomesActs
  <2> QED BY <2>1, <2>3, <1>1 DEF RestOf
<1>9. CASE /\ resolving' = [resolving EXCEPT ![n] = @ \cup {msg}]
           /\ UNCHANGED <<mgr, end, link, broken>>
  <2> DEFINE q == r \cup {msg}
  <2>1. NoRepeats(s, e)
    BY <1>1 DEF Good
  <2>2. Puts(<<"resolving", None>>, {msg}, s, e, r, s, e, q)
    BY <2>1 DEF Puts, Added
  <2> HIDE DEF q
  <2>3. Passes(n, sent', {msg}, s, e, r, s, e, q)
    BY <2>2, <1>1, <1>2, <1>3, <1>4, PutPasses
  <2>4. Onward(e, e)
    BY <1>1, SameOnward
  <2>5. resolving' = [resolving EXCEPT ![n] = q]
    BY <1>1, <1>9 DEF q
  <2>6. Becomes(n, s, e)
    BY <1>9 DEF Becomes, IInv, TypeOK
  <2>7. Acts(n)
    BY <2>3, <2>4, <2>5, <2>6, <1>2, BecomesActs
  <2> QED BY <2>7, <1>1, <1>9 DEF RestOf
<1> QED BY <1>6, <1>7, <1>8, <1>9 DEF Send, msg

LEMMA ResolvedActs ==
  ASSUME NEW n \in Node, NEW msg \in resolving[n], IInv, MInv, Resolved(n, msg)
  PROVE  Acts(n) /\ RestOf(n)
<1> DEFINE s == mgr[n]  e == end[n]  r == resolving[n]  m == msg.dst
<1>1. /\ Running(n) /\ sent' = sent /\ resolving' = [resolving EXCEPT ![n] = r \ {msg}]
      /\ s \in Manager /\ e \in [Conn -> End] /\ Good(n, sent, s, e, r)
      /\ resolving \in [Node -> SUBSET Message]
  BY DEF Resolved, IInv, TypeOK, MInv
<1>2. msg \in Message /\ m \in Node /\ m # n /\ {} \in SUBSET NewMessages
  BY <1>1 DEF Good, Holds, Views, Mine, Message
<1>3. CASE UNCHANGED <<mgr, end, link, broken>>
  <2>1. Acts(n)
    BY <1>1, <1>3, NothingActs
  <2> QED BY <2>1, <1>1, <1>3 DEF RestOf
<1>4. ASSUME NEW t, NEW f, Becomes(n, t, f), t.pending = [s.pending EXCEPT ![m] = Append(@, msg)],
             Lessens(s, e, s, f), Onward(e, f)
      PROVE  Acts(n)
  <2>1. Passes(n, sent, {}, s, e, r, t, f, r \ {msg})
    BY <1>1, <1>2, <1>4, ResolvedPasses
  <2>2. Passes(n, sent', {}, s, e, r, t, f, r \ {msg})
    BY <2>1, <1>1
  <2> QED BY <2>2, <1>1, <1>2, <1>4, BecomesActs
<1>5. CASE Becomes(n, [s EXCEPT !.pending[m] = Append(@, msg)], e) /\ UNCHANGED link
  <2> DEFINE t == [s EXCEPT !.pending[m] = Append(@, msg)]
  <2>1. t.pending = [s.pending EXCEPT ![m] = Append(@, msg)]
    BY <1>1, <1>2, PendingIsFine
  <2>2. Becomes(n, t, e)
    BY <1>5
  <2> HIDE DEF t
  <2>3. Lessens(s, e, s, e) /\ Onward(e, e)
    BY <1>1, SameOnward DEF Lessens
  <2>4. Acts(n)
    BY <2>1, <2>2, <2>3, <1>4
  <2> QED BY <2>4, <1>1, <1>5 DEF RestOf
<1>6. CASE Connect(n, s, msg)
  <2>1. PICK t, f : /\ Becomes(n, t, f)
                    /\ t.pending = [s.pending EXCEPT ![m] = Append(@, msg)]
                    /\ Lessens(s, e, s, f)
                    /\ Onward(e, f)
                    /\ \A i \in Conn : link'[i] = link[i] \/ link'[i].from # link'[i].to
    BY <1>1, <1>2, <1>6, ConnectEnds
  <2> QED BY <2>1, <1>1, <1>4 DEF RestOf
<1> QED BY <1>3, <1>5, <1>6 DEF Resolved

\* what has waited for a connection to m is sent on connection i; d is e before that,
\* but for its sockets, and f after it
SendsPending(s, t, e, d, f, m, i) ==
  /\ s.pending[m] \in Seq(Message)
  /\ t.pending[m] = <<>> /\ \A j \in Node \ {m} : t.pending[j] = s.pending[j]
  /\ d \in [Conn -> End] /\ d[i].sock # "none"
  /\ \A j \in Conn : d[j].queue = e[j].queue /\ d[j].out = e[j].out /\ d[j].wire = e[j].wire
  /\ \A j \in Conn : /\ f[j].queue = SendAllOn(d, i, s.pending[m])[j].queue
                     /\ f[j].out = SendAllOn(d, i, s.pending[m])[j].out
                     /\ f[j].wire = SendAllOn(d, i, s.pending[m])[j].wire

LEMMA PendingIsSent ==
  ASSUME NEW n \in Node, NEW k, NEW s, NEW t, NEW e, NEW d, NEW f, NEW r, NEW m \in Node,
         NEW i \in Conn, Good(n, k, s, e, r), SendsPending(s, t, e, d, f, m, i)
  PROVE  Passes(n, k, {}, s, e, r, t, f, r) /\ Onward(d, SendAllOn(d, i, s.pending[m]))
<1> USE DEF SendsPending
<1> DEFINE all == s.pending[m]  g == SendAllOn(d, i, all)
<1>1. Passes(n, k, {}, s, e, r, t, d, r)
  <2>1. Lessens(s, e, t, d)
    BY DEF Lessens
  <2> QED BY <2>1, LessPasses
<1>2. Fresh(ToSet(all), t, d, r)
  <2>1. ASSUME NEW v \in Views, NEW msg \in ToSet(all)
        PROVE  ~Holds(v, t, d, r, msg)
    <3>1. Apart(v, s, e, r)
      BY DEF Good
    <3>2. \A j \in Conn : d[j].queue = e[j].queue /\ Sending(v, d[j]) = Sending(v, e[j])
      BY DEF Sending
    <3>3. msg \notin ToSet(t.pending[m])
      BY EmptyOnce
    <3> QED BY <3>1, <3>2, <3>3, <2>1 DEF Apart, Holds
  <2> QED BY <2>1 DEF Fresh
<1>3. \A v \in Views, msg \in ToSet(all) : Holds(v, s, e, r, msg)
  BY DEF Holds
<1>4. IsInjective(all) /\ ToSet(all) \subseteq Mine(n, k)
  BY <1>3 DEF Good, NoRepeats, Views
<1>5. Good(n, k, t, d, r)
  BY <1>1 DEF Passes
<1>6. all \in Seq(Message)
  OBVIOUS
<1> HIDE DEF all
<1>7. Passes(n, k, ToSet(all), t, d, r, t, g, r) /\ Onward(d, g)
  BY <1>2, <1>4, <1>5, <1>6, SendAllOnPasses
<1>8. Lessens(t, g, t, f)
  BY DEF Lessens, all
<1> HIDE DEF g
<1>9. Passes(n, k, {}, t, g, r, t, f, r)
  BY <1>7, <1>8, LessPasses DEF Passes
<1>10. Passes(n, k, {} \cup ToSet(all), s, e, r, t, g, r)
  BY <1>1, <1>7, PassesTwice
<1>11. Passes(n, k, ({} \cup ToSet(all)) \cup {}, s, e, r, t, f, r)
  BY <1>9, <1>10, PassesTwice
<1>12. Passes(n, k, ToSet(all), s, e, r, t, f, r)
  BY <1>11
<1>13. Passes(n, k, {}, s, e, r, t, f, r)
  BY <1>3, <1>12, PassesBack
<1> QED BY <1>7, <1>13 DEF g, all

LEMMA ConnectedActs ==
  ASSUME NEW n \in Node, NEW i \in Conn, IInv, MInv, Connected(n, i)
  PROVE  Acts(n) /\ RestOf(n)
<1> DEFINE s == mgr[n]  m == end[n][i].mapped  t == Given(s, m)  r == resolving[n]
           d == [end[n] EXCEPT ![i].sock = "open"]  all == s.pending[m]
<1>1. /\ Running(n) /\ end[n][i].sock = "connecting"
      /\ link' = [link EXCEPT ![i].made = TRUE]
      /\ sent' = sent /\ UNCHANGED resolving
  BY DEF Connected
<1>2. /\ s \in Manager /\ end[n] \in [Conn -> End] /\ Kept(s, end[n])
      /\ Good(n, sent, s, end[n], r) /\ resolving' = [resolving EXCEPT ![n] = r]
  BY <1>1 DEF IInv, TypeOK, MInv
<1>3. /\ m \in Node /\ s.pending[m] \in Seq(Message)
      /\ s.table[m] # None => s.table[m] \in Conn /\ end[n][s.table[m]].sock = "open"
  BY <1>1, <1>2 DEF Kept, Manager
<1>4. \A j \in Conn : end[n][j] \in End
  BY <1>2
<1>5. /\ d \in [Conn -> End] /\ d[i].sock = "open"
      /\ \A j \in Conn : /\ d[j].queue = end[n][j].queue /\ d[j].out = end[n][j].out
                         /\ d[j].wire = end[n][j].wire /\ (j # i => d[j].sock = end[n][j].sock)
  <2>1. [end[n][i] EXCEPT !.sock = "open"] \in End
    BY <1>4 DEF End
  <2> QED BY <2>1, <1>2, <1>4 DEF End
<1>6. t.pending[m] = <<>> /\ t \in Manager /\ \A j \in Node \ {m} : t.pending[j] = s.pending[j]
  <2>1. t \in Manager /\ t.pending = [s.pending EXCEPT ![m] = <<>>]
    BY <1>2, <1>3, GivenIsFine
  <2>2. s.pending \in [Node -> Seq(Message)]
    BY <1>2 DEF Manager
  <2> QED BY <2>1, <2>2, <1>3
<1> HIDE DEF d, t
<1>7. Onward(end[n], d)
  <2>1. \A j \in Conn : d[j].wire = end[n][j].wire
    BY <1>5
  <2>2. \A j \in Conn : d[j].sock = "none" => end[n][j].sock = "none"
    BY <1>5
  <2> QED BY <2>1, <2>2, <1>2, SameOnward
<1>8. ASSUME NEW j \in Conn, d[j].sock # "none"
      PROVE  /\ SendAllOn(d, j, all) \in [Conn -> End] /\ SameShape(d, SendAllOn(d, j, all))
             /\ Onward(end[n], SendAllOn(d, j, all))
  <2>1. SendAllOn(d, j, all) \in [Conn -> End] /\ SameShape(d, SendAllOn(d, j, all))
    BY <1>3, <1>5, SendAllOnIsFine
  <2>2. Onward(d, SendAllOn(d, j, all))
    <3>1. \A l \in Conn : /\ d[l].queue = end[n][l].queue /\ d[l].out = end[n][l].out
                          /\ d[l].wire = end[n][l].wire
      BY <1>5
    <3>2. d \in [Conn -> End] /\ t.pending[m] = <<>> /\ \A l \in Node \ {m} : t.pending[l] = s.pending[l]
      BY <1>5, <1>6
    <3> DEFINE f == SendAllOn(d, j, all)
    <3>3. SendsPending(s, t, end[n], d, f, m, j)
      BY <3>1, <3>2, <1>3, <1>8 DEF SendsPending
    <3> HIDE DEF f
    <3> QED BY <3>3, <1>2, <1>3, PendingIsSent
  <2> QED BY <2>1, <2>2, <1>2, <1>5, <1>7, OnwardTwice
<1>9. ASSUME NEW t2, NEW f, NEW j \in Conn, Becomes(n, t2, f), t2.pending = t.pending,
             d[j].sock # "none", Onward(end[n], f),
             \A l \in Conn : /\ f[l].queue = SendAllOn(d, j, all)[l].queue
                             /\ f[l].out = SendAllOn(d, j, all)[l].out
                             /\ f[l].wire = SendAllOn(d, j, all)[l].wire
      PROVE  Acts(n)
  <2>1. Passes(n, sent, {}, s, end[n], r, t2, f, r)
    <3>1. \A l \in Conn : /\ d[l].queue = end[n][l].queue /\ d[l].out = end[n][l].out
                          /\ d[l].wire = end[n][l].wire
      BY <1>5
    <3>2. d \in [Conn -> End] /\ t2.pending[m] = <<>> /\ \A l \in Node \ {m} : t2.pending[l] = s.pending[l]
      BY <1>5, <1>6, <1>9
    <3>3. SendsPending(s, t2, end[n], d, f, m, j)
      BY <3>1, <3>2, <1>3, <1>9 DEF SendsPending
    <3> QED BY <3>3, <1>2, <1>3, PendingIsSent
  <2>2. Passes(n, sent', {}, s, end[n], r, t2, f, r) /\ {} \in SUBSET NewMessages
    BY <2>1, <1>1
  <2> QED BY <2>2, <1>2, <1>9, BecomesActs
<1>10. RestOf(n)
  <2>1. \A j \in Conn : link'[j].from = link[j].from /\ link'[j].to = link[j].to
    BY <1>1 DEF IInv, TypeOK
  <2> QED BY <2>1, <1>1 DEF RestOf
<1>11. CASE Becomes(n, [t EXCEPT !.table[m] = i], SendAllOn(d, i, all))
  <2> DEFINE t2 == [t EXCEPT !.table[m] = i]
  <2>1. t2.pending = t.pending
    BY <1>6 DEF Manager
  <2>2. Becomes(n, t2, SendAllOn(d, i, all))
    BY <1>11
  <2> HIDE DEF t2
  <2>3. d[i].sock # "none"
    BY <1>5
  <2> HIDE DEF all
  <2>4. Onward(end[n], SendAllOn(d, i, all))
    BY <2>3, <1>8
  <2>5. Acts(n)
    BY <2>1, <2>2, <2>3, <2>4, <1>9
  <2> QED BY <2>5, <1>10
<1>12. CASE s.table[m] # None /\ Becomes(n, t, Close(SendAllOn(d, s.table[m], all), i))
  <2> DEFINE j == s.table[m]  g == SendAllOn(d, j, all)  f == Close(g, i)
  <2>1. j \in Conn /\ d[j].sock # "none"
    BY <1>3, <1>5, <1>12
  <2>2. Becomes(n, t, f)
    BY <1>12
  <2> HIDE DEF j, all
  <2>3. g \in [Conn -> End] /\ Onward(end[n], g)
    BY <2>1, <1>8
  <2>4. \A l \in Conn : g[l] \in End
    BY <2>3
  <2> HIDE DEF g
  <2>5. \A l \in Conn : /\ f[l].queue = g[l].queue /\ f[l].out = g[l].out /\ f[l].wire = g[l].wire
                        /\ f[l].sock = "none" => g[l].sock = "none"
    BY <2>3, <2>4 DEF Close, End
  <2> HIDE DEF f
  <2>6. Onward(end[n], f)
    BY <2>3, <2>5 DEF Onward
  <2>7. Acts(n)
    BY <2>1, <2>2, <2>5, <2>6, <1>9 DEF g
  <2> QED BY <2>7, <1>10
<1>13. CASE Abort(n, "handle_connect")
  <2>1. UNCHANGED <<mgr, end, sent>> /\ r \in SUBSET resolving[n]
    BY <1>1, <1>13 DEF Abort
  <2>2. Acts(n)
    BY <2>1, <1>2, NothingActs
  <2> QED BY <2>2, <1>10
<1> QED BY <1>11, <1>12, <1>13 DEF Connected, Given, d, t

LEMMA CloseLoses ==
  ASSUME NEW e \in [Conn -> End], NEW i \in Conn, NEW j \in Conn
  PROVE  /\ Close(e, i)[j].queue = e[j].queue /\ Close(e, i)[j].out = e[j].out
         /\ Close(e, i)[j].wire = e[j].wire
         /\ Close(e, i)[j].sock = "none" => e[j].sock = "none"
<1>1. \A l \in Conn : e[l] \in End
  OBVIOUS
<1> QED BY <1>1 DEF Close, End

\* disconnect, after which nobody sends what has waited
LEMMA DisconnectActs ==
  ASSUME NEW n \in Node, NEW i \in Conn, NEW e \in [Conn -> End], IInv, MInv,
         \A j \in Conn : /\ e[j].queue = end[n][j].queue /\ e[j].wire = end[n][j].wire
                         /\ e[j].out \in {end[n][j].out, <<>>}
                         /\ e[j].sock = "none" => end[n][j].sock = "none",
         UNCHANGED <<resolving, sent, link>>, Disconnect(n, i, mgr[n], e)
  PROVE  Acts(n) /\ RestOf(n)
<1> DEFINE s == mgr[n]  m == e[i].mapped
<1>1. s \in Manager /\ end[n] \in [Conn -> End] /\ m \in Node \cup {Temporary}
  BY DEF IInv, TypeOK, End
<1>2. ASSUME NEW t, NEW f \in {e, Close(e, i)}, Becomes(n, t, f),
             \A k \in Node : t.pending[k] \in {s.pending[k], <<>>}
      PROVE  Acts(n)
  <2>1. \A j \in Conn : /\ f[j].queue = e[j].queue /\ f[j].out = e[j].out /\ f[j].wire = e[j].wire
                        /\ f[j].sock = "none" => e[j].sock = "none"
    BY CloseLoses
  <2>2. Lessens(s, end[n], t, f)
    BY <2>1, <1>2 DEF Lessens
  <2>3. \A j \in Conn : f[j].wire = end[n][j].wire
    BY <2>1
  <2>4. \A j \in Conn : f[j].sock = "none" => end[n][j].sock = "none"
    BY <2>1
  <2>5. Onward(end[n], f)
    BY <2>3, <2>4, <1>1, SameOnward
  <2> QED BY <2>2, <2>5, <1>2, LessActs
<1>3. RestOf(n)
  BY DEF RestOf
<1>4. CASE Becomes(n, [s EXCEPT !.fresh = @ \ {i}], Close(e, i))
  <2>1. [s EXCEPT !.fresh = @ \ {i}].pending = s.pending
    BY <1>1 DEF Manager
  <2> QED BY <2>1, <1>2, <1>3, <1>4
<1>5. CASE m # Temporary /\ Becomes(n, [s EXCEPT !.table[m] = None], Close(e, i))
  <2>1. [s EXCEPT !.table[m] = None].pending = s.pending
    BY <1>1 DEF Manager
  <2> QED BY <2>1, <1>2, <1>3, <1>5
<1>6. CASE m # Temporary /\ Becomes(n, Given(s, m), Close(e, i))
  <2>1. m \in Node /\ s.pending \in [Node -> Seq(Message)]
    BY <1>1, <1>6 DEF Manager
  <2>2. Given(s, m).pending = [s.pending EXCEPT ![m] = <<>>]
    BY <2>1, <1>1, GivenIsFine
  <2>3. \A k \in Node : Given(s, m).pending[k] \in {s.pending[k], <<>>}
    BY <2>1, <2>2
  <2> QED BY <2>3, <1>2, <1>3, <1>6
<1>7. CASE Becomes(n, s, e)
  BY <1>2, <1>3, <1>7
<1>8. CASE Abort(n, "disconnect")
  <2>1. UNCHANGED <<mgr, end, sent>> /\ resolving' = [resolving EXCEPT ![n] = resolving[n]]
    BY <1>8 DEF Abort, IInv, TypeOK
  <2> QED BY <2>1, <1>3, NothingActs
<1> QED BY <1>4, <1>5, <1>6, <1>7, <1>8 DEF Disconnect, Given

LEMMA ConnectFailsActs ==
  ASSUME NEW n \in Node, NEW i \in Conn, IInv, MInv, ConnectFails(n, i) \/ ConnectAborted(n, i)
  PROVE  Acts(n) /\ RestOf(n)
<1> DEFINE e == [end[n] EXCEPT ![i].sock = "closed"]
<1>1. Disconnect(n, i, mgr[n], e) /\ UNCHANGED <<resolving, link, sent>>
  BY DEF ConnectFails, ConnectAborted
<1>2. end[n] \in [Conn -> End] /\ \A j \in Conn : end[n][j] \in End
  BY DEF IInv, TypeOK
<1>3. [end[n][i] EXCEPT !.sock = "closed"] \in End
  BY <1>2 DEF End
<1>4. /\ e \in [Conn -> End]
      /\ \A j \in Conn : /\ e[j].queue = end[n][j].queue /\ e[j].wire = end[n][j].wire
                         /\ e[j].out \in {end[n][j].out, <<>>}
                         /\ e[j].sock = "none" => end[n][j].sock = "none"
  BY <1>2, <1>3 DEF End
<1> HIDE DEF e
<1> QED BY <1>1, <1>4, DisconnectActs

LEMMA FailsActs ==
  ASSUME NEW n \in Node, NEW i \in Conn, IInv, MInv, Fails(n, i)
  PROVE  Acts(n) /\ RestOf(n)
<1>1. PICK e \in {end[n], [end[n] EXCEPT ![i].out = <<>>]} : Disconnect(n, i, mgr[n], e)
  BY DEF Fails
<1>2. end[n] \in [Conn -> End] /\ \A j \in Conn : end[n][j] \in End
  BY DEF IInv, TypeOK
<1>3. [end[n][i] EXCEPT !.out = <<>>] \in End
  BY <1>2 DEF End
<1>4. /\ e \in [Conn -> End]
      /\ \A j \in Conn : /\ e[j].queue = end[n][j].queue /\ e[j].wire = end[n][j].wire
                         /\ e[j].out \in {end[n][j].out, <<>>}
                         /\ e[j].sock = "none" => end[n][j].sock = "none"
  <2>1. CASE e = end[n]
    BY <2>1, <1>2
  <2>2. CASE e = [end[n] EXCEPT ![i].out = <<>>]
    BY <2>2, <1>2, <1>3 DEF End
  <2> QED BY <2>1, <2>2, <1>1
<1>5. UNCHANGED <<resolving, link, sent>>
  BY DEF Fails
<1> QED BY <1>1, <1>4, <1>5, DisconnectActs

LEMMA AcceptActs ==
  ASSUME NEW n \in Node, NEW i \in Conn, IInv, MInv, Accept(n, i)
  PROVE  Acts(n) /\ RestOf(n)
<1> DEFINE s == mgr[n]  e == end[n]
           t == [s EXCEPT !.fresh = @ \cup {i}, !.accepting = server[n] = "up"]
           f(old) == [j \in Conn |-> IF j = i THEN [NoEnd EXCEPT !.sock = "open"]
                                     ELSE IF j \in old THEN [e[j] EXCEPT !.queue = <<>>] ELSE e[j]]
<1>1. /\ e[i].sock = "none" /\ e[i].wire = <<>> /\ UNCHANGED <<resolving, link, sent>>
      /\ s \in Manager /\ e \in [Conn -> End] /\ \A j \in Conn : e[j] \in End
  BY DEF Accept, MInv, IInv, TypeOK
<1>2. PICK old \in SUBSET Conn : Becomes(n, t, f(old))
  BY DEF Accept
<1>3. t.pending = s.pending
  BY <1>1 DEF Manager
<1>4. \A j \in Conn : /\ f(old)[j].queue \in {e[j].queue, <<>>} /\ f(old)[j].out \in {e[j].out, <<>>}
                      /\ f(old)[j].wire = e[j].wire
                      /\ f(old)[j].sock = "none" => e[j].sock = "none"
  <2>1. ASSUME NEW j \in Conn
        PROVE  /\ f(old)[j].queue \in {e[j].queue, <<>>} /\ f(old)[j].out \in {e[j].out, <<>>}
               /\ f(old)[j].wire = e[j].wire
               /\ f(old)[j].sock = "none" => e[j].sock = "none"
    <3>1. CASE j = i
      BY <3>1, <1>1 DEF NoEnd
    <3>2. CASE j # i
      BY <3>2, <1>1 DEF End
    <3> QED BY <3>1, <3>2
  <2> QED BY <2>1
<1> HIDE DEF t, f
<1>5. Lessens(s, e, t, f(old))
  BY <1>3, <1>4 DEF Lessens
<1>6. Onward(e, f(old))
  <2>1. \A j \in Conn : f(old)[j].wire = e[j].wire
    BY <1>4
  <2>2. \A j \in Conn : f(old)[j].sock = "none" => e[j].sock = "none"
    BY <1>4
  <2> QED BY <2>1, <2>2, <1>1, SameOnward
<1>7. Acts(n)
  BY <1>1, <1>2, <1>5, <1>6, LessActs
<1> QED BY <1>1, <1>7 DEF RestOf

LEMMA WrittenActs ==
  ASSUME NEW n \in Node, NEW i \in Conn, IInv, MInv, Written(n, i)
  PROVE  Acts(n) /\ RestOf(n)
<1> DEFINE e == end[n]
           x == IF e[i].sock = "open" /\ e[i].queue # <<>>
                  THEN [e[i] EXCEPT !.out = <<Head(e[i].queue)>>, !.queue = Tail(@),
                                    !.wire = Append(@, Head(e[i].queue))]
                  ELSE [e[i] EXCEPT !.out = <<>>]
           f == [e EXCEPT ![i] = x]
<1>1. end' = [end EXCEPT ![n][i] = x] /\ UNCHANGED <<mgr, resolving, link, sent, broken>>
  BY DEF Written
<1>2. /\ mgr[n] \in Manager /\ e \in [Conn -> End] /\ Good(n, sent, mgr[n], e, resolving[n])
      /\ \A j \in Conn : e[j] \in End
  BY DEF IInv, TypeOK, MInv
<1>3. /\ f[i] = x /\ \A j \in Conn \ {i} : f[j] = e[j]
  BY <1>2
<1>4. end' = [end EXCEPT ![n] = f]
  BY <1>1, <1>2 DEF IInv, TypeOK
<1> HIDE DEF f
<1>5. Becomes(n, mgr[n], f)
  BY <1>1, <1>4 DEF Becomes, IInv, TypeOK
<1>6. RestOf(n)
  BY <1>1 DEF RestOf
<1>7. CASE e[i].sock = "open" /\ e[i].queue # <<>>
  <2>1. f[i] = [e[i] EXCEPT !.out = <<Head(e[i].queue)>>, !.queue = Tail(@),
                            !.wire = Append(@, Head(e[i].queue))]
    BY <1>3, <1>7
  <2> HIDE DEF x
  <2>2. Passes(n, sent, {}, mgr[n], e, resolving[n], mgr[n], f, resolving[n])
    BY <2>1, <1>2, <1>3, <1>7, NextPasses
  <2>3. e[i].wire \in Seq(Message) /\ f[i].wire = Append(e[i].wire, Head(e[i].queue))
        /\ f[i].sock = "open"
    BY <2>1, <1>2, <1>7 DEF End
  <2>4. Len(f[i].wire) >= Len(e[i].wire)
    BY <2>3
  <2>5. \A j \in Conn : Len(e[j].wire) \in Nat
    <3>1. \A y \in End : Len(y.wire) \in Nat
      BY DEF End
    <3> QED BY <3>1, <1>2
  <2>6. Onward(e, f)
    BY <2>3, <2>4, <2>5, <1>3 DEF Onward
  <2>7. /\ resolving' = [resolving EXCEPT ![n] = resolving[n]] /\ {} \in SUBSET NewMessages
        /\ Passes(n, sent', {}, mgr[n], e, resolving[n], mgr[n], f, resolving[n])
    BY <2>2, <1>1 DEF IInv, TypeOK
  <2>8. Acts(n)
    BY <2>6, <2>7, <1>5, BecomesActs
  <2> QED BY <2>8, <1>6
<1>8. CASE ~(e[i].sock = "open" /\ e[i].queue # <<>>)
  <2>1. /\ f[i].queue = e[i].queue /\ f[i].out = <<>> /\ f[i].wire = e[i].wire /\ f[i].sock = e[i].sock
    BY <1>2, <1>3, <1>8 DEF End
  <2> HIDE DEF x
  <2>2. Lessens(mgr[n], e, mgr[n], f)
    BY <2>1, <1>3 DEF Lessens
  <2>3. Onward(e, f)
    BY <2>1, <1>2, <1>3, SameOnward
  <2>4. Acts(n)
    BY <2>2, <2>3, <1>1, <1>5, LessActs
  <2> QED BY <2>4, <1>6
<1> QED BY <1>7, <1>8

LEMMA StopServerActs ==
  ASSUME NEW n \in Node, IInv, MInv, StopServer(n)
  PROVE  Acts(n) /\ RestOf(n)
<1>1. UNCHANGED <<mgr, end, sent, link>> /\ resolving' = [resolving EXCEPT ![n] = resolving[n]]
  BY DEF StopServer, IInv, TypeOK
<1>2. Acts(n)
  BY <1>1, NothingActs
<1> QED BY <1>1, <1>2 DEF RestOf

LEMMA DelayedStopActs ==
  ASSUME NEW n \in Node, IInv, MInv, DelayedStop(n)
  PROVE  Acts(n) /\ RestOf(n)
<1> DEFINE s == mgr[n]  e == end[n]
           trying == {m \in Node : s.progress[m] # None}
           known == s.fresh \cup {s.table[m] : m \in Node} \cup {s.progress[m] : m \in trying}
           t(found) == [table |-> [m \in Node |-> None], fresh |-> {}, progress |-> [m \in Node |-> None],
                        pending |-> [m \in Node |-> IF m \in found THEN <<>> ELSE s.pending[m]],
                        accepting |-> FALSE]
           f == [i \in Conn |-> IF i \in known THEN Close(e, i)[i] ELSE e[i]]
<1>1. UNCHANGED <<resolving, link, sent>> /\ e \in [Conn -> End]
  BY DEF DelayedStop, IInv, TypeOK
<1>2. PICK found \in SUBSET trying : Becomes(n, t(found), f)
  BY DEF DelayedStop
<1>3. \A m \in Node : t(found).pending[m] \in {s.pending[m], <<>>}
  OBVIOUS
<1> HIDE DEF t, known
<1>4. \A j \in Conn : /\ f[j].queue = e[j].queue /\ f[j].out = e[j].out /\ f[j].wire = e[j].wire
                      /\ f[j].sock = "none" => e[j].sock = "none"
  BY <1>1, CloseLoses
<1> HIDE DEF f
<1>5. Lessens(s, e, t(found), f)
  BY <1>3, <1>4 DEF Lessens
<1>6. Onward(e, f)
  BY <1>1, <1>4, SameOnward
<1>7. Acts(n)
  BY <1>1, <1>2, <1>5, <1>6, LessActs
<1> QED BY <1>1, <1>7 DEF RestOf

\* n reads the first message that p has written to connection i
Takes(n, p, i) ==
  /\ p \in Node \ {n} /\ end[p][i].wire # <<>>
  /\ UNCHANGED <<resolving, sent, link>>
  /\ \A m \in Node \ {n} : mgr'[m] = mgr[m]
  /\ \A m \in Node \ {n, p} : end'[m] = end[m]
  /\ \A j \in Conn \ {i} : end'[p][j] = end[p][j]
  /\ end'[p][i] = [end[p][i] EXCEPT !.wire = Tail(@)]
  /\ Passes(n, sent, {}, mgr[n], end[n], resolving[n], mgr'[n], end'[n], resolving[n])
  /\ Onward(end[n], end'[n])

LEMMA ReadsWire ==
  ASSUME NEW n \in Node, NEW i \in Conn, NEW t, NEW f \in [Conn -> End], Reads(n, i, t, f),
         end \in [Node -> [Conn -> End]], Peer(n, i) \in Node \ {n}
  PROVE  /\ end'[n] = f /\ \A m \in Node \ {n, Peer(n, i)} : end'[m] = end[m]
         /\ \A j \in Conn \ {i} : end'[Peer(n, i)][j] = end[Peer(n, i)][j]
         /\ end'[Peer(n, i)][i] = [end[Peer(n, i)][i] EXCEPT !.wire = Tail(@)]
<1> DEFINE p == Peer(n, i)  g == [end EXCEPT ![n] = f]
<1>1. g \in [Node -> [Conn -> End]] /\ g[n] = f /\ \A m \in Node \ {n} : g[m] = end[m]
  OBVIOUS
<1>2. end' = [g EXCEPT ![p] = [g[p] EXCEPT ![i] = [g[p][i] EXCEPT !.wire = Tail(@)]]]
  BY DEF Reads
<1> HIDE DEF g, p
<1>3. p \in Node \ {n}
  BY DEF p
<1>4. end'[p] = [g[p] EXCEPT ![i] = [g[p][i] EXCEPT !.wire = Tail(@)]]
      /\ \A m \in Node \ {p} : end'[m] = g[m]
  BY <1>1, <1>2, <1>3
<1>5. g[p] = end[p] /\ g[p] \in [Conn -> End]
  BY <1>1, <1>3
<1>6. /\ end'[n] = f /\ \A m \in Node \ {n, p} : end'[m] = end[m]
      /\ \A j \in Conn \ {i} : end'[p][j] = end[p][j]
      /\ end'[p][i] = [end[p][i] EXCEPT !.wire = Tail(@)]
  BY <1>1, <1>3, <1>4, <1>5
<1> QED BY <1>6 DEF p

LEMMA ReadActs ==
  ASSUME NEW n \in Node, NEW i \in Conn, IInv, MInv, Read(n, i)
  PROVE  RestOf(n) /\ (Acts(n) \/ Takes(n, Peer(n, i), i))
<1> DEFINE p == Peer(n, i)  src == Head(end[p][i].wire).src
           s == mgr[n]  e == end[n]  r == resolving[n]  old == s.table[src]
           first == e[i].mapped = Temporary
           known == [s EXCEPT !.fresh = @ \ {i}, !.table[src] = i]
<1>1. /\ Running(n) /\ e[i].sock = "open" /\ end[p][i].wire # <<>>
      /\ UNCHANGED <<resolving, link, sent, server, faults>>
  BY DEF Read
<1>2. \/ Reads(n, i, s, e)
      \/ Abort(n, "remap")
      \/ Reads(n, i, known, [e EXCEPT ![i].mapped = src])
      \/ first /\ old # None /\ Reads(n, i, known, TakeOver(e, i, old, src))
      \/ Reads(n, i, [s EXCEPT !.fresh = @ \ {i}], Close(e, i))
  BY DEF Read, Reads
<1>3. /\ s \in Manager /\ e \in [Conn -> End] /\ Kept(s, e) /\ Good(n, sent, s, e, r)
      /\ \A j \in Conn : e[j] \in End /\ (e[j].sock # "none" => Tried(j))
      /\ end \in [Node -> [Conn -> End]] /\ mgr \in [Node -> Manager]
  BY <1>1, NodeAsKept DEF IInv, TypeOK, MInv
<1>4. p \in Node \ {n}
  BY <1>1, <1>3 DEF Peer, Tried, MInv
<1>5. src \in Node
  <2>1. end[p] \in [Conn -> End] /\ Good(p, sent, mgr[p], end[p], resolving[p])
    BY <1>3, <1>4 DEF MInv
  <2>2. end[p][i] \in End
    BY <2>1
  <2>3. end[p][i].wire \in Seq(Message)
    BY <2>2 DEF End
  <2>4. Head(end[p][i].wire) \in Message
    BY <2>3, <1>1
  <2> QED BY <2>4 DEF Message
<1>6. RestOf(n)
  BY <1>1 DEF RestOf
<1> HIDE DEF p, src
<1>7. ASSUME NEW t, NEW f \in [Conn -> End], Reads(n, i, t, f), Onward(e, f),
             Passes(n, sent, {}, s, e, r, t, f, r)
      PROVE  Takes(n, p, i)
  <2>3. /\ end'[n] = f /\ \A m \in Node \ {n, p} : end'[m] = end[m]
        /\ \A j \in Conn \ {i} : end'[p][j] = end[p][j]
        /\ end'[p][i] = [end[p][i] EXCEPT !.wire = Tail(@)]
    BY <1>3, <1>4, <1>7, ReadsWire DEF p
  <2>4. mgr'[n] = t /\ \A m \in Node \ {n} : mgr'[m] = mgr[m]
    BY <1>3, <1>7 DEF Reads
  <2> QED BY <2>3, <2>4, <1>1, <1>4, <1>7 DEF Takes, p
<1>8. ASSUME NEW t, NEW f \in [Conn -> End], Reads(n, i, t, f), t.pending = s.pending,
             \A j \in Conn : f[j].queue = e[j].queue /\ f[j].out = e[j].out /\ f[j].wire = e[j].wire,
             \A j \in Conn : f[j].sock = "none" => e[j].sock = "none"
      PROVE  Takes(n, p, i)
  <2>1. Lessens(s, e, t, f)
    BY <1>8 DEF Lessens
  <2>2. Passes(n, sent, {}, s, e, r, t, f, r)
    BY <2>1, <1>3, LessPasses
  <2>3. \A j \in Conn : f[j].wire = e[j].wire
    BY <1>8
  <2>4. Onward(e, f)
    BY <2>3, <1>3, <1>8, SameOnward
  <2> QED BY <2>2, <2>4, <1>7, <1>8
<1>9. known.pending = s.pending
  BY <1>3 DEF Manager
<1> HIDE DEF known
<1>10. CASE Reads(n, i, s, e)
  BY <1>3, <1>6, <1>8, <1>10 DEF p
<1>11. CASE Abort(n, "remap")
  <2>1. UNCHANGED <<mgr, end, sent>> /\ resolving' = [resolving EXCEPT ![n] = r]
    BY <1>1, <1>11 DEF Abort, IInv, TypeOK
  <2>2. Acts(n)
    BY <2>1, NothingActs
  <2> QED BY <2>2, <1>6
<1>12. CASE Reads(n, i, known, [e EXCEPT ![i].mapped = src])
  <2> DEFINE f == [e EXCEPT ![i].mapped = src]
  <2>1. [e[i] EXCEPT !.mapped = src] \in End
    BY <1>3, <1>5 DEF End
  <2>2. f \in [Conn -> End]
    BY <2>1, <1>3
  <2>3. \A j \in Conn : f[j].queue = e[j].queue /\ f[j].out = e[j].out /\ f[j].wire = e[j].wire
                        /\ f[j].sock = e[j].sock
    BY <1>3 DEF End
  <2>4. Reads(n, i, known, f)
    BY <1>12
  <2> HIDE DEF f
  <2>5. Takes(n, p, i)
    BY <2>2, <2>3, <2>4, <1>8, <1>9
  <2> QED BY <2>5, <1>6 DEF p
<1>13. CASE first /\ old # None /\ Reads(n, i, known, TakeOver(e, i, old, src))
  <2> DEFINE f == TakeOver(e, i, old, src)
  <2>1. old \in Conn \ {i}
    BY <1>3, <1>5, <1>13, NodeAssumption DEF Kept, Manager
  <2>2. /\ Passes(n, sent, {}, s, e, r, known, f, r)
        /\ \A j \in Conn : f[j].wire = e[j].wire
    <3> DEFINE o == old  d == e
    <3>1. o \in Conn \ {i} /\ d \in [Conn -> End] /\ Good(n, sent, s, d, r) /\ known.pending = s.pending
      BY <2>1, <1>3, <1>9
    <3> HIDE DEF o, d
    <3>2. /\ Passes(n, sent, {}, s, d, r, known, TakeOver(d, i, o, src), r)
          /\ \A j \in Conn : TakeOver(d, i, o, src)[j].wire = d[j].wire
      BY <3>1, <1>5, TakeOverPasses
    <3> QED BY <3>2 DEF o, d
  <2>3. f \in [Conn -> End]
    BY <2>1, <1>3, <1>5, TakeOverIsFine
  <2>4. \A j \in Conn : f[j].sock = "none" => e[j].sock = "none"
    BY <2>1, <1>3 DEF TakeOver, Close, End
  <2>5. Reads(n, i, known, f)
    BY <1>13
  <2> HIDE DEF f
  <2>6. Onward(e, f)
    BY <2>2, <2>4, <1>3, SameOnward
  <2>7. Takes(n, p, i)
    BY <2>2, <2>3, <2>5, <2>6, <1>7
  <2> QED BY <2>7, <1>6 DEF p
<1>14. CASE Reads(n, i, [s EXCEPT !.fresh = @ \ {i}], Close(e, i))
  <2> DEFINE t == [s EXCEPT !.fresh = @ \ {i}]  f == Close(e, i)
  <2>1. t.pending = s.pending
    BY <1>3 DEF Manager
  <2>2. Reads(n, i, t, f) /\ f \in [Conn -> End]
    BY <1>3, <1>14, CloseIsFine
  <2>3. \A j \in Conn : f[j].queue = e[j].queue /\ f[j].out = e[j].out /\ f[j].wire = e[j].wire
                        /\ (f[j].sock = "none" => e[j].sock = "none")
    BY <1>3, CloseLoses
  <2> HIDE DEF t, f
  <2>4. Takes(n, p, i)
    BY <2>1, <2>2, <2>3, <1>8
  <2> QED BY <2>4, <1>6 DEF p
<1> QED BY <1>2, <1>10, <1>11, <1>12, <1>13, <1>14

LEMMA TakesKeeps ==
  ASSUME NEW n \in Node, NEW p, NEW i \in Conn, IInv, IInv', MInv, Takes(n, p, i)
  PROVE  /\ MInv'
         /\ \A m \in Node : Passes(m, sent, {}, mgr[m], end[m], resolving[m], mgr'[m], end'[m], resolving'[m])
         /\ \A m \in Node : ~Holds("wire", mgr'[m], end'[m], resolving'[m], Head(end[p][i].wire))
         /\ \A m \in Node, j \in Conn : Len(end'[m][j].wire) < Len(end[m][j].wire) => m = p /\ j = i
<1> DEFINE msg == Head(end[p][i].wire)
<1>1. /\ p \in Node \ {n} /\ end[p][i].wire # <<>> /\ UNCHANGED <<resolving, sent, link>>
      /\ mgr'[p] = mgr[p] /\ \A j \in Conn \ {i} : end'[p][j] = end[p][j]
      /\ end'[p][i] = [end[p][i] EXCEPT !.wire = Tail(@)]
      /\ \A m \in Node \ {n, p} : mgr'[m] = mgr[m] /\ end'[m] = end[m]
  BY DEF Takes
<1>2. end \in [Node -> [Conn -> End]] /\ \A m \in Node : Good(m, sent, mgr[m], end[m], resolving[m])
  BY DEF IInv, TypeOK, MInv
<1>3. /\ Passes(p, sent, {}, mgr[p], end[p], resolving[p], mgr'[p], end'[p], resolving'[p])
      /\ ~Holds("wire", mgr'[p], end'[p], resolving'[p], msg)
      /\ msg \in Mine(p, sent)
  <2>1. end[p] \in [Conn -> End] /\ Good(p, sent, mgr[p], end[p], resolving[p])
    BY <1>1, <1>2
  <2> DEFINE g == end'[p]  d == end[p]
  <2>2. \A j \in Conn \ {i} : g[j] = d[j]
    BY <1>1
  <2>3. g[i] = [d[i] EXCEPT !.wire = Tail(@)] /\ d[i].wire # <<>> /\ p \in Node
    BY <1>1
  <2> HIDE DEF g, d
  <2>4. d \in [Conn -> End] /\ Good(p, sent, mgr[p], d, resolving[p])
    BY <2>1 DEF d
  <2>5. /\ Passes(p, sent, {}, mgr[p], d, resolving[p], mgr[p], g, resolving[p])
        /\ ~Holds("wire", mgr[p], g, resolving[p], Head(d[i].wire))
        /\ Head(d[i].wire) \in Mine(p, sent)
    BY <2>2, <2>3, <2>4, TailPasses
  <2> QED BY <2>5, <1>1 DEF g, d
<1>4. Passes(n, sent, {}, mgr[n], end[n], resolving[n], mgr'[n], end'[n], resolving'[n])
  BY <1>1 DEF Takes
<1>5. ASSUME NEW m \in Node \ {n, p}
      PROVE  Passes(m, sent, {}, mgr[m], end[m], resolving[m], mgr'[m], end'[m], resolving'[m])
  BY <1>1, <1>2 DEF Passes
<1>6. \A m \in Node : Passes(m, sent, {}, mgr[m], end[m], resolving[m], mgr'[m], end'[m], resolving'[m])
  BY <1>3, <1>4, <1>5
<1>7. \A m \in Node : Good(m, sent, mgr'[m], end'[m], resolving'[m])
  BY <1>6 DEF Passes
<1>8. \A m \in Node : ~Holds("wire", mgr'[m], end'[m], resolving'[m], msg)
  <2>1. \A m \in Node \ {p} : msg \notin Mine(m, sent)
    BY <1>3 DEF Mine
  <2> QED BY <2>1, <1>3, <1>7 DEF Good, Views
<1>9. \A m \in Node, j \in Conn : Len(end'[m][j].wire) < Len(end[m][j].wire) => m = p /\ j = i
  <2>1. \A m \in Node, j \in Conn : Len(end[m][j].wire) \in Nat /\ Len(end'[m][j].wire) \in Nat
    <3>1. \A x \in End : Len(x.wire) \in Nat
      BY DEF End
    <3>2. end' \in [Node -> [Conn -> End]]
      BY DEF IInv, TypeOK
    <3> QED BY <3>1, <3>2, <1>2
  <2>2. \A x, y \in Nat : ~(x < x) /\ (x >= y => ~(x < y))
    OBVIOUS
  <2>3. ASSUME NEW m \in Node \ {n, p}, NEW j \in Conn
        PROVE  ~(Len(end'[m][j].wire) < Len(end[m][j].wire))
    <3>1. end'[m][j].wire = end[m][j].wire
      BY <1>1
    <3> QED BY <2>1, <2>2, <3>1
  <2>4. ASSUME NEW j \in Conn \ {i}
        PROVE  ~(Len(end'[p][j].wire) < Len(end[p][j].wire))
    <3>1. end'[p][j].wire = end[p][j].wire
      BY <1>1
    <3> QED BY <1>1, <2>1, <2>2, <3>1
  <2>5. ASSUME NEW j \in Conn
        PROVE  ~(Len(end'[n][j].wire) < Len(end[n][j].wire))
    <3>1. Len(end'[n][j].wire) >= Len(end[n][j].wire)
      BY DEF Takes, Onward
    <3> QED BY <2>1, <2>2, <3>1
  <2> QED BY <2>3, <2>4, <2>5
<1>10. MInv'
  <2>1. \A m \in Node, j \in Conn : end'[m][j].sock = "none" => end'[m][j].wire = <<>>
    <3>1. ASSUME NEW j \in Conn
          PROVE  end'[p][j].sock = "none" => end'[p][j].wire = <<>>
      <4>1. CASE j = i
        <5>1. end[p][i] \in End
          BY <1>1, <1>2
        <5>2. end'[p][i].sock = end[p][i].sock
          BY <5>1, <1>1 DEF End
        <5> QED BY <4>1, <5>2, <1>1 DEF MInv
      <4>2. CASE j # i
        BY <4>2, <1>1 DEF MInv
      <4> QED BY <4>1, <4>2
    <3>2. \A j \in Conn : end'[n][j].sock = "none" => end'[n][j].wire = <<>>
      BY DEF Takes, Onward, MInv
    <3> QED BY <3>1, <3>2, <1>1 DEF MInv
  <2>2. \A j \in Conn : Tried(j)' => link'[j].from # link'[j].to
    BY <1>1 DEF MInv, Tried
  <2>3. \A m \in Node : Good(m, sent', mgr'[m], end'[m], resolving'[m])
    BY <1>1, <1>7
  <2> QED BY <2>1, <2>2, <2>3 DEF MInv, Good, NoRepeats, Apart, Holds, Sending, Mine
<1> QED BY <1>6, <1>8, <1>9, <1>10

-----------------------------------------------------------------------------

LEMMA InitHoldsNothing == Init => MInv
<1> SUFFICES ASSUME Init PROVE MInv
  OBVIOUS
<1>1. \A n \in Node : /\ \A m \in Node : mgr[n].pending[m] = <<>>
                      /\ \A i \in Conn : end[n][i].queue = <<>> /\ end[n][i].out = <<>> /\ end[n][i].wire = <<>>
                      /\ resolving[n] = {}
  BY DEF Init, NoEnd
<1>2. ASSUME NEW n \in Node
      PROVE  Good(n, sent, mgr[n], end[n], resolving[n])
  <2>1. NoRepeats(mgr[n], end[n])
    BY <1>1, EmptyOnce DEF NoRepeats
  <2>2. \A f \in Views : Apart(f, mgr[n], end[n], resolving[n])
    BY <1>1, EmptyOnce DEF Apart, Sending
  <2>3. \A f \in Views : \A msg : ~Holds(f, mgr[n], end[n], resolving[n], msg)
    BY <1>1, EmptyOnce DEF Holds, Sending
  <2> QED BY <2>1, <2>2, <2>3 DEF Good
<1>3. \A i \in Conn : ~Tried(i)
  BY NodeAssumption DEF Init, Tried, NoLink
<1> QED BY <1>1, <1>2, <1>3 DEF MInv

\* every step is one node's, which only reads from another, or changes nothing
LEMMA StepActs ==
  ASSUME IInv, MInv, [Next]_vars
  PROVE  \/ \E n \in Node : RestOf(n) /\ Acts(n)
         \/ \E n \in Node, i \in Conn : RestOf(n) /\ Takes(n, Peer(n, i), i)
         \/ UNCHANGED vars
<1>1. CASE UNCHANGED vars
  BY <1>1
<1>2. ASSUME NEW n \in Node, NEW m \in Node \ {n}, Send(n, m) PROVE Acts(n) /\ RestOf(n)
  BY <1>2, SendActs
<1>3. ASSUME NEW n \in Node, NEW msg \in resolving[n], Resolved(n, msg) PROVE Acts(n) /\ RestOf(n)
  BY <1>3, ResolvedActs
<1>4. ASSUME NEW n \in Node, NEW i \in Conn, Connected(n, i) PROVE Acts(n) /\ RestOf(n)
  BY <1>4, ConnectedActs
<1>5. ASSUME NEW n \in Node, NEW i \in Conn, ConnectFails(n, i) \/ ConnectAborted(n, i)
      PROVE  Acts(n) /\ RestOf(n)
  BY <1>5, ConnectFailsActs
<1>6. ASSUME NEW n \in Node, NEW i \in Conn, Accept(n, i) PROVE Acts(n) /\ RestOf(n)
  BY <1>6, AcceptActs
<1>7. ASSUME NEW n \in Node, NEW i \in Conn, Read(n, i)
      PROVE  RestOf(n) /\ (Acts(n) \/ Takes(n, Peer(n, i), i))
  BY <1>7, ReadActs
<1>8. ASSUME NEW n \in Node, NEW i \in Conn, Fails(n, i) PROVE Acts(n) /\ RestOf(n)
  BY <1>8, FailsActs
<1>9. ASSUME NEW n \in Node, NEW i \in Conn, Written(n, i) PROVE Acts(n) /\ RestOf(n)
  BY <1>9, WrittenActs
<1>10. ASSUME NEW n \in Node, StopServer(n) PROVE Acts(n) /\ RestOf(n)
  BY <1>10, StopServerActs
<1>11. ASSUME NEW n \in Node, DelayedStop(n) PROVE Acts(n) /\ RestOf(n)
  BY <1>11, DelayedStopActs
<1> QED
  BY <1>1, <1>2, <1>3, <1>4, <1>5, <1>6, <1>7, <1>8, <1>9, <1>10, <1>11 DEF Next

LEMMA NextKeepsMessages == IInv /\ MInv /\ [Next]_vars => MInv'
<1> SUFFICES ASSUME IInv, MInv, [Next]_vars PROVE MInv'
  OBVIOUS
<1>1. CASE \E n \in Node : RestOf(n) /\ Acts(n)
  BY <1>1, ActsKeeps
<1>2. CASE \E n \in Node, i \in Conn : RestOf(n) /\ Takes(n, Peer(n, i), i)
  BY <1>2, TakesKeeps, NextKeeps
<1>3. CASE UNCHANGED vars
  <2>1. \A n \in Node : Good(n, sent', mgr'[n], end'[n], resolving'[n])
    BY <1>3 DEF vars, MInv
  <2>2. \A i \in Conn : Tried(i)' => link'[i].from # link'[i].to
    BY <1>3 DEF vars, MInv, Tried
  <2>3. \A n \in Node, i \in Conn : end'[n][i].sock = "none" => end'[n][i].wire = <<>>
    BY <1>3 DEF vars, MInv
  <2> QED BY <2>1, <2>2, <2>3 DEF MInv, Good, NoRepeats, Apart, Holds, Sending, Mine
<1> QED BY <1>1, <1>2, <1>3, StepActs

\* Where the messages are is an invariant.
THEOREM MessageInvariance == Spec => []MInv
BY Invariance, InitHoldsNothing, NextKeepsMessages, PTL DEF Spec

LEMMA Places ==
  ASSUME NEW n \in Node, NEW f \in Views, NEW x \in Holding(n, f)
  PROVE  \/ \E m \in Node : x = <<"pending", m>> /\ At(n, x) = mgr[n].pending[m]
         \/ \E i \in Conn : x = <<"queue", i>> /\ At(n, x) = end[n][i].queue
         \/ \E i \in Conn : x = <<f, i>> /\ At(n, x) = Sending(f, end[n][i])
BY DEF Holding, At, Views, Sending

\* However often a message is put off, resolved twice or handed to another connection,
\* a node keeps it at one place, so that its payload is freed once.
THEOREM MessageHasOneOwner == Spec => []OneOwner
<1>1. MInv => OneOwner
  <2> SUFFICES ASSUME MInv, NEW n \in Node, NEW x \in Holding(n, "out")
               PROVE  /\ IsInjective(At(n, x))
                      /\ ToSet(At(n, x)) \cap resolving[n] = {}
                      /\ \A y \in Holding(n, "out") : x # y => ToSet(At(n, x)) \cap ToSet(At(n, y)) = {}
    BY DEF OneOwner
  <2>1. Apart("out", mgr[n], end[n], resolving[n]) /\ NoRepeats(mgr[n], end[n])
    BY DEF MInv, Good, Views
  <2>2. /\ IsInjective(At(n, x))
        /\ ToSet(At(n, x)) \cap resolving[n] = {}
    BY <2>1, Places DEF Apart, NoRepeats, Sending, Views
  <2>3. ASSUME NEW y \in Holding(n, "out"), x # y
        PROVE  ToSet(At(n, x)) \cap ToSet(At(n, y)) = {}
    <3>1. \/ \E m \in Node : x = <<"pending", m>> /\ At(n, x) = mgr[n].pending[m]
          \/ \E i \in Conn : x = <<"queue", i>> /\ At(n, x) = end[n][i].queue
          \/ \E i \in Conn : x = <<"out", i>> /\ At(n, x) = Sending("out", end[n][i])
      BY Places DEF Views
    <3>2. \/ \E m \in Node : y = <<"pending", m>> /\ At(n, y) = mgr[n].pending[m]
          \/ \E i \in Conn : y = <<"queue", i>> /\ At(n, y) = end[n][i].queue
          \/ \E i \in Conn : y = <<"out", i>> /\ At(n, y) = Sending("out", end[n][i])
      BY Places DEF Views
    <3>3. CASE \E m \in Node : x = <<"pending", m>> /\ At(n, x) = mgr[n].pending[m]
      BY <3>2, <3>3, <2>1, <2>3 DEF Apart
    <3>4. CASE \E i \in Conn : x = <<"queue", i>> /\ At(n, x) = end[n][i].queue
      BY <3>2, <3>4, <2>1, <2>3 DEF Apart
    <3>5. CASE \E i \in Conn : x = <<"out", i>> /\ At(n, x) = Sending("out", end[n][i])
      BY <3>2, <3>5, <2>1, <2>3 DEF Apart
    <3> QED BY <3>1, <3>3, <3>4, <3>5
  <2> QED BY <2>2, <2>3
<1> QED BY <1>1, MessageInvariance, PTL

LEMMA TransitHeld ==
  \A msg : msg \in InTransit <=> \E n \in Node : Holds("wire", mgr[n], end[n], resolving[n], msg)
<1>1. ASSUME NEW msg, NEW n \in Node, NEW x \in Holding(n, "wire"), msg \in ToSet(At(n, x))
      PROVE  Holds("wire", mgr[n], end[n], resolving[n], msg)
  BY <1>1, Places DEF Holds, Views
<1>2. ASSUME NEW msg, NEW n \in Node, Holds("wire", mgr[n], end[n], resolving[n], msg), msg \notin resolving[n]
      PROVE  \E x \in Holding(n, "wire") : msg \in ToSet(At(n, x))
  <2>1. ASSUME NEW m \in Node, msg \in ToSet(mgr[n].pending[m])
        PROVE  \E x \in Holding(n, "wire") : msg \in ToSet(At(n, x))
    <3>1. At(n, <<"pending", m>>) = mgr[n].pending[m] /\ mgr[n].pending[m] # <<>>
      BY <2>1, EmptyOnce DEF At
    <3>2. <<"pending", m>> \in Holding(n, "wire")
      BY <3>1 DEF Holding
    <3> QED BY <2>1, <3>1, <3>2
  <2>2. ASSUME NEW i \in Conn, msg \in ToSet(end[n][i].queue)
        PROVE  \E x \in Holding(n, "wire") : msg \in ToSet(At(n, x))
    <3>1. At(n, <<"queue", i>>) = end[n][i].queue /\ end[n][i].queue # <<>>
      BY <2>2, EmptyOnce DEF At
    <3>2. <<"queue", i>> \in Holding(n, "wire")
      BY <3>1 DEF Holding
    <3> QED BY <2>2, <3>1, <3>2
  <2>3. ASSUME NEW i \in Conn, msg \in ToSet(end[n][i].wire)
        PROVE  \E x \in Holding(n, "wire") : msg \in ToSet(At(n, x))
    <3>1. At(n, <<"wire", i>>) = end[n][i].wire /\ end[n][i].wire # <<>>
      BY <2>3, EmptyOnce DEF At
    <3>2. <<"wire", i>> \in Holding(n, "wire")
      BY <3>1 DEF Holding
    <3> QED BY <2>3, <3>1, <3>2
  <2> QED BY <1>2, <2>1, <2>2, <2>3 DEF Holds, Sending
<1>3. ASSUME NEW msg, NEW n \in Node, msg \in resolving[n]
      PROVE  Holds("wire", mgr[n], end[n], resolving[n], msg)
  BY <1>3 DEF Holds
<1> QED BY <1>1, <1>2, <1>3 DEF InTransit

\* However often it is put off, resolved or handed over, a message that is read is
\* nowhere on its way any more, and only a new send puts one on its way.
THEOREM DeliveredAtMostOnce == Spec => AtMostOnce
<1> DEFINE Once == /\ \A msg \in InTransit' \ InTransit : msg.id > sent
                   /\ \A n \in Node, i \in Conn : Len(end'[n][i].wire) < Len(end[n][i].wire) =>
                        Head(end[n][i].wire) \notin InTransit'
<1>1. (\A msg : msg \in InTransit <=> \E n \in Node : Holds("wire", mgr[n], end[n], resolving[n], msg))'
  BY TransitHeld, PTL
<1>2. \A msg : msg \in InTransit' <=> \E n \in Node : Holds("wire", mgr'[n], end'[n], resolving'[n], msg)
  BY <1>1 DEF Holds, Sending
<1>3. IInv /\ MInv /\ [Next]_vars => [Once]_vars
  <2> SUFFICES ASSUME IInv, MInv, [Next]_vars PROVE [Once]_vars
    OBVIOUS
  <2>1. ASSUME NEW n \in Node, RestOf(n), Acts(n)
        PROVE  Once
    <3>1. \A m \in Node : \A msg : Holds("wire", mgr'[m], end'[m], resolving'[m], msg) =>
            Holds("wire", mgr[m], end[m], resolving[m], msg) \/ msg.id > sent
      BY <2>1 DEF Acts, Passes, Views, NewMessages
    <3>2. \A m \in Node, i \in Conn : ~(Len(end'[m][i].wire) < Len(end[m][i].wire))
      <4>1. \A x \in End : Len(x.wire) \in Nat
        BY DEF End
      <4>2. \A m \in Node, i \in Conn : Len(end[m][i].wire) \in Nat /\ Len(end'[m][i].wire) \in Nat
        BY <4>1, NextKeeps DEF IInv, TypeOK
      <4>3. \A m \in Node, i \in Conn : Len(end'[m][i].wire) >= Len(end[m][i].wire)
        BY <2>1, <4>2 DEF Acts, Onward
      <4>4. \A a, b \in Nat : a >= b => ~(a < b)
        OBVIOUS
      <4> QED BY <4>2, <4>3, <4>4
    <3> QED BY <3>1, <3>2, <1>2, TransitHeld
  <2>2. ASSUME NEW n \in Node, NEW i \in Conn, RestOf(n), Takes(n, Peer(n, i), i)
        PROVE  Once
    <3>1. \A m \in Node : \A msg : Holds("wire", mgr'[m], end'[m], resolving'[m], msg) =>
            Holds("wire", mgr[m], end[m], resolving[m], msg)
      BY <2>2, TakesKeeps, NextKeeps DEF Passes, Views
    <3>2. \A m \in Node, j \in Conn : Len(end'[m][j].wire) < Len(end[m][j].wire) =>
            \A l \in Node : ~Holds("wire", mgr'[l], end'[l], resolving'[l], Head(end[m][j].wire))
      BY <2>2, TakesKeeps, NextKeeps
    <3> QED BY <3>1, <3>2, <1>2, TransitHeld
  <2> QED BY <2>1, <2>2, StepActs
<1>4. []IInv /\ []MInv /\ [][Next]_vars => [][Once]_vars
  BY <1>3, PTL
<1> QED BY <1>4, Invariance, MessageInvariance, PTL DEF Spec, AtMostOnce

--------------------------------------------------------------------
(* No message that waits for a connection, or on it, is dropped.           *)

LEMMA AppendAdds ==
  ASSUME NEW S, NEW q \in Seq(S), NEW x \in S
  PROVE  ToSet(q) \subseteq ToSet(Append(q, x)) /\ x \in ToSet(Append(q, x))
<1> DEFINE a == Append(q, x)
<1>1. /\ DOMAIN q = 1..Len(q) /\ DOMAIN a = 1..(Len(q) + 1) /\ Len(q) \in Nat
      /\ \A k \in 1..Len(q) : k \in DOMAIN a /\ a[k] = q[k]
      /\ Len(q) + 1 \in DOMAIN a /\ a[Len(q) + 1] = x
  OBVIOUS
<1> HIDE DEF a
<1> QED BY <1>1 DEF ToSet, a

LEMMA ConcatAdds ==
  ASSUME NEW S, NEW q \in Seq(S), NEW u \in Seq(S)
  PROVE  ToSet(q) \subseteq ToSet(q \o u) /\ ToSet(u) \subseteq ToSet(q \o u)
<1> DEFINE a == q \o u
<1>1. /\ DOMAIN q = 1..Len(q) /\ DOMAIN u = 1..Len(u)
      /\ \A k \in 1..Len(q) : k \in DOMAIN a /\ a[k] = q[k]
      /\ \A k \in 1..Len(u) : k + Len(q) \in DOMAIN a /\ a[k + Len(q)] = u[k]
  OBVIOUS
<1> HIDE DEF a
<1> QED BY <1>1 DEF ToSet, a

LEMMA HeadAndTail ==
  ASSUME NEW S, NEW q \in Seq(S), q # <<>>
  PROVE  ToSet(q) \subseteq {Head(q)} \cup ToSet(Tail(q))
<1> DEFINE a == Tail(q)
<1>1. /\ DOMAIN q = 1..Len(q) /\ Head(q) = q[1]
      /\ \A k \in DOMAIN q : k # 1 => k - 1 \in DOMAIN a /\ a[k - 1] = q[k]
  OBVIOUS
<1> HIDE DEF a
<1> SUFFICES ASSUME NEW k \in DOMAIN q PROVE q[k] \in {Head(q)} \cup ToSet(a)
  BY DEF ToSet, a
<1> QED BY <1>1 DEF ToSet

\* the messages for m that wait at a node with manager s and connections e
Waits(s, e, m) == ToSet(s.pending[m]) \cup IF s.table[m] = None THEN {} ELSE ToSet(e[s.table[m]].queue)

\* the node has dropped none of them when its manager is t and its connections are f
Retains(s, t, e, f) ==
  \A m \in Node : t.table[m] # None =>
    Waits(s, e, m) \ Waits(t, f, m) \subseteq ToSet(f[t.table[m]].out)

\* what a step of node n has to show
Retaining(n) ==
  /\ Retains(mgr[n], mgr'[n], end[n], end'[n])
  /\ \A k \in Node \ {n} : /\ mgr'[k] = mgr[k]
                           /\ \A i \in Conn : end'[k][i].queue = end[k][i].queue

LEMMA RetainsByParts ==
  ASSUME NEW s, NEW t, NEW e, NEW f,
         \A m \in Node : t.table[m] # None =>
           /\ \A x \in ToSet(s.pending[m]) :
                x \in ToSet(t.pending[m]) \/ x \in ToSet(f[t.table[m]].queue) \/ x \in ToSet(f[t.table[m]].out)
           /\ s.table[m] # None => \A x \in ToSet(e[s.table[m]].queue) :
                x \in ToSet(f[t.table[m]].queue) \/ x \in ToSet(f[t.table[m]].out)
  PROVE  Retains(s, t, e, f)
BY DEF Retains, Waits

LEMMA BecomesRetains ==
  ASSUME NEW n \in Node, NEW t, NEW f, IInv, Becomes(n, t, f), Retains(mgr[n], t, end[n], f)
  PROVE  Retaining(n)
<1>1. /\ mgr'[n] = t /\ end'[n] = f
      /\ \A m \in Node \ {n} : mgr'[m] = mgr[m] /\ end'[m] = end[m]
  BY DEF Becomes, IInv, TypeOK
<1> QED BY <1>1 DEF Retaining

LEMMA StaysRetains ==
  ASSUME NEW n \in Node, UNCHANGED <<mgr, end>>
  PROVE  Retaining(n)
<1>1. Retains(mgr[n], mgr[n], end[n], end[n])
  BY DEF Retains
<1> QED BY <1>1 DEF Retaining

\* the maps keep their connections, and the connections their queues
LEMMA QueuesRetain ==
  ASSUME NEW s \in Manager, NEW t, NEW e, NEW f,
         \A m \in Node : t.table[m] # None =>
           /\ t.table[m] = s.table[m]
           /\ ToSet(s.pending[m]) \subseteq ToSet(t.pending[m])
           /\ ToSet(e[s.table[m]].queue) \subseteq ToSet(f[s.table[m]].queue)
  PROVE  Retains(s, t, e, f)
BY RetainsByParts

LEMMA SendOnRetains ==
  ASSUME NEW e \in [Conn -> End], NEW i \in Conn, NEW msg \in Message
  PROVE  /\ \A j \in Conn : ToSet(e[j].queue) \subseteq ToSet(SendOn(e, i, msg)[j].queue)
         /\ \/ msg \in ToSet(SendOn(e, i, msg)[i].queue)
            \/ msg \in ToSet(SendOn(e, i, msg)[i].out)
<1>1. e[i] \in End /\ e[i].queue \in Seq(Message)
  BY DEF End
<1>2. CASE e[i].out = <<>>
  <2>1. /\ SendOn(e, i, msg)[i].queue = e[i].queue /\ SendOn(e, i, msg)[i].out = <<msg>>
        /\ \A j \in Conn \ {i} : SendOn(e, i, msg)[j] = e[j]
    BY <1>1, <1>2 DEF SendOn, End
  <2> QED BY <2>1, SingleOnce
<1>3. CASE e[i].out # <<>>
  <2>1. /\ SendOn(e, i, msg)[i].queue = Append(e[i].queue, msg)
        /\ \A j \in Conn \ {i} : SendOn(e, i, msg)[j] = e[j]
    BY <1>1, <1>3 DEF SendOn, End
  <2> QED BY <2>1, <1>1, AppendAdds
<1> QED BY <1>2, <1>3

LEMMA SendAllOnRetains ==
  ASSUME NEW e \in [Conn -> End], NEW i \in Conn, NEW all \in Seq(Message)
  PROVE  /\ \A j \in Conn : ToSet(e[j].queue) \subseteq ToSet(SendAllOn(e, i, all)[j].queue)
         /\ \A x \in ToSet(all) : \/ x \in ToSet(SendAllOn(e, i, all)[i].queue)
                                  \/ x \in ToSet(SendAllOn(e, i, all)[i].out)
<1>1. CASE all = <<>>
  BY <1>1, EmptyOnce DEF SendAllOn
<1>2. CASE all # <<>>
  <2> DEFINE f == SendOn(e, i, Head(all))  g == SendAllOn(e, i, all)
  <2>1. Head(all) \in Message /\ Tail(all) \in Seq(Message)
    BY <1>2
  <2>2. /\ f \in [Conn -> End]
        /\ \A j \in Conn : ToSet(e[j].queue) \subseteq ToSet(f[j].queue)
        /\ Head(all) \in ToSet(f[i].queue) \/ Head(all) \in ToSet(f[i].out)
    BY <2>1, SendOnIsFine, SendOnRetains
  <2>3. g = [f EXCEPT ![i].queue = @ \o Tail(all)]
    BY <1>2 DEF SendAllOn
  <2> HIDE DEF f, g
  <2>4. f[i] \in End /\ f[i].queue \in Seq(Message)
    BY <2>2 DEF End
  <2>5. /\ g[i].queue = f[i].queue \o Tail(all) /\ g[i].out = f[i].out
        /\ \A j \in Conn \ {i} : g[j] = f[j]
    BY <2>2, <2>3, <2>4 DEF End
  <2>6. ToSet(f[i].queue) \subseteq ToSet(g[i].queue) /\ ToSet(Tail(all)) \subseteq ToSet(g[i].queue)
    BY <2>1, <2>4, <2>5, ConcatAdds
  <2>7. ToSet(all) \subseteq {Head(all)} \cup ToSet(Tail(all))
    BY <1>2, HeadAndTail
  <2> QED BY <2>2, <2>5, <2>6, <2>7 DEF g
<1> QED BY <1>1, <1>2

\* a message is put off
LEMMA PendingRetains ==
  ASSUME NEW s \in Manager, NEW t, NEW e, NEW f, NEW m \in Node, NEW msg \in Message,
         t.table = s.table, t.pending = [s.pending EXCEPT ![m] = Append(@, msg)],
         \A k \in Node : s.table[k] # None => f[s.table[k]] = e[s.table[k]]
  PROVE  Retains(s, t, e, f)
<1>1. s.pending \in [Node -> Seq(Message)]
  BY DEF Manager
<1>2. \A k \in Node : ToSet(s.pending[k]) \subseteq ToSet(t.pending[k])
  BY <1>1, AppendAdds
<1> QED BY <1>2, QueuesRetain

LEMMA ConnectRetains ==
  ASSUME NEW n \in Node, NEW msg \in Message, IInv, Running(n), Connect(n, mgr[n], msg)
  PROVE  Retaining(n)
<1> DEFINE s == mgr[n]  m == msg.dst  e == end[n]
<1>1. PICK i \in Conn :
        /\ link[i] = NoLink
        /\ Becomes(n, [s EXCEPT !.progress[m] = i, !.pending[m] = Append(@, msg)],
                      [e EXCEPT ![i] = [NoEnd EXCEPT !.sock = "connecting", !.mapped = m]])
  BY DEF Connect
<1> DEFINE t == [s EXCEPT !.progress[m] = i, !.pending[m] = Append(@, msg)]
           f == [e EXCEPT ![i] = [NoEnd EXCEPT !.sock = "connecting", !.mapped = m]]
<1>2. s \in Manager /\ e \in [Conn -> End] /\ Kept(s, e) /\ m \in Node
  BY NodeAsKept DEF IInv, TypeOK, Message
<1>3. e[i].sock = "none"
  BY <1>1, NodeAssumption DEF IInv, Linked, Tried, NoLink
<1>4. \A j \in Conn \ {i} : f[j] = e[j]
  BY <1>2
<1>5. t.table = s.table /\ t.pending = [s.pending EXCEPT ![m] = Append(@, msg)]
  BY <1>2 DEF Manager
<1>6. Becomes(n, t, f)
  BY <1>1
<1>7. \A k \in Node : s.table[k] # None => s.table[k] \in Conn \ {i}
  BY <1>2, <1>3 DEF Kept, Manager
<1> HIDE DEF t, f
<1>8. Retains(s, t, e, f)
  BY <1>2, <1>4, <1>5, <1>7, PendingRetains
<1> QED BY <1>6, <1>8, BecomesRetains

LEMMA SendRetains ==
  ASSUME NEW n \in Node, NEW m \in Node \ {n}, IInv, Send(n, m)
  PROVE  Retaining(n)
<1> DEFINE s == mgr[n]  e == end[n]  msg == [src |-> n, dst |-> m, id |-> sent + 1]
<1>1. /\ s \in Manager /\ e \in [Conn -> End] /\ Running(n) /\ sent < MaxMessages /\ sent \in Nat
  BY DEF Send, IInv, TypeOK
<1>2. msg \in Message
  BY <1>1, BoundAssumption DEF Message
<1>3. CASE s.table[m] # None /\ Becomes(n, s, SendOn(e, s.table[m], msg))
  <2>1. s.table[m] \in Conn /\ \A k \in Node : s.table[k] # None => s.table[k] \in Conn
    BY <1>1, <1>3 DEF Manager
  <2>2. \A j \in Conn : ToSet(e[j].queue) \subseteq ToSet(SendOn(e, s.table[m], msg)[j].queue)
    BY <2>1, <1>1, <1>2, SendOnRetains
  <2>3. Retains(s, s, e, SendOn(e, s.table[m], msg))
    BY <2>1, <2>2, <1>1, QueuesRetain
  <2> QED BY <2>3, <1>3, BecomesRetains
<1>4. CASE Becomes(n, [s EXCEPT !.pending[m] = Append(@, msg)], e)
  <2> DEFINE t == [s EXCEPT !.pending[m] = Append(@, msg)]
  <2>1. t.table = s.table /\ t.pending = [s.pending EXCEPT ![m] = Append(@, msg)]
    BY <1>1 DEF Manager
  <2>2. Becomes(n, t, e)
    BY <1>4
  <2> HIDE DEF t
  <2>3. Retains(s, t, e, e)
    BY <2>1, <1>1, <1>2, PendingRetains
  <2> QED BY <2>2, <2>3, BecomesRetains
<1>5. CASE Connect(n, s, msg)
  BY <1>1, <1>2, <1>5, ConnectRetains
<1>6. CASE UNCHANGED <<mgr, end, link, broken>>
  BY <1>6, StaysRetains
<1> QED BY <1>3, <1>4, <1>5, <1>6 DEF Send

LEMMA ResolvedRetains ==
  ASSUME NEW n \in Node, NEW msg \in resolving[n], IInv, Resolved(n, msg)
  PROVE  Retaining(n)
<1> DEFINE s == mgr[n]  e == end[n]  m == msg.dst
<1>1. s \in Manager /\ Running(n) /\ msg \in Message /\ m \in Node
  BY DEF Resolved, IInv, TypeOK, Message
<1>2. CASE UNCHANGED <<mgr, end, link, broken>>
  BY <1>2, StaysRetains
<1>3. CASE Becomes(n, [s EXCEPT !.pending[m] = Append(@, msg)], e)
  <2> DEFINE t == [s EXCEPT !.pending[m] = Append(@, msg)]
  <2>1. t.table = s.table /\ t.pending = [s.pending EXCEPT ![m] = Append(@, msg)]
    BY <1>1 DEF Manager
  <2>2. Becomes(n, t, e)
    BY <1>3
  <2> HIDE DEF t
  <2>3. Retains(s, t, e, e)
    BY <2>1, <1>1, PendingRetains
  <2> QED BY <2>2, <2>3, BecomesRetains
<1>4. CASE Connect(n, s, msg)
  BY <1>1, <1>4, ConnectRetains
<1> QED BY <1>2, <1>3, <1>4 DEF Resolved

LEMMA ConnectedRetains ==
  ASSUME NEW n \in Node, NEW i \in Conn, IInv, Connected(n, i)
  PROVE  Retaining(n)
<1> DEFINE s == mgr[n]  e == end[n]  m == e[i].mapped  t == Given(s, m)  all == s.pending[m]
           d == [e EXCEPT ![i].sock = "open"]
<1>1. Running(n) /\ e[i].sock = "connecting" /\ s \in Manager /\ e \in [Conn -> End] /\ Kept(s, e)
  BY NodeAsKept DEF Connected
<1>2. /\ s.table \in [Node -> Conn \cup {None}] /\ s.pending \in [Node -> Seq(Message)]
      /\ m \in Node /\ all \in Seq(Message)
  BY <1>1 DEF Kept, Manager
<1>3. /\ d \in [Conn -> End] /\ \A j \in Conn : d[j].queue = e[j].queue
  <2>1. \A j \in Conn : e[j] \in End
    BY <1>1
  <2>2. [e[i] EXCEPT !.sock = "open"] \in End
    BY <2>1 DEF End
  <2> QED BY <2>1, <2>2, <1>1 DEF End
<1>4. t \in Manager /\ t.table = s.table /\ t.pending = [s.pending EXCEPT ![m] = <<>>]
  BY <1>1, <1>2, GivenIsFine
<1> HIDE DEF t, d
<1>5. ASSUME NEW j \in Conn
      PROVE  /\ SendAllOn(d, j, all) \in [Conn -> End]
             /\ \A l \in Conn : ToSet(e[l].queue) \subseteq ToSet(SendAllOn(d, j, all)[l].queue)
             /\ \A x \in ToSet(all) : \/ x \in ToSet(SendAllOn(d, j, all)[j].queue)
                                      \/ x \in ToSet(SendAllOn(d, j, all)[j].out)
  BY <1>2, <1>3, SendAllOnIsFine, SendAllOnRetains
<1>6. CASE s.table[m] = None /\ Becomes(n, [t EXCEPT !.table[m] = i], SendAllOn(d, i, all))
  <2> DEFINE u == [t EXCEPT !.table[m] = i]  f == SendAllOn(d, i, all)
  <2>1. u.table = [s.table EXCEPT ![m] = i] /\ u.pending = t.pending
    BY <1>4 DEF Manager
  <2>2. Becomes(n, u, f)
    BY <1>6
  <2>3. /\ \A l \in Conn : ToSet(e[l].queue) \subseteq ToSet(f[l].queue)
        /\ \A x \in ToSet(all) : x \in ToSet(f[i].queue) \/ x \in ToSet(f[i].out)
    BY <1>5
  <2> HIDE DEF u, f
  <2>4. Retains(s, u, e, f)
    BY <2>1, <2>3, <1>2, <1>4, <1>6, RetainsByParts
  <2> QED BY <2>2, <2>4, BecomesRetains
<1>7. CASE s.table[m] # None /\ Becomes(n, t, Close(SendAllOn(d, s.table[m], all), i))
  <2> DEFINE o == s.table[m]  g == SendAllOn(d, o, all)  f == Close(g, i)
  <2>1. o \in Conn
    BY <1>2, <1>7
  <2>2. Becomes(n, t, f)
    BY <1>7
  <2>3. /\ g \in [Conn -> End]
        /\ \A l \in Conn : ToSet(e[l].queue) \subseteq ToSet(g[l].queue)
        /\ \A x \in ToSet(all) : x \in ToSet(g[o].queue) \/ x \in ToSet(g[o].out)
    BY <2>1, <1>5
  <2> HIDE DEF g
  <2>4. \A l \in Conn : f[l].queue = g[l].queue /\ f[l].out = g[l].out
    BY <2>3, CloseLoses
  <2> HIDE DEF f
  <2>5. Retains(s, t, e, f)
    BY <2>1, <2>3, <2>4, <1>2, <1>4, RetainsByParts
  <2> QED BY <2>2, <2>5, BecomesRetains
<1>8. CASE Abort(n, "handle_connect")
  BY <1>8, StaysRetains DEF Abort
<1> QED BY <1>6, <1>7, <1>8 DEF Connected, Given, d, t

\* what is dropped with a connection has waited for one that is lost
LEMMA DisconnectRetains ==
  ASSUME NEW n \in Node, NEW i \in Conn, NEW e \in [Conn -> End], IInv, Running(n),
         \A j \in Conn : e[j].queue = end[n][j].queue, Disconnect(n, i, mgr[n], e)
  PROVE  Retaining(n)
<1> DEFINE s == mgr[n]  m == e[i].mapped
<1>1. s \in Manager /\ m \in Node \cup {Temporary}
  BY DEF IInv, TypeOK, End
<1>2. s.table \in [Node -> Conn \cup {None}] /\ s.pending \in [Node -> Seq(Message)]
  BY <1>1 DEF Manager
<1>3. ASSUME NEW t, NEW f \in {e, Close(e, i)}, Becomes(n, t, f),
             \A k \in Node : t.table[k] # None => t.table[k] = s.table[k] /\ t.pending[k] = s.pending[k]
      PROVE  Retaining(n)
  <2>1. \A j \in Conn : f[j].queue = end[n][j].queue
    BY CloseLoses
  <2>2. Retains(s, t, end[n], f)
    BY <2>1, <1>1, <1>2, <1>3, QueuesRetain
  <2> QED BY <2>2, <1>3, BecomesRetains
<1>4. CASE Becomes(n, [s EXCEPT !.fresh = @ \ {i}], Close(e, i))
  <2>1. [s EXCEPT !.fresh = @ \ {i}].pending = s.pending /\ [s EXCEPT !.fresh = @ \ {i}].table = s.table
    BY <1>1 DEF Manager
  <2> QED BY <2>1, <1>3, <1>4
<1>5. CASE m # Temporary /\ Becomes(n, [s EXCEPT !.table[m] = None], Close(e, i))
  <2>1. /\ [s EXCEPT !.table[m] = None].pending = s.pending
        /\ [s EXCEPT !.table[m] = None].table = [s.table EXCEPT ![m] = None]
    BY <1>1 DEF Manager
  <2>2. \A k \in Node : [s EXCEPT !.table[m] = None].table[k] # None =>
          [s EXCEPT !.table[m] = None].table[k] = s.table[k]
    BY <2>1, <1>2
  <2> QED BY <2>1, <2>2, <1>3, <1>5
<1>6. CASE m # Temporary /\ s.table[m] = None /\ Becomes(n, Given(s, m), Close(e, i))
  <2> DEFINE t == Given(s, m)
  <2>1. t.table = s.table /\ t.pending = [s.pending EXCEPT ![m] = <<>>]
    BY <1>1, <1>6, GivenIsFine
  <2>2. Becomes(n, t, Close(e, i))
    BY <1>6
  <2> HIDE DEF t
  <2>3. \A k \in Node : s.table[k] # None => t.pending[k] = s.pending[k]
    BY <2>1, <1>2, <1>6
  <2>4. \A k \in Node : t.table[k] # None => t.table[k] = s.table[k] /\ t.pending[k] = s.pending[k]
    BY <2>1, <2>3
  <2> QED BY <2>2, <2>4, <1>3
<1>7. CASE Becomes(n, s, e)
  BY <1>3, <1>7
<1>8. CASE Abort(n, "disconnect")
  BY <1>8, StaysRetains DEF Abort
<1> QED BY <1>4, <1>5, <1>6, <1>7, <1>8 DEF Disconnect, Given

LEMMA ConnectFailsRetains ==
  ASSUME NEW n \in Node, NEW i \in Conn, IInv, ConnectFails(n, i) \/ ConnectAborted(n, i)
  PROVE  Retaining(n)
<1> DEFINE e == [end[n] EXCEPT ![i].sock = "closed"]
<1>1. Disconnect(n, i, mgr[n], e) /\ Running(n)
  BY DEF ConnectFails, ConnectAborted
<1>2. end[n] \in [Conn -> End] /\ \A j \in Conn : end[n][j] \in End
  BY DEF IInv, TypeOK
<1>3. [end[n][i] EXCEPT !.sock = "closed"] \in End
  BY <1>2 DEF End
<1>4. e \in [Conn -> End] /\ \A j \in Conn : e[j].queue = end[n][j].queue
  BY <1>2, <1>3 DEF End
<1> HIDE DEF e
<1> QED BY <1>1, <1>4, DisconnectRetains

LEMMA FailsRetains ==
  ASSUME NEW n \in Node, NEW i \in Conn, IInv, Fails(n, i)
  PROVE  Retaining(n)
<1>1. PICK e \in {end[n], [end[n] EXCEPT ![i].out = <<>>]} : Disconnect(n, i, mgr[n], e)
  BY DEF Fails
<1>2. end[n] \in [Conn -> End] /\ (\A j \in Conn : end[n][j] \in End) /\ Running(n)
  BY DEF IInv, TypeOK, Fails
<1>3. [end[n][i] EXCEPT !.out = <<>>] \in End
  BY <1>2 DEF End
<1>4. e \in [Conn -> End] /\ \A j \in Conn : e[j].queue = end[n][j].queue
  <2>1. CASE e = end[n]
    BY <2>1, <1>2
  <2>2. CASE e = [end[n] EXCEPT ![i].out = <<>>]
    BY <2>2, <1>2, <1>3 DEF End
  <2> QED BY <2>1, <2>2, <1>1
<1> QED BY <1>1, <1>2, <1>4, DisconnectRetains

LEMMA AcceptRetains ==
  ASSUME NEW n \in Node, NEW i \in Conn, IInv, Accept(n, i)
  PROVE  Retaining(n)
<1> DEFINE s == mgr[n]  e == end[n]
           t == [s EXCEPT !.fresh = @ \cup {i}, !.accepting = server[n] = "up"]
           f(old) == [j \in Conn |-> IF j = i THEN [NoEnd EXCEPT !.sock = "open"]
                                     ELSE IF j \in old THEN [e[j] EXCEPT !.queue = <<>>] ELSE e[j]]
<1>1. e[i].sock = "none" /\ s \in Manager /\ Kept(s, e)
  BY NodeAsKept DEF Accept
<1>2. PICK old \in SUBSET {j \in Conn : e[j].dead /\ e[j].queue # <<>>} : Becomes(n, t, f(old))
  BY DEF Accept
<1>3. t.pending = s.pending /\ t.table = s.table
  BY <1>1 DEF Manager
<1>4. \A j \in Conn \ ({i} \cup old) : f(old)[j] = e[j]
  OBVIOUS
<1>5. \A m \in Node : s.table[m] # None => s.table[m] \in Conn \ ({i} \cup old)
  <2>1. \A m \in Node : s.table[m] # None => s.table[m] \in Conn
    BY <1>1 DEF Manager
  <2> QED BY <2>1, <1>1 DEF Kept
<1> HIDE DEF t, f
<1>6. Retains(s, t, e, f(old))
  BY <1>1, <1>3, <1>4, <1>5, QueuesRetain
<1> QED BY <1>2, <1>6, BecomesRetains

LEMMA WrittenRetains ==
  ASSUME NEW n \in Node, NEW i \in Conn, IInv, Written(n, i)
  PROVE  Retaining(n)
<1> DEFINE s == mgr[n]  e == end[n]
           x == IF e[i].sock = "open" /\ e[i].queue # <<>>
                  THEN [e[i] EXCEPT !.out = <<Head(e[i].queue)>>, !.queue = Tail(@),
                                    !.wire = Append(@, Head(e[i].queue))]
                  ELSE [e[i] EXCEPT !.out = <<>>]
           f == [e EXCEPT ![i] = x]
<1>1. end' = [end EXCEPT ![n][i] = x] /\ UNCHANGED <<mgr, broken>>
  BY DEF Written
<1>2. /\ s \in Manager /\ e \in [Conn -> End] /\ \A j \in Conn : e[j] \in End
  BY DEF IInv, TypeOK
<1>3. f[i] = x /\ \A j \in Conn \ {i} : f[j] = e[j]
  BY <1>2
<1>4. end' = [end EXCEPT ![n] = f]
  BY <1>1, <1>2 DEF IInv, TypeOK
<1> HIDE DEF f
<1>5. Becomes(n, s, f)
  BY <1>1, <1>4 DEF Becomes, IInv, TypeOK
<1>6. \A y \in ToSet(e[i].queue) : y \in ToSet(f[i].queue) \/ y \in ToSet(f[i].out)
  <2>1. CASE e[i].sock = "open" /\ e[i].queue # <<>>
    <3>1. f[i].out = <<Head(e[i].queue)>> /\ f[i].queue = Tail(e[i].queue) /\ e[i].queue \in Seq(Message)
      BY <2>1, <1>2, <1>3 DEF End
    <3> QED BY <3>1, <2>1, HeadAndTail, SingleOnce
  <2>2. CASE ~(e[i].sock = "open" /\ e[i].queue # <<>>)
    BY <2>2, <1>2, <1>3 DEF End
  <2> QED BY <2>1, <2>2
<1> HIDE DEF x
<1>7. \A m \in Node : s.table[m] # None => s.table[m] \in Conn
  BY <1>2 DEF Manager
<1>8. Retains(s, s, e, f)
  BY <1>3, <1>6, <1>7, RetainsByParts
<1> QED BY <1>5, <1>8, BecomesRetains

LEMMA DelayedStopRetains ==
  ASSUME NEW n \in Node, IInv, DelayedStop(n)
  PROVE  Retaining(n)
<1>1. PICK t, f : Becomes(n, t, f) /\ t.table = [m \in Node |-> None]
  BY DEF DelayedStop
<1>2. Retains(mgr[n], t, end[n], f)
  BY <1>1 DEF Retains
<1> QED BY <1>1, <1>2, BecomesRetains

LEMMA ReadRetains ==
  ASSUME NEW n \in Node, NEW i \in Conn, IInv, MInv, Read(n, i)
  PROVE  Retaining(n)
<1> DEFINE p == Peer(n, i)  src == Head(end[p][i].wire).src
           s == mgr[n]  e == end[n]  old == s.table[src]
           first == e[i].mapped = Temporary
           known == [s EXCEPT !.fresh = @ \ {i}, !.table[src] = i]
<1>1. Running(n) /\ e[i].sock = "open" /\ end[p][i].wire # <<>>
  BY DEF Read
<1>2. \/ Reads(n, i, s, e)
      \/ Abort(n, "remap")
      \/ first /\ old = None /\ Reads(n, i, known, [e EXCEPT ![i].mapped = src])
      \/ first /\ old # None /\ Reads(n, i, known, TakeOver(e, i, old, src))
      \/ Reads(n, i, [s EXCEPT !.fresh = @ \ {i}], Close(e, i))
  BY DEF Read, Reads
<1>3. /\ s \in Manager /\ e \in [Conn -> End] /\ Kept(s, e)
      /\ \A j \in Conn : e[j] \in End /\ (e[j].sock # "none" => Tried(j))
      /\ end \in [Node -> [Conn -> End]] /\ mgr \in [Node -> Manager]
  BY <1>1, NodeAsKept DEF IInv, TypeOK
<1>4. p \in Node \ {n}
  BY <1>1, <1>3 DEF Peer, Tried, MInv
<1>5. src \in Node
  <2>1. end[p] \in [Conn -> End]
    BY <1>3, <1>4
  <2>2. end[p][i] \in End
    BY <2>1
  <2>3. end[p][i].wire \in Seq(Message)
    BY <2>2 DEF End
  <2>4. Head(end[p][i].wire) \in Message
    BY <2>3, <1>1
  <2> QED BY <2>4 DEF Message
<1>6. s.table \in [Node -> Conn \cup {None}] /\ \A m \in Node : s.table[m] # None => s.table[m] \in Conn
  BY <1>3 DEF Manager
<1> HIDE DEF p, src
<1>7. ASSUME NEW t, NEW f \in [Conn -> End], Reads(n, i, t, f), Retains(s, t, e, f)
      PROVE  Retaining(n)
  <2>1. /\ end'[n] = f /\ \A m \in Node \ {n, p} : end'[m] = end[m]
        /\ \A j \in Conn \ {i} : end'[p][j] = end[p][j]
        /\ end'[p][i] = [end[p][i] EXCEPT !.wire = Tail(@)]
    BY <1>3, <1>4, <1>7, ReadsWire DEF p
  <2>2. mgr'[n] = t /\ \A m \in Node \ {n} : mgr'[m] = mgr[m]
    BY <1>3, <1>7 DEF Reads
  <2>3. end[p] \in [Conn -> End]
    BY <1>3, <1>4
  <2>4. end[p][i] \in End
    BY <2>3
  <2>5. end'[p][i].queue = end[p][i].queue
    BY <2>1, <2>4 DEF End
  <2> QED BY <2>1, <2>2, <2>5, <1>7 DEF Retaining
<1>8. /\ known.pending = s.pending /\ known.table = [s.table EXCEPT ![src] = i]
  BY <1>3, <1>5 DEF Manager
<1> HIDE DEF known
<1>9. CASE Reads(n, i, s, e)
  <2>1. Retains(s, s, e, e)
    BY DEF Retains
  <2> QED BY <2>1, <1>3, <1>7, <1>9 DEF p
<1>10. CASE Abort(n, "remap")
  BY <1>10, StaysRetains DEF Abort
<1>11. CASE first /\ old = None /\ Reads(n, i, known, [e EXCEPT ![i].mapped = src])
  <2> DEFINE f == [e EXCEPT ![i].mapped = src]
  <2>1. [e[i] EXCEPT !.mapped = src] \in End
    BY <1>3, <1>5 DEF End
  <2>2. f \in [Conn -> End] /\ \A j \in Conn : f[j].queue = e[j].queue
    BY <2>1, <1>3 DEF End
  <2>3. Reads(n, i, known, f)
    BY <1>11
  <2> HIDE DEF f
  <2>4. Retains(s, known, e, f)
    BY <2>2, <1>5, <1>6, <1>8, <1>11, RetainsByParts
  <2> QED BY <2>2, <2>3, <2>4, <1>7
<1>12. CASE first /\ old # None /\ Reads(n, i, known, TakeOver(e, i, old, src))
  <2> DEFINE o == old  f == TakeOver(e, i, o, src)
  <2>1. o \in Conn \ {i} /\ e[o].mapped = src
    BY <1>3, <1>5, <1>12, NodeAssumption DEF Kept, Manager
  <2>2. f \in [Conn -> End] /\ Reads(n, i, known, f)
    BY <2>1, <1>3, <1>5, <1>12, TakeOverIsFine
  <2>3. f[i].queue = e[o].queue /\ \A j \in Conn \ {i, o} : f[j].queue = e[j].queue
    <3> HIDE DEF o
    <3> QED BY <2>1, <1>3 DEF TakeOver, Close, End
  <2> HIDE DEF f
  <2>4. \A k \in Node \ {src} : s.table[k] # None => s.table[k] \in Conn \ {i, o}
    BY <2>1, <1>3, <1>6, <1>12, NodeAssumption DEF Kept
  <2>5. Retains(s, known, e, f)
    BY <2>3, <2>4, <1>5, <1>6, <1>8, RetainsByParts
  <2> QED BY <2>2, <2>5, <1>7
<1>13. CASE Reads(n, i, [s EXCEPT !.fresh = @ \ {i}], Close(e, i))
  <2> DEFINE t == [s EXCEPT !.fresh = @ \ {i}]  f == Close(e, i)
  <2>1. t.pending = s.pending /\ t.table = s.table
    BY <1>3 DEF Manager
  <2>2. Reads(n, i, t, f) /\ f \in [Conn -> End]
    BY <1>3, <1>13, CloseIsFine
  <2>3. \A j \in Conn : f[j].queue = e[j].queue
    BY <1>3, CloseLoses
  <2> HIDE DEF t, f
  <2>4. Retains(s, t, e, f)
    BY <2>1, <2>3, <1>3, <1>6, QueuesRetain
  <2> QED BY <2>2, <2>4, <1>7
<1> QED BY <1>2, <1>9, <1>10, <1>11, <1>12, <1>13

LEMMA StepRetains ==
  ASSUME IInv, MInv, Next
  PROVE  \E n \in Node : Retaining(n)
<1>1. ASSUME NEW n \in Node, NEW m \in Node \ {n}, Send(n, m) PROVE Retaining(n)
  BY <1>1, SendRetains
<1>2. ASSUME NEW n \in Node, NEW msg \in resolving[n], Resolved(n, msg) PROVE Retaining(n)
  BY <1>2, ResolvedRetains
<1>3. ASSUME NEW n \in Node, NEW i \in Conn, Connected(n, i) PROVE Retaining(n)
  BY <1>3, ConnectedRetains
<1>4. ASSUME NEW n \in Node, NEW i \in Conn, ConnectFails(n, i) \/ ConnectAborted(n, i) PROVE Retaining(n)
  BY <1>4, ConnectFailsRetains
<1>5. ASSUME NEW n \in Node, NEW i \in Conn, Accept(n, i) PROVE Retaining(n)
  BY <1>5, AcceptRetains
<1>6. ASSUME NEW n \in Node, NEW i \in Conn, Read(n, i) PROVE Retaining(n)
  BY <1>6, ReadRetains
<1>7. ASSUME NEW n \in Node, NEW i \in Conn, Fails(n, i) PROVE Retaining(n)
  BY <1>7, FailsRetains
<1>8. ASSUME NEW n \in Node, NEW i \in Conn, Written(n, i) PROVE Retaining(n)
  BY <1>8, WrittenRetains
<1>9. ASSUME NEW n \in Node, StopServer(n) PROVE Retaining(n)
  BY <1>9, StaysRetains DEF StopServer
<1>10. ASSUME NEW n \in Node, DelayedStop(n) PROVE Retaining(n)
  BY <1>10, DelayedStopRetains
<1> QED BY <1>1, <1>2, <1>3, <1>4, <1>5, <1>6, <1>7, <1>8, <1>9, <1>10 DEF Next

\* No message that waits for a node is dropped while there is a connection to it, however
\* connections cross and are taken over.
THEOREM WaitingMessagesAreKept == Spec => NothingWaitingIsDropped
<1> DEFINE Keeps == \A n, m \in Node : mgr'[n].table[m] # None =>
                      WaitingFor(n, m) \ WaitingFor(n, m)' \subseteq ToSet(end'[n][mgr'[n].table[m]].out)
<1>1. \A n, m \in Node : /\ WaitingFor(n, m) = Waits(mgr[n], end[n], m)
                         /\ WaitingFor(n, m)' = Waits(mgr'[n], end'[n], m)
  BY DEF WaitingFor, Waits
<1>2. IInv /\ MInv /\ [Next]_vars => [Keeps]_vars
  <2> SUFFICES ASSUME IInv, MInv, Next PROVE Keeps
    OBVIOUS
  <2>1. PICK n \in Node : Retaining(n)
    BY StepRetains
  <2>2. ASSUME NEW k \in Node \ {n}
        PROVE  Retains(mgr[k], mgr'[k], end[k], end'[k])
    <3>1. mgr[k] \in Manager /\ mgr'[k] = mgr[k] /\ \A i \in Conn : end'[k][i].queue = end[k][i].queue
      BY <2>1 DEF Retaining, IInv, TypeOK
    <3>2. \A m \in Node : mgr[k].table[m] # None => mgr[k].table[m] \in Conn
      BY <3>1 DEF Manager
    <3> QED BY <3>1, <3>2, QueuesRetain
  <2>3. \A k \in Node : Retains(mgr[k], mgr'[k], end[k], end'[k])
    BY <2>1, <2>2 DEF Retaining
  <2> QED BY <2>3, <1>1 DEF Retains
<1>3. []IInv /\ []MInv /\ [][Next]_vars => [][Keeps]_vars
  BY <1>2, PTL
<1> QED BY <1>3, Invariance, MessageInvariance, PTL DEF Spec, NothingWaitingIsDropped

=============================================================================
