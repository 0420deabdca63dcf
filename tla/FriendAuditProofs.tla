-------------------------- MODULE FriendAuditProofs --------------------------
(***************************************************************************)
(* Safety of FriendAudit for any set of nodes and any sizes of the friend, *)
(* fan and candidate sets: no two audits at a time, every protected        *)
(* candidate accounted for by the request that is out, room for every      *)
(* friend that may still accept, and of the assertions of the protocol     *)
(* only the two in the retry of an audit can fail.                         *)
(*                                                                         *)
(* The inductive invariant is local to a node.  Sound is what holds of the *)
(* friends, candidates and filters at any time, also in the middle of a    *)
(* handler and offline; Tied relates them to the live timers.  A lemma for *)
(* each part of the handlers says that it ends well: in a state that is    *)
(* Sound and Tied, or in one of the two assertions.                        *)
(***************************************************************************)
EXTENDS FriendAudit, FiniteSetTheorems, TLAPS

AuditKinds == {"audit", "add"}

AuditsIn(live) == {w \in live : w.kind \in AuditKinds}

Sound(n, s) ==
  /\ s \in AuditState
  /\ n \notin s.friends \cup s.candidates
  /\ s.auditing # n /\ s.protected[n] = 0
  /\ \A f \in s.friends : s.filter[f] > 0
  /\ \A m \in s.friends \cup s.candidates : s.protected[m] > 0 => s.filter[m] > 0
  /\ Cardinality(s.friends) <= MaxFriends
  /\ n \notin Auditors => s.friends = {} /\ s.candidates = {}

Tied(n, v, s, live) ==
  /\ live \subseteq Wait
  /\ \A w \in AuditsIn(live) : s.auditing = w.neighbor /\ AuditsIn(live) = {w}
  /\ \A w \in live : w.kind = "add" =>
       /\ Protected(s) = {w.neighbor} \cup w.next
       /\ w.neighbor \notin w.next
       /\ Cardinality(s.friends \ {w.prune}) + Cardinality(w.next) < MaxFriends
  /\ \A w \in live : w.kind = "audit" => Protected(s) = {} \/ w.neighbor \in Protected(s)
  /\ AuditsIn(live) = {} => Protected(s) = {} /\ (v => s.auditing = NoNode)
  /\ n \notin Auditors => AuditsIn(live) = {}

\* A reply with a filter always names a version: update_bloom_filter makes it known.
Net(net) == net \subseteq Message /\ \A m \in net : m.kind = "filter" => m.version > 0

\* What is under way for a live timer is between the two nodes and of the kind of it:
\* a reply that cancels the timer of an audit is from the candidate.
Matched(k, live, net) ==
  \A w \in live, m \in net :
    /\ m.kind \in Kinds /\ m.src = k /\ m.timer = w.timer => m.dst = w.neighbor /\ m.kind = w.kind
    /\ m.kind \notin Kinds \cup {"remove"} /\ m.dst = k /\ m.timer = w.timer =>
         /\ m.src = w.neighbor
         /\ m.kind = "filter" <=> w.kind \in {"audit", "bloom"}
         /\ m.kind = "pong" <=> w.kind = "ping"

\* The network as the handler of n has left it so far, live being the timers of n.
NetOf(n, live, net) ==
  /\ Net(net)
  /\ Matched(n, live, net)
  /\ \A k \in Node \ {n} : Matched(k, waits[k], net)

IInv ==
  /\ TypeOK
  /\ Net(msgs)
  /\ AssertionsHold
  /\ \A n \in Node : Matched(n, waits[n], msgs)
  /\ \A n \in Node : Sound(n, audit[n])
  /\ \A n \in Node : ~online[n] => waits[n] = {} /\ ~virgin[n]
  /\ \A n \in Node : Running(n) => Tied(n, virgin[n], audit[n], waits[n])

-----------------------------------------------------------------------------
(***************************************************************************)
(* What the helpers leave of a node's friend state.                        *)
(***************************************************************************)

\* t has the same audit as s, and its friends are among those of s.
Keeps(s, t) ==
  /\ t.auditing = s.auditing
  /\ t.protected = s.protected
  /\ t.friends \subseteq s.friends

LEMMA FriendsFinite ==
  ASSUME NEW s \in AuditState
  PROVE  IsFiniteSet(s.friends) /\ Cardinality(s.friends) \in Nat /\ s.friends \subseteq Node
  <1>1. s.friends \subseteq Node BY DEF AuditState
  <1> QED BY <1>1, NodeAssumption, FS_Subset, FS_CardinalityType

LEMMA DropKeeps ==
  ASSUME NEW n \in Node, NEW s, NEW f \in Node, Sound(n, s)
  PROVE  /\ Sound(n, DropFriend(s, f))
         /\ Keeps(s, DropFriend(s, f))
         /\ DropFriend(s, f).friends = s.friends \ {f}
         /\ DropFriend(s, f).candidates = s.candidates
  <1> DEFINE t == DropFriend(s, f)
  <1>0. s \in AuditState BY DEF Sound
  <1>1. /\ t.friends = s.friends \ {f} /\ t.candidates = s.candidates
        /\ t.auditing = s.auditing /\ t.protected = s.protected
        /\ t.filter = [s.filter EXCEPT ![f] = IF f \in s.candidates THEN @ ELSE 0]
    BY <1>0 DEF DropFriend, AuditState
  <1>7. s.filter \in [Node -> 0..MaxVersion] BY <1>0 DEF AuditState
  <1>8. t.filter \in [Node -> 0..MaxVersion] BY <1>1, <1>7, BoundAssumption
  <1>9. t \in AuditState BY <1>0, <1>1, <1>8 DEF DropFriend, AuditState
  <1> HIDE DEF t
  <1>2. Cardinality(t.friends) <= Cardinality(s.friends)
    BY <1>0, <1>1, FriendsFinite, FS_Subset
  <1>3. \A m \in t.friends : t.filter[m] > 0 BY <1>0, <1>1 DEF Sound, AuditState
  <1>4. \A m \in t.friends \cup t.candidates : t.protected[m] > 0 => t.filter[m] > 0
    BY <1>0, <1>1 DEF Sound, AuditState
  <1>5. Cardinality(t.friends) <= MaxFriends
    <2>1. Cardinality(t.friends) \in Nat BY <1>9, FriendsFinite
    <2>2. Cardinality(s.friends) \in Nat BY <1>0, FriendsFinite
    <2>3. Cardinality(s.friends) <= MaxFriends BY DEF Sound
    <2> QED BY <2>1, <2>2, <2>3, <1>2, SizeAssumption
  <1>6. Sound(n, t) BY <1>1, <1>3, <1>4, <1>5, <1>9 DEF Sound
  <1> QED BY <1>1, <1>6 DEF Keeps, t

LEMMA LearnKeeps ==
  ASSUME NEW n \in Node, NEW s, NEW m \in Node, NEW v \in 0..MaxVersion, Sound(n, s)
  PROVE  /\ Sound(n, Learn(s, m, v))
         /\ Keeps(s, Learn(s, m, v))
         /\ m \in s.candidates /\ v > 0 => FilterOf(Learn(s, m, v), m) > 0
  <1>0. s \in AuditState BY DEF Sound
  <1>1. CASE ~(m \in s.friends \cup s.candidates /\ v > s.filter[m])
    BY <1>0, <1>1, BoundAssumption DEF Learn, Keeps, FilterOf, AuditState
  <1>2. CASE m \in s.friends \cup s.candidates /\ v > s.filter[m]
    <2> DEFINE t == Learn(s, m, v)
    <2>1. /\ t.friends = s.friends /\ t.candidates = s.candidates
          /\ t.auditing = s.auditing /\ t.protected = s.protected
          /\ t.filter = [s.filter EXCEPT ![m] = v] /\ t \in AuditState
      BY <1>0, <1>2 DEF Learn, AuditState
    <2>2. v > 0 BY <1>0, <1>2, BoundAssumption DEF AuditState
    <2>3. Sound(n, t) BY <1>0, <2>1, <2>2 DEF Sound, AuditState
    <2>4. t.filter[m] = v BY <1>0, <2>1 DEF AuditState
    <2> QED BY <2>1, <2>2, <2>3, <2>4 DEF Keeps, FilterOf
  <1> QED BY <1>1, <1>2

LEMMA AddCandidatesKeeps ==
  ASSUME NEW n \in Node, NEW s, NEW list \in SUBSET Node, Sound(n, s),
         NEW t \in AddCandidates(n, s, list)
  PROVE  /\ Sound(n, t)
         /\ Keeps(s, t)
         /\ t.friends = s.friends
         /\ \A m \in Node \ {n} : n \in Auditors /\ list = {m} => m \in t.candidates
  <1>0. s \in AuditState BY DEF Sound
  <1>1. CASE n \notin Auditors
    BY <1>1 DEF AddCandidates, Keeps
  <1>2. CASE n \in Auditors
    <2> DEFINE all == s.candidates \cup (list \ {n})
               added(cs) == [s EXCEPT !.candidates = cs,
                               !.filter = [m \in Node |->
                                 IF m \in s.friends \cup (cs \cap s.candidates) THEN @[m]
                                 ELSE IF m \in cs THEN s.protected[m] ELSE 0]]
    <2>1. PICK cs \in SUBSET all :
            t = added(cs) /\ \A m \in Node \ {n} : list = {m} => m \in cs
      <3>1. CASE Cardinality(all) <= MaxCandidates
        <4>1. t = added(all) BY <1>2, <3>1 DEF AddCandidates
        <4> QED BY <4>1
      <3>2. CASE ~(Cardinality(all) <= MaxCandidates)
        <4>1. \E cs \in SUBSET all : t = added(cs) /\ list \cap cs # {}
          BY <1>2, <3>2 DEF AddCandidates
        <4> HIDE DEF all, added
        <4>2. PICK cs \in SUBSET all : t = added(cs) /\ list \cap cs # {} BY <4>1
        <4>3. \A m \in Node \ {n} : list = {m} => m \in cs BY <4>2
        <4> QED BY <4>2, <4>3
      <3> QED BY <3>1, <3>2
    <2>2. /\ t.friends = s.friends /\ t.candidates = cs
          /\ t.auditing = s.auditing /\ t.protected = s.protected
          /\ t.filter = [m \in Node |-> IF m \in s.friends \cup (cs \cap s.candidates) THEN s.filter[m]
                                        ELSE IF m \in cs THEN s.protected[m] ELSE 0]
      BY <1>0, <2>1 DEF AuditState
    <2>3. all \subseteq Node /\ n \notin all BY <1>0 DEF AuditState, Sound
    <2>4. t.filter \in [Node -> 0..MaxVersion]
      BY <1>0, <2>2, BoundAssumption DEF AuditState
    <2>5. t \in AuditState BY <1>0, <2>1, <2>2, <2>3, <2>4 DEF AuditState
    <2>6. \A m \in t.friends : t.filter[m] > 0 BY <1>0, <2>2 DEF Sound, AuditState
    <2>7. \A m \in t.friends \cup t.candidates : t.protected[m] > 0 => t.filter[m] > 0
      BY <1>0, <2>2, <2>3 DEF Sound, AuditState
    <2>8. n \notin t.friends \cup t.candidates BY <2>1, <2>2, <2>3 DEF Sound
    <2>9. Sound(n, t) BY <1>2, <2>2, <2>5, <2>6, <2>7, <2>8 DEF Sound
    <2> QED BY <2>1, <2>2, <2>9 DEF Keeps
  <1> QED BY <1>1, <1>2

LEMMA ProtectKeeps ==
  ASSUME NEW n \in Node, NEW s, NEW ms \in SUBSET Node, Sound(n, s)
  PROVE  LET t == Protect(s, ms)
         IN  /\ Sound(n, t)
             /\ t.friends = s.friends /\ t.candidates = s.candidates
             /\ t.filter = s.filter /\ t.auditing = s.auditing
             /\ \A m \in Node : t.protected[m] = IF m \in ms THEN FilterOf(s, m) ELSE s.protected[m]
  <1> DEFINE t == Protect(s, ms)
  <1>0. s \in AuditState BY DEF Sound
  <1>1. \A m \in Node : FilterOf(s, m) \in 0..MaxVersion BY <1>0 DEF FilterOf, AuditState
  <1>2. t.friends = s.friends /\ t.candidates = s.candidates
        /\ t.filter = s.filter /\ t.auditing = s.auditing
    BY <1>0 DEF Protect, AuditState
  <1>3. t.protected = [m \in Node |-> IF m \in ms THEN FilterOf(s, m) ELSE s.protected[m]]
    BY <1>0 DEF Protect, AuditState
  <1>4. t.protected \in [Node -> 0..MaxVersion] BY <1>0, <1>1, <1>3 DEF AuditState
  <1>5. t \in AuditState BY <1>0, <1>2, <1>4 DEF Protect, AuditState
  <1> HIDE DEF t
  <1>6. \A m \in Node : t.protected[m] = IF m \in ms THEN FilterOf(s, m) ELSE s.protected[m]
    BY <1>3
  <1>7. \A m \in t.friends \cup t.candidates : t.protected[m] > 0 => t.filter[m] > 0
    BY <1>0, <1>2, <1>6 DEF Sound, FilterOf, AuditState
  <1>9. t.protected[n] = 0 BY <1>0, <1>6 DEF Sound, FilterOf
  <1>8. Sound(n, t) BY <1>2, <1>5, <1>7, <1>9 DEF Sound
  <1> QED BY <1>2, <1>6, <1>8 DEF t

LEMMA EndOfAuditKeeps ==
  ASSUME NEW n \in Node, NEW s, Sound(n, s)
  PROVE  LET t == EndOfAudit(s)
         IN  /\ Sound(n, t)
             /\ t.friends = s.friends /\ t.candidates = s.candidates
             /\ t.filter = s.filter /\ t.protected = s.protected
             /\ t.auditing = NoNode
  BY NodeAssumption DEF Sound, AuditState, EndOfAudit

LEMMA AuditingKeeps ==
  ASSUME NEW n \in Node, NEW s, NEW c \in Node \ {n}, Sound(n, s)
  PROVE  LET t == [s EXCEPT !.auditing = c]
         IN  /\ Sound(n, t)
             /\ t.friends = s.friends /\ t.candidates = s.candidates
             /\ t.filter = s.filter /\ t.protected = s.protected
             /\ t.auditing = c
  BY DEF Sound, AuditState

LEMMA UnprotectKeeps ==
  ASSUME NEW n \in Node, NEW s, NEW m \in Node, Sound(n, s)
  PROVE  LET t == Unprotect(s, m)
         IN  /\ Sound(n, t)
             /\ t.friends = s.friends /\ t.auditing = s.auditing
             /\ Protected(t) = Protected(s) \ {m}
  <1> DEFINE t == Unprotect(s, m)
  <1>0. s \in AuditState BY DEF Sound
  <1>1. /\ t.friends = s.friends /\ t.candidates = s.candidates
        /\ t.filter = s.filter /\ t.auditing = s.auditing
        /\ t.protected = [s.protected EXCEPT ![m] = 0]
    BY <1>0 DEF Unprotect, AuditState
  <1>2. t.protected \in [Node -> 0..MaxVersion] BY <1>0, <1>1, BoundAssumption DEF AuditState
  <1>3. t \in AuditState BY <1>0, <1>1, <1>2 DEF Unprotect, AuditState
  <1> HIDE DEF t
  <1>4. \A q \in Node : t.protected[q] = IF q = m THEN 0 ELSE s.protected[q]
    BY <1>0, <1>1 DEF AuditState
  <1>5. Protected(t) = Protected(s) \ {m} BY <1>4 DEF Protected
  <1>6. \A q \in t.friends \cup t.candidates : t.protected[q] > 0 => t.filter[q] > 0
    BY <1>0, <1>1, <1>4 DEF Sound, AuditState
  <1>7. Sound(n, t) BY <1>1, <1>3, <1>6 DEF Sound
  <1> QED BY <1>1, <1>5, <1>7 DEF t

LEMMA AddFriendKeeps ==
  ASSUME NEW n \in Node, NEW s, NEW f \in Node \ {n}, Sound(n, s), n \in Auditors,
         FilterOf(s, f) > 0, Cardinality(s.friends) < MaxFriends
  PROVE  LET t == AddFriend(s, f)
         IN  /\ Sound(n, t)
             /\ t.friends = s.friends \cup {f}
             /\ t.auditing = s.auditing /\ t.protected = s.protected
             /\ Cardinality(t.friends) <= Cardinality(s.friends) + 1
  <1> DEFINE t == AddFriend(s, f)
  <1>0. s \in AuditState BY DEF Sound
  <1>1. /\ t.friends = s.friends \cup {f} /\ t.candidates = s.candidates
        /\ t.auditing = s.auditing /\ t.protected = s.protected
        /\ t.filter = [s.filter EXCEPT ![f] = FilterOf(s, f)]
    BY <1>0 DEF AddFriend, AuditState
  <1>2. FilterOf(s, f) \in 0..MaxVersion BY <1>0 DEF FilterOf, AuditState
  <1>3. t.filter \in [Node -> 0..MaxVersion] BY <1>0, <1>1, <1>2 DEF AuditState
  <1>4. t \in AuditState BY <1>0, <1>1, <1>3 DEF AddFriend, AuditState
  <1> HIDE DEF t
  <1>5. \A m \in Node : t.filter[m] = IF m = f THEN FilterOf(s, f) ELSE s.filter[m]
    BY <1>0, <1>1 DEF AuditState
  <1>6. /\ \A m \in t.friends : t.filter[m] > 0
        /\ \A m \in t.friends \cup t.candidates : t.protected[m] > 0 => t.filter[m] > 0
    BY <1>0, <1>1, <1>5 DEF Sound, AuditState
  <1>7. Cardinality(t.friends) <= Cardinality(s.friends) + 1
    <2>1. IsFiniteSet(s.friends) /\ Cardinality(s.friends) \in Nat BY <1>0, FriendsFinite
    <2>2. Cardinality(s.friends \cup {f})
            = IF f \in s.friends THEN Cardinality(s.friends) ELSE Cardinality(s.friends) + 1
      BY <2>1, FS_AddElement
    <2> QED BY <1>1, <2>1, <2>2
  <1>8. Cardinality(t.friends) <= MaxFriends
    <2>1. Cardinality(t.friends) \in Nat /\ Cardinality(s.friends) \in Nat BY <1>0, <1>4, FriendsFinite
    <2> QED BY <2>1, <1>7, SizeAssumption
  <1>9. Sound(n, t) BY <1>1, <1>4, <1>6, <1>8 DEF Sound
  <1> QED BY <1>1, <1>7, <1>9 DEF t

-----------------------------------------------------------------------------
(***************************************************************************)
(* Timers come and go.                                                     *)
(***************************************************************************)

LEMMA TiedKeeps ==
  ASSUME NEW n \in Node, NEW v \in BOOLEAN, NEW s, NEW t, NEW live,
         Sound(n, s), Sound(n, t), Keeps(s, t), Tied(n, v, s, live)
  PROVE  Tied(n, v, t, live)
  <1>0. s \in AuditState /\ t \in AuditState BY DEF Sound
  <1>1. Protected(t) = Protected(s) BY DEF Protected, Keeps
  <1>2. ASSUME NEW w \in live, w.kind = "add"
        PROVE  Cardinality(t.friends \ {w.prune}) + Cardinality(w.next) < MaxFriends
    <2>1. /\ IsFiniteSet(s.friends \ {w.prune})
          /\ t.friends \ {w.prune} \subseteq s.friends \ {w.prune}
      BY <1>0, FriendsFinite, FS_Subset DEF Keeps
    <2>2. /\ Cardinality(t.friends \ {w.prune}) <= Cardinality(s.friends \ {w.prune})
          /\ IsFiniteSet(t.friends \ {w.prune})
      BY <2>1, FS_Subset
    <2>3. IsFiniteSet(w.next) BY <1>2, NodeAssumption, FS_Subset DEF Tied, Wait
    <2>4. Cardinality(t.friends \ {w.prune}) \in Nat /\ Cardinality(s.friends \ {w.prune}) \in Nat
          /\ Cardinality(w.next) \in Nat
      BY <2>1, <2>2, <2>3, FS_CardinalityType
    <2>5. Cardinality(s.friends \ {w.prune}) + Cardinality(w.next) < MaxFriends BY <1>2 DEF Tied
    <2> QED BY <2>2, <2>4, <2>5, SizeAssumption
  <1> QED BY <1>1, <1>2 DEF Tied, Keeps

LEMMA OtherTimers ==
  ASSUME NEW n \in Node, NEW v \in BOOLEAN, NEW s, NEW live, NEW live2,
         Tied(n, v, s, live), live2 \subseteq Wait, AuditsIn(live2) = AuditsIn(live)
  PROVE  Tied(n, v, s, live2)
  <1>1. \A w \in live2 : w.kind \in AuditKinds => w \in live BY DEF AuditsIn
  <1> QED BY <1>1 DEF Tied, AuditKinds

LEMMA NoTimers ==
  ASSUME NEW n \in Node, NEW v \in BOOLEAN, NEW s, NEW live \in SUBSET Wait,
         AuditsIn(live) = {}, Protected(s) = {}, v => s.auditing = NoNode
  PROVE  Tied(n, v, s, live)
  BY DEF Tied, AuditsIn, AuditKinds

Timer(kind, id, m, prune, next) ==
  [kind |-> kind, timer |-> id, neighbor |-> m, prune |-> prune, next |-> next]

LEMMA NewTimerTied ==
  ASSUME NEW n \in Auditors, NEW v \in BOOLEAN, NEW s, NEW live \in SUBSET Wait,
         NEW kind \in AuditKinds, NEW id \in TimerIds, NEW m \in Node,
         NEW prune \in Node \cup {NoNode}, NEW next \in SUBSET Node,
         AuditsIn(live) = {}, s.auditing = m,
         kind = "audit" => Protected(s) = {} \/ m \in Protected(s),
         kind = "add" => /\ Protected(s) = {m} \cup next /\ m \notin next
                         /\ Cardinality(s.friends \ {prune}) + Cardinality(next) < MaxFriends
  PROVE  Tied(n, v, s, live \cup {Timer(kind, id, m, prune, next)})
  <1> DEFINE w == Timer(kind, id, m, prune, next)
  <1>1. w \in Wait BY DEF Timer, Wait, Kinds, AuditKinds
  <1>2. /\ w.kind = kind /\ w.neighbor = m /\ w.prune = prune /\ w.next = next BY DEF Timer
  <1> HIDE DEF w
  <1>3. AuditsIn(live \cup {w}) = {w} BY <1>2 DEF AuditsIn
  <1>4. \A x \in live \cup {w} : x.kind \in AuditKinds => x = w BY <1>3 DEF AuditsIn, AuditKinds
  <1>5. Tied(n, v, s, live \cup {w}) BY <1>1, <1>2, <1>3, <1>4 DEF Tied, AuditKinds
  <1> QED BY <1>5 DEF w

-----------------------------------------------------------------------------
(***************************************************************************)
(* How the parts of the handlers end.  A lemma's conditions are gathered   *)
(* in one predicate where there are many.                                  *)
(***************************************************************************)

Continues(n, v) ==
  \E s, live :
    /\ Sound(n, s) /\ Tied(n, v, s, live)
    /\ audit' = [audit EXCEPT ![n] = s]
    /\ waits' = [waits EXCEPT ![n] = live]
    /\ UNCHANGED broken
    /\ NetOf(n, live, msgs')

\* The candidate that is being audited is protected: an audit is being retried.
Retried(n) == audit[n].auditing \in Protected(audit[n])

Ends(n) ==
  /\ \E assertion \in {"audit_with", "wait_after_bloom_req"} : broken' = [broken EXCEPT ![n] = assertion]
  /\ waits' = [waits EXCEPT ![n] = {}]
  /\ UNCHANGED audit
  /\ Retried(n)
  /\ NetOf(n, {}, msgs')

EndsWell(n, v) == Continues(n, v) \/ Ends(n)

LEMMA ContinueEnds ==
  ASSUME NEW n \in Node, NEW v \in BOOLEAN, NEW s, NEW live, NEW net,
         Sound(n, s), Tied(n, v, s, live), NetOf(n, live, net), Continue(n, s, live, net)
  PROVE  EndsWell(n, v)
  BY DEF Continue, EndsWell, Continues

LEMMA AbortEnds ==
  ASSUME NEW n \in Node, NEW v \in BOOLEAN, NEW live, NEW net, NetOf(n, live, net), Retried(n),
         NEW assertion \in {"audit_with", "wait_after_bloom_req"}, Abort(n, assertion, net)
  PROVE  EndsWell(n, v)
  <1>1. NetOf(n, {}, net) BY DEF NetOf, Matched
  <1> QED BY <1>1 DEF Abort, EndsWell, Ends

LEMMA NetLess ==
  ASSUME NEW n \in Node, NEW live, NEW net, NEW live2 \in SUBSET live, NEW net2 \in SUBSET net,
         NetOf(n, live, net)
  PROVE  NetOf(n, live2, net2)
  BY DEF NetOf, Net, Matched

AskMsg(kind, n, m, id, v) == [kind |-> kind, src |-> n, dst |-> m, timer |-> id, version |-> v]

LEMMA NetRequest ==
  ASSUME NEW n \in Node, NEW live \in SUBSET Wait, NEW net, NetOf(n, live, net),
         NEW kind \in Kinds, NEW m \in Node, NEW id \in TimerIds, NEW v \in 0..MaxVersion,
         NEW prune \in Node \cup {NoNode}, NEW next \in SUBSET Node, NewTimer(n, live, net, id)
  PROVE  NetOf(n, live \cup {Timer(kind, id, m, prune, next)}, net \cup {AskMsg(kind, n, m, id, v)})
  <1> DEFINE r == AskMsg(kind, n, m, id, v)
             w == Timer(kind, id, m, prune, next)
  <1>1. r \in Message BY DEF Message, Request, AskMsg
  <1>2. r.kind = kind /\ r.src = n /\ r.dst = m /\ r.timer = id BY DEF AskMsg
  <1>3. kind # "filter" /\ kind \in Kinds BY DEF Kinds
  <1>4. w.kind = kind /\ w.neighbor = m /\ w.timer = id BY DEF Timer
  <1>5. id \notin UsedTimers(n, live, net) BY DEF NewTimer
  <1>6. \A x \in live : x.timer # id BY <1>5 DEF UsedTimers
  <1>7. \A x \in net : x.kind \in Kinds /\ x.src = n => x.timer # id BY <1>5 DEF UsedTimers
  <1>8. \A x \in net : x.kind \notin Kinds \cup {"remove"} /\ x.dst = n => x.timer # id
    BY <1>5 DEF UsedTimers
  <1> HIDE DEF r, w
  <1>9. Net(net \cup {r}) BY <1>1, <1>2, <1>3 DEF NetOf, Net
  <1>10. Matched(n, live \cup {w}, net \cup {r})
    BY <1>2, <1>3, <1>4, <1>6, <1>7, <1>8 DEF NetOf, Matched
  <1>11. \A k \in Node \ {n} : Matched(k, waits[k], net \cup {r})
    BY <1>2, <1>3 DEF NetOf, Matched
  <1> QED BY <1>9, <1>10, <1>11 DEF NetOf, r, w

LEMMA NetReply ==
  ASSUME NEW n \in Node, NEW live, NEW net, NetOf(n, live, net),
         NEW r \in net, r \in Request, NEW kind \in {"filter", "ok", "deny", "changed", "pong"},
         NEW v \in 0..MaxVersion, kind = "filter" => v > 0,
         kind = "filter" <=> r.kind \in {"audit", "bloom"}, kind = "pong" <=> r.kind = "ping"
  PROVE  NetOf(n, live, (net \ {r}) \cup {ReplyTo(r, kind, v)})
  <1> DEFINE a == ReplyTo(r, kind, v)
  <1>1. a \in Message BY DEF Message, Reply, ReplyTo, Request
  <1>2. a.kind = kind /\ a.src = r.dst /\ a.dst = r.src /\ a.timer = r.timer /\ a.version = v
    BY DEF ReplyTo
  <1>3. kind \notin Kinds \cup {"remove"} /\ r.kind \in Kinds BY DEF Kinds, Request
  <1> HIDE DEF a
  <1>4. Net((net \ {r}) \cup {a}) BY <1>1, <1>2 DEF NetOf, Net
  <1>5. ASSUME NEW k, NEW ws, Matched(k, ws, net) PROVE Matched(k, ws, (net \ {r}) \cup {a})
    BY <1>2, <1>3, <1>5 DEF Matched
  <1> QED BY <1>4, <1>5 DEF NetOf, a

LEMMA NetRemove ==
  ASSUME NEW n \in Node, NEW live, NEW net, NetOf(n, live, net), NEW fs \in SUBSET Node
  PROVE  NetOf(n, live, net \cup {RemoveFriend(n, f) : f \in fs})
  <1>1. \A m \in {RemoveFriend(n, f) : f \in fs} : m \in Message /\ m.kind = "remove"
    BY DEF Message, RemoveFriend
  <1> QED BY <1>1 DEF NetOf, Net, Matched, Kinds

LEMMA NetRemoveOne ==
  ASSUME NEW n \in Node, NEW live, NEW net, NetOf(n, live, net), NEW f \in Node
  PROVE  NetOf(n, live, net \cup {RemoveFriend(n, f)})
  <1>1. {RemoveFriend(n, g) : g \in {f}} = {RemoveFriend(n, f)} OBVIOUS
  <1> QED BY <1>1, NetRemove

\* A request of an audit of m may go out, and prune and next fit the room for friends.
MayAsk(n, s, m, prune, next, live) ==
  /\ n \in Auditors /\ m \in Node /\ prune \in Node \cup {NoNode} /\ next \in SUBSET Node
  /\ Sound(n, s) /\ live \subseteq Wait /\ AuditsIn(live) = {} /\ s.auditing = m
  /\ Protected(s) = {m} \cup next /\ m \notin next /\ FilterOf(s, m) > 0
  /\ Cardinality(s.friends \ {prune}) + Cardinality(next) < MaxFriends

LEMMA FilterType ==
  ASSUME NEW n, NEW s, Sound(n, s), NEW m \in Node
  PROVE  FilterOf(s, m) \in 0..MaxVersion
  BY DEF Sound, FilterOf, AuditState

LEMMA SendFriendReqEnds ==
  ASSUME NEW n \in Node, NEW v \in BOOLEAN, NEW s, NEW m, NEW prune, NEW next, NEW live, NEW net,
         MayAsk(n, s, m, prune, next, live), NetOf(n, live, net), SendFriendReq(n, s, m, prune, next, live, net)
  PROVE  EndsWell(n, v)
  <1>1. SendRequest(n, s, "add", m, prune, next, FilterOf(s, m), live, net)
    BY DEF SendFriendReq, MayAsk
  <1>2. PICK id \in TimerIds :
          /\ NewTimer(n, live, net, id)
          /\ Continue(n, s, live \cup {Timer("add", id, m, prune, next)},
                      net \cup {AskMsg("add", n, m, id, FilterOf(s, m))})
    BY <1>1 DEF SendRequest, Timer, AskMsg
  <1>3. FilterOf(s, m) \in 0..MaxVersion /\ m \in Node BY FilterType DEF MayAsk
  <1>4. NetOf(n, live \cup {Timer("add", id, m, prune, next)},
              net \cup {AskMsg("add", n, m, id, FilterOf(s, m))})
    BY <1>2, <1>3, NetRequest DEF Kinds, MayAsk
  <1>5. Tied(n, v, s, live \cup {Timer("add", id, m, prune, next)})
    BY NewTimerTied DEF MayAsk, AuditKinds
  <1>6. Sound(n, s) BY DEF MayAsk
  <1> QED BY <1>2, <1>4, <1>5, <1>6, ContinueEnds

LEMMA AskForFilterEnds ==
  ASSUME NEW n \in Auditors, NEW v \in BOOLEAN, NEW s, NEW m \in Node, NEW live \in SUBSET Wait, NEW net,
         Sound(n, s), AuditsIn(live) = {}, s.auditing = m, NetOf(n, live, net),
         Protected(s) = {} \/ m \in Protected(s), SendBloomReq(n, s, m, "audit", live, net)
  PROVE  EndsWell(n, v)
  <1>1. PICK id \in TimerIds :
          /\ NewTimer(n, live, net, id)
          /\ Continue(n, s, live \cup {Timer("audit", id, m, NoNode, {})},
                      net \cup {AskMsg("audit", n, m, id, 0)})
    BY DEF SendBloomReq, SendRequest, Timer, AskMsg
  <1>2. n \in Node BY ActorsAssumption
  <1>3. NetOf(n, live \cup {Timer("audit", id, m, NoNode, {})}, net \cup {AskMsg("audit", n, m, id, 0)})
    <2>1. 0 \in 0..MaxVersion /\ "audit" \in Kinds BY BoundAssumption DEF Kinds
    <2>2. NewTimer(n, live, net, id) BY <1>1
    <2> QED BY <1>2, <2>1, <2>2, NetRequest
  <1>4. Tied(n, v, s, live \cup {Timer("audit", id, m, NoNode, {})})
    BY NewTimerTied DEF AuditKinds
  <1> QED BY <1>1, <1>2, <1>3, <1>4, ContinueEnds

\* The candidate c is being audited, and its filter is known; nobody is protected
\* unless the audit was retried.
Auditing(n, s, c, live) ==
  /\ n \in Auditors /\ c \in Node
  /\ Sound(n, s) /\ live \subseteq Wait /\ AuditsIn(live) = {}
  /\ s.auditing = c /\ FilterOf(s, c) > 0
  /\ Protected(s) = {} \/ Retried(n)

LEMMA AuditWithEnds ==
  ASSUME NEW n \in Node, NEW v \in BOOLEAN, NEW s, NEW c, NEW live, NEW net,
         Auditing(n, s, c, live), NetOf(n, live, net), AuditWith(n, s, c, live, net)
  PROVE  EndsWell(n, v)
  <1>1. CASE Protected(s) # {} /\ Abort(n, "audit_with", net)
    BY <1>1, AbortEnds DEF Auditing
  <1>2. CASE Protected(s) = {} /\ ~(Protected(s) # {} /\ Abort(n, "audit_with", net))
    <2> DEFINE t == Protect(s, {c})
    <2>0. s \in AuditState /\ c \in Node /\ Sound(n, s) BY DEF Auditing, Sound
    <2>1. /\ Sound(n, t) /\ t.friends = s.friends /\ t.candidates = s.candidates
          /\ t.filter = s.filter /\ t.auditing = s.auditing
          /\ \A m \in Node : t.protected[m] = IF m \in {c} THEN FilterOf(s, m) ELSE s.protected[m]
      BY <2>0, ProtectKeeps
    <2> HIDE DEF t
    <2>2. \A m \in Node : s.protected[m] = 0 BY <1>2, <2>0 DEF Protected, AuditState
    <2>3. FilterOf(s, c) > 0 BY DEF Auditing
    <2>4. Protected(t) = {c} BY <2>0, <2>1, <2>2, <2>3 DEF Protected
    <2>5. FilterOf(t, c) > 0 BY <2>0, <2>1, <2>3 DEF FilterOf
    <2>6. IsFiniteSet(s.friends) /\ Cardinality(s.friends) \in Nat /\ s.friends \subseteq Node
      BY <2>0, FriendsFinite
    <2>7. Cardinality({}) = 0 BY FS_EmptySet
    <2>8. CASE Cardinality(s.friends) < MaxFriends /\ SendFriendReq(n, t, c, NoNode, {}, live, net)
      <3>1. s.friends \ {NoNode} = s.friends BY <2>6, NodeAssumption
      <3>2. Cardinality(t.friends \ {NoNode}) + Cardinality({}) < MaxFriends
        <4>1. Cardinality(t.friends \ {NoNode}) = Cardinality(s.friends) BY <2>1, <3>1
        <4> QED BY <4>1, <2>6, <2>7, <2>8, SizeAssumption
      <3>3. MayAsk(n, t, c, NoNode, {}, live)
        BY <2>0, <2>1, <2>4, <2>5, <3>2 DEF MayAsk, Auditing
      <3> QED BY <3>3, <2>8, SendFriendReqEnds
    <2>9. ASSUME Cardinality(s.friends) = MaxFriends, NEW q \in s.friends,
                 SendFriendReq(n, t, c, q, {}, live, net)
          PROVE  EndsWell(n, v)
      <3>1. Cardinality(s.friends \ {q}) = Cardinality(s.friends) - 1 BY <2>6, FS_RemoveElement
      <3>2. Cardinality(t.friends \ {q}) + Cardinality({}) < MaxFriends
        BY <2>1, <2>6, <2>7, <2>9, <3>1, SizeAssumption
      <3>3. MayAsk(n, t, c, q, {}, live)
        BY <2>0, <2>1, <2>4, <2>5, <2>6, <2>9, <3>2 DEF MayAsk, Auditing
      <3> QED BY <3>3, <2>9, SendFriendReqEnds
    <2>10. CASE Continue(n, EndOfAudit(s), live, net)
      <3> DEFINE u == EndOfAudit(s)
      <3>1. Sound(n, u) /\ u.protected = s.protected /\ u.auditing = NoNode BY <2>0, EndOfAuditKeeps
      <3> HIDE DEF u
      <3>2. Protected(u) = {} BY <1>2, <3>1 DEF Protected
      <3>3. Tied(n, v, u, live) BY <3>1, <3>2, NoTimers DEF Auditing
      <3> QED BY <3>1, <3>3, <2>10, ContinueEnds DEF u
    <2> QED BY <1>2, <2>8, <2>9, <2>10 DEF AuditWith, t
  <1> QED BY <1>1, <1>2 DEF AuditWith

LEMMA AuditEnds ==
  ASSUME NEW n \in Node, NEW v \in BOOLEAN, NEW s, NEW live, NEW net,
         Sound(n, s), Tied(n, v, s, live), NetOf(n, live, net), Audit(n, s, live, net)
  PROVE  EndsWell(n, v)
  <1>1. CASE Continue(n, s, live, net) BY <1>1, ContinueEnds
  <1>2. CASE s.auditing = NoNode
    <2>0. s \in AuditState BY DEF Sound
    <2>1. AuditsIn(live) = {} BY <1>2, NodeAssumption DEF Tied, Wait, AuditsIn
    <2>2. Protected(s) = {} BY <2>1 DEF Tied
    <2>3. ASSUME NEW c \in s.candidates \ s.friends,
                 LET t == [s EXCEPT !.auditing = c]
                 IN  \/ s.filter[c] = 0 /\ SendBloomReq(n, t, c, "audit", live, net)
                     \/ s.filter[c] > 0 /\ AuditWith(n, t, c, live, net)
          PROVE  EndsWell(n, v)
      <3> DEFINE t == [s EXCEPT !.auditing = c]
      <3>1. c \in Node \ {n} /\ n \in Auditors BY <2>0 DEF Sound, AuditState
      <3>2. Sound(n, t) /\ t.candidates = s.candidates /\ t.filter = s.filter /\ t.auditing = c
        BY <3>1, AuditingKeeps
      <3>3. live \in SUBSET Wait BY DEF Tied
      <3>6. Protected(t) = {} BY <2>0, <2>2 DEF Protected, AuditState
      <3> HIDE DEF t
      <3>4. CASE SendBloomReq(n, t, c, "audit", live, net)
        BY <3>1, <3>2, <3>3, <3>4, <3>6, <2>1, AskForFilterEnds
      <3>5. CASE s.filter[c] > 0 /\ AuditWith(n, t, c, live, net)
        <4>1. Auditing(n, t, c, live) BY <3>1, <3>2, <3>3, <3>5, <3>6, <2>1 DEF Auditing, FilterOf
        <4> QED BY <4>1, <3>5, AuditWithEnds
      <3> QED BY <2>3, <3>4, <3>5 DEF t
    <2> QED BY <1>1, <1>2, <2>2, <2>3 DEF Audit
  <1> QED BY <1>1, <1>2 DEF Audit

LEMMA AuditIfRoomEnds ==
  ASSUME NEW n \in Node, NEW v \in BOOLEAN, NEW s, NEW live \in SUBSET Wait, NEW net,
         Sound(n, s), AuditsIn(live) = {}, Protected(s) = {}, NetOf(n, live, net), AuditIfRoom(n, s, live, net)
  PROVE  EndsWell(n, v)
  <1> DEFINE t == EndOfAudit(s)
  <1>1. Sound(n, t) /\ t.protected = s.protected /\ t.auditing = NoNode BY EndOfAuditKeeps
  <1> HIDE DEF t
  <1>2. Protected(t) = {} BY <1>1 DEF Protected
  <1>3. Tied(n, v, t, live) BY <1>1, <1>2, NoTimers
  <1>4. Audit(n, t, live, net) \/ Continue(n, t, live, net) BY DEF AuditIfRoom, t
  <1> QED BY <1>1, <1>3, <1>4, AuditEnds, ContinueEnds

\* An answer or a timeout has ended the request, and those of next are left to be asked.
Asked(n, s, next, live) ==
  /\ n \in Auditors /\ next \in SUBSET Node
  /\ Sound(n, s) /\ live \subseteq Wait /\ AuditsIn(live) = {}
  /\ Protected(s) = next
  /\ next # {} => Cardinality(s.friends) + Cardinality(next) <= MaxFriends

LEMMA NextTargetEnds ==
  ASSUME NEW n \in Node, NEW v \in BOOLEAN, NEW s, NEW next, NEW live, NEW net,
         Asked(n, s, next, live), NetOf(n, live, net), NextTarget(n, s, next, live, net)
  PROVE  EndsWell(n, v)
  <1>0. s \in AuditState /\ Sound(n, s) /\ next \in SUBSET Node BY DEF Asked, Sound
  <1>1. CASE next = {} BY <1>1, AuditIfRoomEnds DEF Asked, NextTarget
  <1>2. CASE next # {}
    <2>1. /\ IsFiniteSet(s.friends) /\ Cardinality(s.friends) \in Nat /\ s.friends \subseteq Node
      BY <1>0, FriendsFinite
    <2>2. IsFiniteSet(next) BY <1>0, NodeAssumption, FS_Subset
    <2>3. Cardinality(next) \in Nat /\ (Cardinality(next) = 0 <=> next = {})
      BY <2>2, FS_CardinalityType, FS_EmptySet
    <2>4. Cardinality(s.friends) < MaxFriends
      BY <1>2, <2>1, <2>3, SizeAssumption DEF Asked
    <2>5. PICK t \in next : SendFriendReq(n, [s EXCEPT !.auditing = t], t, NoNode, next \ {t}, live, net)
      BY <1>2, <2>1, <2>4, SizeAssumption DEF NextTarget
    <2> DEFINE u == [s EXCEPT !.auditing = t]
    <2>6. s.protected[t] > 0 /\ t \in Node \ {n} BY <1>0 DEF Asked, Protected, Sound
    <2>7. FilterOf(s, t) > 0 BY <1>0, <2>6 DEF Sound, FilterOf
    <2>8. /\ Sound(n, u) /\ u.friends = s.friends /\ u.candidates = s.candidates
          /\ u.filter = s.filter /\ u.protected = s.protected /\ u.auditing = t
      BY <1>0, <2>6, AuditingKeeps
    <2> HIDE DEF u
    <2>9. Protected(u) = {t} \cup (next \ {t}) BY <1>0, <2>8 DEF Asked, Protected
    <2>10. FilterOf(u, t) > 0 BY <2>7, <2>8 DEF FilterOf
    <2>11. Cardinality(u.friends \ {NoNode}) + Cardinality(next \ {t}) < MaxFriends
      <3>1. u.friends \ {NoNode} = s.friends BY <2>1, <2>8, NodeAssumption
      <3>2. Cardinality(next \ {t}) = Cardinality(next) - 1 BY <2>2, FS_RemoveElement
      <3>3. Cardinality(s.friends) + Cardinality(next) <= MaxFriends BY <1>2 DEF Asked
      <3>4. Cardinality(u.friends \ {NoNode}) = Cardinality(s.friends) BY <3>1
      <3>5. MaxFriends \in Nat BY SizeAssumption
      <3> HIDE DEF u
      <3> QED BY <2>1, <2>3, <3>2, <3>3, <3>4, <3>5
    <2>12. MayAsk(n, u, t, NoNode, next \ {t}, live)
      BY <1>0, <2>6, <2>8, <2>9, <2>10, <2>11 DEF MayAsk, Asked
    <2> QED BY <2>5, <2>12, SendFriendReqEnds DEF u
  <1> QED BY <1>1, <1>2

LEMMA HearKeeps ==
  ASSUME NEW n \in Node, NEW s, NEW from \in SUBSET Node, Sound(n, s), NEW t \in Hear(n, s, from)
  PROVE  Sound(n, t) /\ Keeps(s, t) /\ t.friends = s.friends
  <1>1. PICK list \in SUBSET Node : t \in AddCandidates(n, s, from \cup list) BY DEF Hear
  <1>2. from \cup list \in SUBSET Node OBVIOUS
  <1> QED BY <1>1, <1>2, AddCandidatesKeeps

LEMMA PeerHasFailedEnds ==
  ASSUME NEW n \in Node, NEW v \in BOOLEAN, NEW s, NEW f \in Node, NEW live, NEW net,
         Sound(n, s), Tied(n, v, s, live), NetOf(n, live, net), PeerHasFailed(n, s, f, live, net)
  PROVE  EndsWell(n, v)
  <1>1. CASE Continue(n, s, live, net) BY <1>1, ContinueEnds
  <1>2. CASE Audit(n, DropFriend(s, f), live, net \cup {RemoveFriend(n, f)})
    <2>1. Sound(n, DropFriend(s, f)) /\ Keeps(s, DropFriend(s, f)) BY DropKeeps
    <2>2. Tied(n, v, DropFriend(s, f), live) BY <2>1, TiedKeeps
    <2>3. NetOf(n, live, net \cup {RemoveFriend(n, f)}) BY NetRemoveOne
    <2> QED BY <1>2, <2>1, <2>2, <2>3, AuditEnds
  <1> QED BY <1>1, <1>2 DEF PeerHasFailed

\* A request that is not of an audit.
LEMMA PlainRequestEnds ==
  ASSUME NEW n \in Node, NEW v \in BOOLEAN, NEW s, NEW m \in Node, NEW live, NEW net,
         NEW kind \in {"bloom", "ping"}, NEW ver \in 0..MaxVersion,
         Sound(n, s), Tied(n, v, s, live), NetOf(n, live, net),
         SendRequest(n, s, kind, m, NoNode, {}, ver, live, net)
  PROVE  EndsWell(n, v)
  <1>1. PICK id \in TimerIds :
          /\ NewTimer(n, live, net, id)
          /\ Continue(n, s, live \cup {Timer(kind, id, m, NoNode, {})},
                      net \cup {AskMsg(kind, n, m, id, ver)})
    BY DEF SendRequest, Timer, AskMsg
  <1> DEFINE w == Timer(kind, id, m, NoNode, {})
  <1>2. live \in SUBSET Wait BY DEF Tied
  <1>3. w \in Wait /\ w.kind = kind BY DEF Timer, Wait, Kinds
  <1>4. NetOf(n, live \cup {w}, net \cup {AskMsg(kind, n, m, id, ver)})
    <2>1. NewTimer(n, live, net, id) /\ kind \in Kinds BY <1>1 DEF Kinds
    <2> QED BY <1>2, <2>1, NetRequest
  <1> HIDE DEF w
  <1>5. AuditsIn(live \cup {w}) = AuditsIn(live) BY <1>3 DEF AuditsIn, AuditKinds
  <1>6. Tied(n, v, s, live \cup {w})
    <2>1. live \cup {w} \subseteq Wait BY <1>2, <1>3
    <2> QED BY <1>5, <2>1, OtherTimers
  <1> QED BY <1>1, <1>4, <1>6, ContinueEnds DEF w

LEMMA FetchIfNewerEnds ==
  ASSUME NEW n \in Node, NEW v \in BOOLEAN, NEW s, NEW m, m.src \in Node, NEW live, NEW net,
         Sound(n, s), Tied(n, v, s, live), NetOf(n, live, net), FetchIfNewer(n, s, m, live, net)
  PROVE  EndsWell(n, v)
  <1>1. CASE Continue(n, s, live, net) BY <1>1, ContinueEnds
  <1>2. CASE SendRequest(n, s, "bloom", m.src, NoNode, {}, 0, live, net)
    <2>1. 0 \in 0..MaxVersion BY BoundAssumption
    <2> QED BY <1>2, <2>1, PlainRequestEnds
  <1> QED BY <1>1, <1>2 DEF FetchIfNewer, SendBloomReq

-----------------------------------------------------------------------------
(***************************************************************************)
(* From a node's step to the invariant.                                    *)
(***************************************************************************)

FansFit == fans' \in [Node -> SUBSET (Node \cup Stranger)] /\ \A n \in Node : Cardinality(fans'[n]) <= MaxFans

LEMMA StepKeeps ==
  ASSUME NEW n \in Node, IInv, broken[n] = "none", EndsWell(n, virgin[n]), FansFit,
         online' = [online EXCEPT ![n] = TRUE], virgin' = virgin, version' = version
  PROVE  IInv'
  <1>0. TypeOK BY DEF IInv
  <1>1. /\ online' \in [Node -> BOOLEAN] /\ online'[n]
        /\ \A k \in Node \ {n} : online'[k] = online[k]
    BY <1>0 DEF TypeOK
  <1>2. CASE Continues(n, virgin[n])
    <2>1. PICK s, live :
            /\ Sound(n, s) /\ Tied(n, virgin[n], s, live)
            /\ audit' = [audit EXCEPT ![n] = s]
            /\ waits' = [waits EXCEPT ![n] = live]
            /\ UNCHANGED broken
            /\ NetOf(n, live, msgs')
      BY <1>2 DEF Continues
    <2>2. s \in AuditState /\ live \subseteq Wait BY <2>1 DEF Sound, Tied
    <2>3. /\ audit' \in [Node -> AuditState] /\ audit'[n] = s
          /\ \A k \in Node \ {n} : audit'[k] = audit[k]
      BY <1>0, <2>1, <2>2 DEF TypeOK
    <2>4. /\ waits' \in [Node -> SUBSET Wait] /\ waits'[n] = live
          /\ \A k \in Node \ {n} : waits'[k] = waits[k]
      BY <1>0, <2>1, <2>2 DEF TypeOK
    <2>5. TypeOK' BY <1>0, <1>1, <2>1, <2>3, <2>4 DEF TypeOK, FansFit, NetOf, Net
    <2>6. \A k \in Node : Matched(k, waits'[k], msgs') BY <2>1, <2>4 DEF NetOf
    <2>7. \A k \in Node : Sound(k, audit'[k]) BY <2>1, <2>3 DEF IInv
    <2>8. \A k \in Node : ~online'[k] => waits'[k] = {} /\ ~virgin'[k] BY <1>1, <2>4 DEF IInv
    <2>9. ASSUME NEW k \in Node, Running(k)' PROVE Tied(k, virgin'[k], audit'[k], waits'[k])
      <3>1. CASE k = n BY <2>1, <2>3, <2>4, <3>1
      <3>2. CASE k # n
        <4>1. Running(k) BY <1>1, <2>1, <2>9, <3>2 DEF Running
        <4> QED BY <2>3, <2>4, <3>2, <4>1 DEF IInv
      <3> QED BY <3>1, <3>2
    <2>10. AssertionsHold' /\ Net(msgs') BY <2>1, <2>3 DEF IInv, AssertionsHold, NetOf, Protected
    <2> QED BY <2>5, <2>6, <2>7, <2>8, <2>9, <2>10 DEF IInv
  <1>3. CASE Ends(n)
    <2>1. PICK assertion \in {"audit_with", "wait_after_bloom_req"} :
            broken' = [broken EXCEPT ![n] = assertion]
      BY <1>3 DEF Ends
    <2>2. /\ waits' = [waits EXCEPT ![n] = {}] /\ audit' = audit /\ NetOf(n, {}, msgs')
          /\ Retried(n)
      BY <1>3 DEF Ends
    <2>3. /\ broken'[n] = assertion
          /\ \A k \in Node \ {n} : broken'[k] = broken[k]
      BY <1>0, <2>1 DEF TypeOK
    <2>4. /\ waits' \in [Node -> SUBSET Wait] /\ waits'[n] = {}
          /\ \A k \in Node \ {n} : waits'[k] = waits[k]
      BY <1>0, <2>2 DEF TypeOK
    <2>5. TypeOK' BY <1>0, <1>1, <2>1, <2>2, <2>4 DEF TypeOK, FansFit, NetOf, Net
    <2>6. \A k \in Node : Matched(k, waits'[k], msgs') BY <2>2, <2>4 DEF NetOf
    <2>7. \A k \in Node : Sound(k, audit'[k]) BY <2>2 DEF IInv
    <2>8. \A k \in Node : ~online'[k] => waits'[k] = {} /\ ~virgin'[k] BY <1>1, <2>4 DEF IInv
    <2>9. ASSUME NEW k \in Node, Running(k)' PROVE Tied(k, virgin'[k], audit'[k], waits'[k])
      <3>1. k # n BY <2>1, <2>3, <2>9 DEF Running
      <3>2. Running(k) BY <1>1, <2>3, <2>9, <3>1 DEF Running
      <3> QED BY <2>2, <2>4, <3>1, <3>2 DEF IInv
    <2>10. AssertionsHold' /\ Net(msgs') BY <2>1, <2>2, <2>3 DEF IInv, AssertionsHold, NetOf, Retried, Protected
    <2> QED BY <2>5, <2>6, <2>7, <2>8, <2>9, <2>10 DEF IInv
  <1> QED BY <1>2, <1>3 DEF EndsWell

LEMMA HandlerKeeps ==
  ASSUME NEW n \in Node, IInv, Running(n), EndsWell(n, virgin[n]), FansFit, Quiet
  PROVE  IInv'
  <1>1. online' = [online EXCEPT ![n] = TRUE] BY DEF IInv, TypeOK, Running, Quiet
  <1> QED BY <1>1, StepKeeps DEF Quiet, Running

\* A node's state as a handler finds it.
Begins(n) ==
  /\ n \in Node /\ virgin[n] \in BOOLEAN /\ Sound(n, audit[n])
  /\ Tied(n, virgin[n], audit[n], waits[n]) /\ NetOf(n, waits[n], msgs)

LEMMA RunningBegins ==
  ASSUME NEW n \in Node, IInv, Running(n)
  PROVE  Begins(n)
  BY DEF IInv, TypeOK, NetOf, Begins

LEMMA FansStay ==
  ASSUME IInv, UNCHANGED fans
  PROVE  FansFit
  BY DEF IInv, TypeOK, FansFit

LEMMA FansAfterFits ==
  ASSUME NEW n \in Node, NEW src \in Node \cup Stranger, NEW old \in SUBSET fans[n], IInv,
         fans' = [fans EXCEPT ![n] = FansAfter(n, src, old)]
  PROVE  FansFit
  <1>1. fans \in [Node -> SUBSET (Node \cup Stranger)] /\ \A k \in Node : Cardinality(fans[k]) <= MaxFans
    BY DEF IInv, TypeOK
  <1> DEFINE left == fans[n] \ old
  <1>2. IsFiniteSet(fans[n])
    <2>1. IsFiniteSet(Node \cup Stranger) BY NodeAssumption, FS_Union
    <2> QED BY <1>1, <2>1, FS_Subset
  <1>3. IsFiniteSet(left) /\ Cardinality(left) <= Cardinality(fans[n]) BY <1>2, FS_Subset
  <1>4. Cardinality(left) \in Nat /\ Cardinality(fans[n]) \in Nat BY <1>2, <1>3, FS_CardinalityType
  <1> HIDE DEF left
  <1>5. Cardinality(left \cup {src}) = IF src \in left THEN Cardinality(left) ELSE Cardinality(left) + 1
    BY <1>3, FS_AddElement
  <1>6. FansAfter(n, src, old) = IF Cardinality(left) < MaxFans \/ src \in left THEN left \cup {src} ELSE left
    BY DEF FansAfter, TakesFan, left
  <1>7. Cardinality(FansAfter(n, src, old)) <= MaxFans
    BY <1>1, <1>3, <1>4, <1>5, <1>6, SizeAssumption
  <1>8. FansAfter(n, src, old) \in SUBSET (Node \cup Stranger) BY <1>1, <1>6 DEF left
  <1> QED BY <1>1, <1>7, <1>8 DEF FansFit

LEMMA MessageType ==
  ASSUME IInv, NEW m \in msgs
  PROVE  /\ m \in Message /\ m.src \in Node /\ m.dst \in Node
         /\ m.kind \in Kinds => m \in Request
         /\ m.kind \notin Kinds \cup {"remove"} => m \in Reply
  BY DEF IInv, Net, Message, Request, Reply, Kinds

\* An answer or a timeout takes the timer.
LEMMA TimerTaken ==
  ASSUME NEW n, Begins(n), NEW w \in waits[n]
  PROVE  /\ w \in Wait /\ waits[n] \ {w} \in SUBSET Wait
         /\ NetOf(n, waits[n] \ {w}, msgs)
         /\ w.kind \in AuditKinds =>
              /\ AuditsIn(waits[n] \ {w}) = {} /\ audit[n].auditing = w.neighbor
              /\ n \in Auditors
         /\ w.kind \notin AuditKinds => Tied(n, virgin[n], audit[n], waits[n] \ {w})
  <1> DEFINE live == waits[n] \ {w}
  <1>1. waits[n] \subseteq Wait /\ Tied(n, virgin[n], audit[n], waits[n]) BY DEF Begins, Tied
  <1>2. NetOf(n, live, msgs)
    <2>1. live \in SUBSET waits[n] /\ msgs \in SUBSET msgs OBVIOUS
    <2> QED BY <2>1, NetLess DEF Begins
  <1>3. ASSUME w.kind \in AuditKinds
        PROVE  AuditsIn(live) = {} /\ audit[n].auditing = w.neighbor /\ n \in Auditors
    <2>1. w \in AuditsIn(waits[n]) BY <1>3 DEF AuditsIn
    <2> QED BY <1>1, <2>1 DEF Tied, AuditsIn
  <1>4. ASSUME w.kind \notin AuditKinds
        PROVE  Tied(n, virgin[n], audit[n], live)
    <2>1. AuditsIn(live) = AuditsIn(waits[n]) BY <1>4 DEF AuditsIn
    <2>2. live \subseteq Wait BY <1>1
    <2> HIDE DEF live
    <2> QED BY <1>1, <2>1, <2>2, OtherTimers DEF Begins
  <1> QED BY <1>1, <1>2, <1>3, <1>4

-----------------------------------------------------------------------------
(***************************************************************************)
(* The actions.                                                            *)
(***************************************************************************)

LEMMA MeetCandidateKeeps ==
  ASSUME IInv, NEW n \in Node, NEW m \in Node, MeetCandidate(n, m)
  PROVE  IInv'
  <1>1. Running(n) /\ UNCHANGED fans /\ Quiet BY DEF MeetCandidate
  <1>2. Begins(n) BY <1>1, RunningBegins
  <1>3. PICK s \in AddCandidates(n, audit[n], {m}) : Continue(n, s, waits[n], msgs) BY DEF MeetCandidate
  <1>4. Sound(n, s) /\ Keeps(audit[n], s)
    <2>1. {m} \in SUBSET Node OBVIOUS
    <2> QED BY <1>2, <1>3, <2>1, AddCandidatesKeeps DEF Begins
  <1>5. Tied(n, virgin[n], s, waits[n]) BY <1>2, <1>4, TiedKeeps DEF Begins
  <1>6. EndsWell(n, virgin[n]) BY <1>2, <1>3, <1>4, <1>5, ContinueEnds DEF Begins
  <1> QED BY <1>1, <1>6, FansStay, HandlerKeeps

LEMMA PeriodicAuditKeeps ==
  ASSUME IInv, NEW n \in Node, PeriodicAudit(n)
  PROVE  IInv'
  <1>1. Running(n) /\ UNCHANGED fans /\ Quiet BY DEF PeriodicAudit
  <1>2. Begins(n) BY <1>1, RunningBegins
  <1>3. Audit(n, audit[n], waits[n], msgs) BY DEF PeriodicAudit
  <1>4. EndsWell(n, virgin[n]) BY <1>2, <1>3, AuditEnds DEF Begins
  <1> QED BY <1>1, <1>4, FansStay, HandlerKeeps

LEMMA AddFeedKeeps ==
  ASSUME IInv, NEW n \in Node, AddFeed(n)
  PROVE  IInv'
  <1>1. version' \in [Node -> 1..MaxVersion] BY BoundAssumption DEF IInv, TypeOK, AddFeed
  <1>2. UNCHANGED <<online, virgin, broken, fans, audit, waits, msgs>> BY DEF AddFeed
  <1>3. TypeOK' BY <1>1, <1>2 DEF IInv, TypeOK
  <1> QED BY <1>2, <1>3 DEF IInv, AssertionsHold, Running, Protected

LEMMA ReceiveBloomReqKeeps ==
  ASSUME IInv, NEW m \in msgs, ReceiveBloomReq(m)
  PROVE  IInv'
  <1> DEFINE n == m.dst
             net == (msgs \ {m}) \cup {ReplyTo(m, "filter", version[n])}
  <1>1. Running(n) /\ UNCHANGED fans /\ Quiet /\ m.kind \in {"audit", "bloom"} BY DEF ReceiveBloomReq
  <1>2. m.src \in Node /\ n \in Node /\ m \in Request BY <1>1, MessageType DEF Kinds
  <1>3. Begins(n) BY <1>1, <1>2, RunningBegins
  <1>4. PICK s \in AddCandidates(n, audit[n], {m.src}) : Continue(n, s, waits[n], net)
    BY DEF ReceiveBloomReq
  <1>5. version[n] \in 0..MaxVersion /\ version[n] > 0 BY <1>2, BoundAssumption DEF IInv, TypeOK
  <1> HIDE DEF n
  <1>6. Sound(n, s) /\ Keeps(audit[n], s)
    <2>1. {m.src} \in SUBSET Node BY <1>2
    <2> QED BY <1>2, <1>3, <1>4, <2>1, AddCandidatesKeeps DEF Begins
  <1>7. Tied(n, virgin[n], s, waits[n]) BY <1>3, <1>6, TiedKeeps DEF Begins
  <1>8. NetOf(n, waits[n], net) BY <1>1, <1>2, <1>3, <1>5, NetReply DEF Begins
  <1> HIDE DEF net
  <1>9. EndsWell(n, virgin[n]) BY <1>3, <1>4, <1>6, <1>7, <1>8, ContinueEnds DEF Begins
  <1> QED BY <1>1, <1>2, <1>9, FansStay, HandlerKeeps

LEMMA ReceiveBloomReplyKeeps ==
  ASSUME IInv, NEW m \in msgs, ReceiveBloomReply(m)
  PROVE  IInv'
  <1> DEFINE n == m.dst
             net == msgs \ {m}
  <1>1. Running(n) /\ UNCHANGED fans /\ Quiet /\ m.kind = "filter" BY DEF ReceiveBloomReply
  <1>2. m.src \in Node /\ n \in Node /\ m.version \in 0..MaxVersion /\ m.version > 0
    <2>1. m \in Reply BY <1>1, MessageType DEF Kinds
    <2> QED BY <1>1, <2>1 DEF Reply, IInv, Net
  <1>3. Begins(n) BY <1>1, <1>2, RunningBegins
  <1>4. PICK w \in Cancels(m) :
          LET live == waits[n] \ {w}
          IN  \/ w.kind = "bloom" /\ Continue(n, Learn(audit[n], m.src, m.version), live, net)
              \/ w.kind = "audit" /\ audit[n].auditing # m.src /\ Abort(n, "bloom_reply", net)
              \/ /\ w.kind = "audit" /\ audit[n].auditing = m.src
                 /\ \E s \in IF m.src \in audit[n].candidates THEN {audit[n]}
                             ELSE AddCandidates(n, audit[n], {m.src}) :
                      AuditWith(n, Learn(s, m.src, m.version), m.src, live, net)
    BY DEF ReceiveBloomReply
  <1>5. w \in waits[n] /\ m.timer = w.timer BY DEF Cancels
  <1>6. m.src = w.neighbor BY <1>1, <1>3, <1>5 DEF Begins, NetOf, Matched, Kinds
  <1> HIDE DEF n
  <1> DEFINE live == waits[n] \ {w}
  <1>7. /\ live \in SUBSET Wait
        /\ w.kind = "audit" => AuditsIn(live) = {} /\ audit[n].auditing = m.src /\ n \in Auditors
        /\ w.kind = "bloom" => Tied(n, virgin[n], audit[n], live)
        /\ w.kind = "audit" => Protected(audit[n]) = {} \/ Retried(n)
    BY <1>3, <1>5, <1>6, TimerTaken DEF AuditKinds, Begins, Tied, Retried
  <1>8. NetOf(n, live, net)
    <2>1. NetOf(n, live, msgs) BY <1>3, <1>5, TimerTaken
    <2>2. live \in SUBSET live /\ net \in SUBSET msgs OBVIOUS
    <2> QED BY <1>2, <2>1, <2>2, NetLess
  <1> HIDE DEF live, net
  <1>9. EndsWell(n, virgin[n])
    <2>1. CASE w.kind = "bloom" /\ Continue(n, Learn(audit[n], m.src, m.version), live, net)
      <3>1. Sound(n, Learn(audit[n], m.src, m.version)) /\ Keeps(audit[n], Learn(audit[n], m.src, m.version))
        BY <1>2, <1>3, LearnKeeps DEF Begins
      <3>2. Tied(n, virgin[n], Learn(audit[n], m.src, m.version), live)
        BY <1>2, <1>3, <1>7, <2>1, <3>1, TiedKeeps DEF Begins
      <3> QED BY <1>2, <1>3, <1>8, <2>1, <3>1, <3>2, ContinueEnds DEF Begins
    <2>2. ASSUME w.kind = "audit",
                 NEW s \in IF m.src \in audit[n].candidates THEN {audit[n]}
                           ELSE AddCandidates(n, audit[n], {m.src}),
                 AuditWith(n, Learn(s, m.src, m.version), m.src, live, net)
          PROVE  EndsWell(n, virgin[n])
      <3>1. Sound(n, audit[n]) /\ {m.src} \in SUBSET Node /\ m.src \in Node \ {n}
        BY <1>2, <1>3, <1>7, <2>2 DEF Begins, Sound
      <3>2. Sound(n, s) /\ s.auditing = m.src /\ m.src \in s.candidates /\ s.protected = audit[n].protected
        <4>1. CASE m.src \in audit[n].candidates BY <1>7, <2>2, <3>1, <4>1
        <4>2. CASE m.src \notin audit[n].candidates
          <5>1. s \in AddCandidates(n, audit[n], {m.src}) BY <2>2, <4>2
          <5> QED BY <1>2, <1>7, <2>2, <3>1, <5>1, AddCandidatesKeeps DEF Keeps
        <4> QED BY <4>1, <4>2
      <3> DEFINE t == Learn(s, m.src, m.version)
      <3>3. Sound(n, t) /\ Keeps(s, t) /\ FilterOf(t, m.src) > 0 BY <1>2, <3>2, LearnKeeps
      <3>4. AuditWith(n, t, m.src, live, net) BY <2>2
      <3> HIDE DEF t
      <3>6. Protected(t) = Protected(audit[n]) BY <3>2, <3>3 DEF Protected, Keeps
      <3>5. Auditing(n, t, m.src, live) BY <1>2, <1>7, <2>2, <3>2, <3>3, <3>6 DEF Auditing, Keeps
      <3> QED BY <1>2, <1>3, <1>8, <3>4, <3>5, AuditWithEnds DEF Begins
    <2> QED BY <1>4, <1>7, <2>1, <2>2 DEF live
  <1> QED BY <1>1, <1>2, <1>9, FansStay, HandlerKeeps

LEMMA BloomTimeoutKeeps ==
  ASSUME IInv, NEW n \in Node, NEW w \in waits[n], BloomTimeout(n, w)
  PROVE  IInv'
  <1> DEFINE live == waits[n] \ {w}
             gone == w.neighbor \notin audit[n].friends
             s == IF gone THEN audit[n] ELSE DropFriend(audit[n], w.neighbor)
             net == IF gone THEN msgs ELSE msgs \cup {RemoveFriend(n, w.neighbor)}
  <1>1. Running(n) /\ UNCHANGED fans /\ Quiet /\ w.kind \in {"audit", "bloom"} BY DEF BloomTimeout
  <1>2. Begins(n) BY <1>1, RunningBegins
  <1>3. \/ w.kind = "bloom" /\ PeerHasFailed(n, audit[n], w.neighbor, live, msgs)
        \/ w.kind = "audit" /\ Protected(audit[n]) # {} /\ Abort(n, "wait_after_bloom_req", msgs)
        \/ w.kind = "audit" /\ Protected(audit[n]) = {} /\ AuditIfRoom(n, s, live, net)
    BY DEF BloomTimeout
  <1>4. /\ live \in SUBSET Wait /\ NetOf(n, live, msgs) /\ w.neighbor \in Node
        /\ w.kind = "audit" => AuditsIn(live) = {}
        /\ w.kind = "bloom" => Tied(n, virgin[n], audit[n], live)
    BY <1>2, TimerTaken DEF AuditKinds, Wait
  <1>5. Sound(n, s) /\ s.protected = audit[n].protected
    BY <1>2, <1>4, DropKeeps DEF Begins, Keeps
  <1>6. NetOf(n, live, net) BY <1>4, NetRemoveOne
  <1> HIDE DEF live, s, net
  <1>7. EndsWell(n, virgin[n])
    <2>1. CASE w.kind = "bloom" /\ PeerHasFailed(n, audit[n], w.neighbor, live, msgs)
      BY <1>2, <1>4, <2>1, PeerHasFailedEnds DEF Begins
    <2>2. CASE w.kind = "audit" /\ Protected(audit[n]) # {} /\ Abort(n, "wait_after_bloom_req", msgs)
      <3>1. w.neighbor \in Protected(audit[n]) /\ audit[n].auditing = w.neighbor
        BY <1>2, <2>2 DEF Begins, Tied, AuditsIn, AuditKinds
      <3> QED BY <1>2, <1>4, <2>2, <3>1, AbortEnds DEF Begins, Retried
    <2>3. CASE w.kind = "audit" /\ Protected(audit[n]) = {} /\ AuditIfRoom(n, s, live, net)
      <3>1. Protected(s) = {} BY <1>5, <2>3 DEF Protected
      <3> QED BY <1>2, <1>4, <1>5, <1>6, <2>3, <3>1, AuditIfRoomEnds DEF Begins
    <2> QED BY <1>3, <2>1, <2>2, <2>3
  <1> QED BY <1>1, <1>7, FansStay, HandlerKeeps

LEMMA ReceiveAddFriendReqKeeps ==
  ASSUME IInv, NEW m \in msgs, ReceiveAddFriendReq(m)
  PROVE  IInv'
  <1> DEFINE n == m.dst
             reply(kind) == (msgs \ {m}) \cup {ReplyTo(m, kind, 0)}
  <1>1. Running(n) /\ Quiet /\ m.kind = "add" BY DEF ReceiveAddFriendReq
  <1>2. m.src \in Node /\ n \in Node /\ m \in Request BY <1>1, MessageType DEF Kinds
  <1>3. Begins(n) BY <1>1, <1>2, RunningBegins
  <1>4. PICK s \in Hear(n, audit[n], {m.src}), kind \in {"changed", "ok", "deny"} :
          /\ Continue(n, s, waits[n], reply(kind))
          /\ \/ UNCHANGED fans
             \/ \E old \in SUBSET fans[n] : fans' = [fans EXCEPT ![n] = FansAfter(n, m.src, old)]
    BY DEF ReceiveAddFriendReq
  <1>5. Sound(n, s) /\ Keeps(audit[n], s)
    <2>1. {m.src} \in SUBSET Node BY <1>2
    <2> HIDE DEF n
    <2> QED BY <1>2, <1>3, <1>4, <2>1, HearKeeps DEF Begins
  <1>6. NetOf(n, waits[n], reply(kind))
    <2>1. 0 \in 0..MaxVersion BY BoundAssumption
    <2> HIDE DEF n
    <2> QED BY <1>1, <1>2, <1>3, <2>1, NetReply DEF Begins
  <1>7. FansFit
    <2> HIDE DEF n
    <2> QED BY <1>2, <1>4, FansStay, FansAfterFits
  <1> HIDE DEF n, reply
  <1>8. Tied(n, virgin[n], s, waits[n]) BY <1>3, <1>5, TiedKeeps DEF Begins
  <1>9. EndsWell(n, virgin[n]) BY <1>3, <1>4, <1>5, <1>6, <1>8, ContinueEnds DEF Begins
  <1> QED BY <1>1, <1>2, <1>7, <1>9, HandlerKeeps

LEMMA StrangerAsksKeeps ==
  ASSUME IInv, NEW n \in Node, NEW z \in Stranger, StrangerAsks(n, z)
  PROVE  IInv'
  <1>1. FansFit BY FansAfterFits DEF StrangerAsks
  <1>2. UNCHANGED <<online, virgin, broken, version, audit, waits, msgs>> BY DEF StrangerAsks, Quiet
  <1>3. TypeOK' BY <1>1, <1>2 DEF IInv, TypeOK, FansFit
  <1> QED BY <1>2, <1>3 DEF IInv, AssertionsHold, Running, Protected

LEMMA ReceiveRemoveFriendKeeps ==
  ASSUME IInv, NEW m \in msgs, ReceiveRemoveFriend(m)
  PROVE  IInv'
  <1> DEFINE n == m.dst
             net == msgs \ {m}
  <1>1. Running(n) /\ Quiet /\ fans' = [fans EXCEPT ![n] = @ \ {m.src}] BY DEF ReceiveRemoveFriend
  <1>2. n \in Node BY MessageType
  <1>3. Begins(n) BY <1>1, <1>2, RunningBegins
  <1>4. PICK s \in Hear(n, audit[n], {}) : Continue(n, s, waits[n], net) BY DEF ReceiveRemoveFriend
  <1> HIDE DEF n
  <1>5. Sound(n, s) /\ Keeps(audit[n], s) BY <1>2, <1>3, <1>4, HearKeeps DEF Begins
  <1>6. NetOf(n, waits[n], net)
    <2>1. waits[n] \in SUBSET waits[n] /\ net \in SUBSET msgs OBVIOUS
    <2> QED BY <1>2, <1>3, <2>1, NetLess DEF Begins
  <1> HIDE DEF net
  <1>7. Tied(n, virgin[n], s, waits[n]) BY <1>3, <1>5, TiedKeeps DEF Begins
  <1>8. EndsWell(n, virgin[n]) BY <1>3, <1>4, <1>5, <1>6, <1>7, ContinueEnds DEF Begins
  <1>9. FansFit
    <2>1. fans \in [Node -> SUBSET (Node \cup Stranger)] /\ \A k \in Node : Cardinality(fans[k]) <= MaxFans
      BY DEF IInv, TypeOK
    <2>2. IsFiniteSet(fans[n])
      <3>1. IsFiniteSet(Node \cup Stranger) BY NodeAssumption, FS_Union
      <3> QED BY <1>2, <2>1, <3>1, FS_Subset
    <2> DEFINE left == fans[n] \ {m.src}
    <2>3. IsFiniteSet(left) /\ Cardinality(left) <= Cardinality(fans[n]) BY <2>2, FS_Subset
    <2>4. Cardinality(left) \in Nat /\ Cardinality(fans[n]) \in Nat BY <2>2, <2>3, FS_CardinalityType
    <2>5. Cardinality(left) <= MaxFans BY <1>2, <2>1, <2>3, <2>4, SizeAssumption
    <2> QED BY <1>1, <1>2, <2>1, <2>5 DEF FansFit
  <1> QED BY <1>1, <1>2, <1>8, <1>9, HandlerKeeps

\* The request w of an audit was out, and its timer is gone.
Answered(n, s, w, live) ==
  /\ n \in Auditors /\ Sound(n, s) /\ w \in Wait /\ live \subseteq Wait /\ AuditsIn(live) = {}
  /\ s.auditing = w.neighbor /\ Protected(s) = {w.neighbor} \cup w.next /\ w.neighbor \notin w.next
  /\ Cardinality(s.friends \ {w.prune}) + Cardinality(w.next) < MaxFriends

LEMMA IsAnswered ==
  ASSUME NEW n \in Node, Begins(n), NEW s, Sound(n, s), Keeps(audit[n], s),
         NEW w \in waits[n], w.kind = "add"
  PROVE  Answered(n, s, w, waits[n] \ {w})
  <1>1. Tied(n, virgin[n], s, waits[n]) BY TiedKeeps DEF Begins
  <1>2. /\ w \in Wait /\ waits[n] \ {w} \in SUBSET Wait /\ n \in Auditors
        /\ AuditsIn(waits[n] \ {w}) = {} /\ audit[n].auditing = w.neighbor
    BY TimerTaken DEF AuditKinds
  <1>3. s.auditing = w.neighbor BY <1>2 DEF Keeps
  <1>4. /\ Protected(s) = {w.neighbor} \cup w.next /\ w.neighbor \notin w.next
        /\ Cardinality(s.friends \ {w.prune}) + Cardinality(w.next) < MaxFriends
    BY <1>1 DEF Tied
  <1> QED BY <1>2, <1>3, <1>4 DEF Answered

LEMMA DeniedEnds ==
  ASSUME NEW n \in Node, NEW v \in BOOLEAN, NEW s, NEW w, NEW live, NEW net,
         Answered(n, s, w, live), NetOf(n, live, net),
         NextTarget(n, Unprotect(s, w.neighbor), w.next, live, net)
  PROVE  EndsWell(n, v)
  <1> DEFINE t == Unprotect(s, w.neighbor)
  <1>0. s \in AuditState /\ Sound(n, s) /\ w.neighbor \in Node /\ w.next \in SUBSET Node
    BY DEF Answered, Sound, Wait
  <1>1. Sound(n, t) /\ t.friends = s.friends /\ Protected(t) = Protected(s) \ {w.neighbor}
    BY <1>0, UnprotectKeeps
  <1> HIDE DEF t
  <1>2. Protected(t) = w.next BY <1>1 DEF Answered
  <1>3. Cardinality(t.friends) + Cardinality(w.next) <= MaxFriends
    <2>1. IsFiniteSet(s.friends) /\ Cardinality(s.friends) \in Nat BY <1>0, FriendsFinite
    <2>2. Cardinality(s.friends \ {w.prune})
            = IF w.prune \in s.friends THEN Cardinality(s.friends) - 1 ELSE Cardinality(s.friends)
      BY <2>1, FS_RemoveElement
    <2>3. Cardinality(w.next) \in Nat BY <1>0, NodeAssumption, FS_Subset, FS_CardinalityType
    <2>4. Cardinality(s.friends \ {w.prune}) + Cardinality(w.next) < MaxFriends BY DEF Answered
    <2>5. Cardinality(t.friends) = Cardinality(s.friends) BY <1>1
    <2> QED BY <2>1, <2>2, <2>3, <2>4, <2>5, SizeAssumption
  <1>4. Asked(n, t, w.next, live) BY <1>0, <1>1, <1>2, <1>3 DEF Asked, Answered
  <1> QED BY <1>4, NextTargetEnds DEF t

LEMMA AcceptedEnds ==
  ASSUME NEW n \in Node, NEW v \in BOOLEAN, NEW s, NEW w, NEW live, NEW net,
         Answered(n, s, w, live), NetOf(n, live, net), Accepted(n, s, w, live, net)
  PROVE  EndsWell(n, v)
  <1> DEFINE f == w.neighbor
             pruned == IF w.prune \in s.friends THEN net \cup {RemoveFriend(n, w.prune)} ELSE net
             b == IF w.prune \in s.friends THEN DropFriend(s, w.prune) ELSE s
  <1>0. /\ s \in AuditState /\ Sound(n, s) /\ f \in Node \ {n} /\ w.next \in SUBSET Node
        /\ n \in Auditors
    BY DEF Answered, Sound, Wait
  <1>1. s.protected[f] > 0 BY <1>0 DEF Answered, Protected
  <1>2. FilterOf(s, f) > 0 BY <1>0, <1>1 DEF Sound, FilterOf
  <1>3. NextTarget(n, Unprotect(AddFriend(b, f), f), w.next, live, pruned)
    BY <1>0, <1>1, <1>2 DEF Accepted, Befriended, Protected
  <1>4. NetOf(n, live, pruned)
    <2>1. w.prune \in s.friends => w.prune \in Node BY <1>0 DEF AuditState
    <2> QED BY <2>1, NetRemoveOne
  <1>5. Sound(n, b) /\ Keeps(s, b) /\ b.friends = s.friends \ {w.prune}
    <2>1. CASE w.prune \in s.friends
      <3>1. w.prune \in Node BY <1>0, <2>1 DEF AuditState
      <3> QED BY <1>0, <2>1, <3>1, DropKeeps
    <2>2. CASE w.prune \notin s.friends BY <1>0, <2>2 DEF Keeps
    <2> QED BY <2>1, <2>2
  <1> HIDE DEF pruned, b
  <1>6. FilterOf(b, f) > 0 BY <1>0, <1>1, <1>5 DEF Sound, FilterOf, Keeps
  <1>7. /\ Cardinality(b.friends) \in Nat /\ Cardinality(w.next) \in Nat
        /\ Cardinality(b.friends) + Cardinality(w.next) < MaxFriends
    <2>1. Cardinality(b.friends) \in Nat BY <1>5, FriendsFinite DEF Sound
    <2>2. Cardinality(w.next) \in Nat BY <1>0, NodeAssumption, FS_Subset, FS_CardinalityType
    <2> QED BY <1>5, <2>1, <2>2 DEF Answered
  <1> DEFINE a == AddFriend(b, f)
             t == Unprotect(a, f)
  <1>8. /\ Sound(n, a) /\ a.protected = b.protected
        /\ Cardinality(a.friends) <= Cardinality(b.friends) + 1
    <2>1. Cardinality(b.friends) < MaxFriends BY <1>7, SizeAssumption
    <2> QED BY <1>0, <1>5, <1>6, <2>1, AddFriendKeeps
  <1>9. NextTarget(n, t, w.next, live, pruned) BY <1>3
  <1>10. Sound(n, t) /\ t.friends = a.friends /\ Protected(t) = Protected(a) \ {f}
    <2> HIDE DEF a
    <2> QED BY <1>0, <1>8, UnprotectKeeps
  <1> HIDE DEF t, a
  <1>11. Protected(t) = w.next
    <2>1. Protected(a) = Protected(s) BY <1>5, <1>8 DEF Protected, Keeps
    <2> QED BY <1>10, <2>1 DEF Answered
  <1>12. Cardinality(t.friends) + Cardinality(w.next) <= MaxFriends
    <2>1. Cardinality(t.friends) \in Nat BY <1>10, FriendsFinite DEF Sound
    <2>2. Cardinality(t.friends) = Cardinality(a.friends) BY <1>10
    <2> QED BY <1>7, <1>8, <2>1, <2>2, SizeAssumption
  <1>13. Asked(n, t, w.next, live) BY <1>0, <1>10, <1>11, <1>12 DEF Asked, Answered
  <1> QED BY <1>4, <1>9, <1>13, NextTargetEnds

LEMMA ReceiveAddFriendReplyKeeps ==
  ASSUME IInv, NEW m \in msgs, ReceiveAddFriendReply(m)
  PROVE  IInv'
  <1> DEFINE n == m.dst
             net == msgs \ {m}
  <1>1. Running(n) /\ UNCHANGED fans /\ Quiet /\ m.kind \in {"ok", "deny", "changed"}
    BY DEF ReceiveAddFriendReply
  <1>2. n \in Node BY MessageType
  <1>3. Begins(n) BY <1>1, <1>2, RunningBegins
  <1>4. PICK w \in Cancels(m), s \in Hear(n, audit[n], {}) :
          LET live == waits[n] \ {w}
          IN  \/ m.kind = "ok" /\ Accepted(n, s, w, live, net)
              \/ m.kind = "deny" /\ Denied(n, s, w, live, net)
              \/ m.kind = "changed" /\ RetryAudit(n, s, w, live, net)
    BY DEF ReceiveAddFriendReply
  <1>5. w \in waits[n] /\ m.timer = w.timer BY DEF Cancels
  <1>6. w.kind = "add"
    <2>1. w \in Wait BY <1>3, <1>5, TimerTaken
    <2>2. w.kind \notin {"audit", "bloom", "ping"}
      BY <1>1, <1>3, <1>5 DEF Begins, NetOf, Matched, Kinds
    <2> QED BY <2>1, <2>2 DEF Wait, Kinds
  <1> HIDE DEF n
  <1> DEFINE live == waits[n] \ {w}
  <1>7. Sound(n, s) /\ Keeps(audit[n], s) BY <1>2, <1>3, <1>4, HearKeeps DEF Begins
  <1>8. Answered(n, s, w, live) BY <1>2, <1>3, <1>5, <1>6, <1>7, IsAnswered
  <1>9. NetOf(n, live, net)
    <2>1. NetOf(n, live, msgs) BY <1>3, <1>5, TimerTaken
    <2>2. live \in SUBSET live /\ net \in SUBSET msgs OBVIOUS
    <2> QED BY <1>2, <2>1, <2>2, NetLess
  <1>10. \/ Accepted(n, s, w, live, net) \/ Denied(n, s, w, live, net)
         \/ RetryAudit(n, s, w, live, net)
    BY <1>4
  <1> HIDE DEF live, net
  <1>11. EndsWell(n, virgin[n])
    <2>1. virgin[n] \in BOOLEAN BY <1>3 DEF Begins
    <2>2. CASE Accepted(n, s, w, live, net) BY <1>2, <1>8, <1>9, <2>1, <2>2, AcceptedEnds
    <2>3. CASE Denied(n, s, w, live, net)
      <3>1. NextTarget(n, Unprotect(s, w.neighbor), w.next, live, net) BY <1>8, <2>3 DEF Denied, Answered
      <3> QED BY <1>2, <1>8, <1>9, <2>1, <3>1, DeniedEnds
    <2>4. CASE RetryAudit(n, s, w, live, net)
      <3>1. SendBloomReq(n, s, w.neighbor, "audit", live, net) BY <1>8, <2>4 DEF RetryAudit, Answered
      <3>2. w.neighbor \in Node /\ live \in SUBSET Wait BY <1>8 DEF Answered, Wait
      <3> QED BY <1>8, <1>9, <2>1, <3>1, <3>2, AskForFilterEnds DEF Answered
    <2> QED BY <1>10, <2>2, <2>3, <2>4
  <1> QED BY <1>1, <1>2, <1>11, FansStay, HandlerKeeps

LEMMA AddFriendTimeoutKeeps ==
  ASSUME IInv, NEW n \in Node, NEW w \in waits[n], AddFriendTimeout(n, w)
  PROVE  IInv'
  <1> DEFINE live == waits[n] \ {w}
             gone == w.neighbor \notin audit[n].friends
             s == IF gone THEN audit[n] ELSE DropFriend(audit[n], w.neighbor)
             net == IF gone THEN msgs ELSE msgs \cup {RemoveFriend(n, w.neighbor)}
  <1>1. Running(n) /\ UNCHANGED fans /\ Quiet /\ w.kind = "add" BY DEF AddFriendTimeout
  <1>2. Begins(n) BY <1>1, RunningBegins
  <1>3. \/ NextTarget(n, Unprotect(s, w.neighbor), w.next, live, net)
        \/ w.neighbor \notin Protected(s)
    BY DEF AddFriendTimeout
  <1>4. NetOf(n, live, msgs) /\ w.neighbor \in Node BY <1>2, TimerTaken DEF Wait
  <1>5. Sound(n, s) /\ Keeps(audit[n], s)
    <2>1. Keeps(audit[n], audit[n]) BY DEF Keeps
    <2> QED BY <1>2, <1>4, <2>1, DropKeeps DEF Begins
  <1>6. NetOf(n, live, net) BY <1>4, NetRemoveOne
  <1> HIDE DEF s, net
  <1>7. Answered(n, s, w, live) BY <1>1, <1>2, <1>5, IsAnswered
  <1>8. NextTarget(n, Unprotect(s, w.neighbor), w.next, live, net) BY <1>3, <1>7 DEF Answered
  <1> HIDE DEF live
  <1>9. EndsWell(n, virgin[n]) BY <1>2, <1>6, <1>7, <1>8, DeniedEnds DEF Begins
  <1> QED BY <1>1, <1>9, FansStay, HandlerKeeps

LEMMA SendPingKeeps ==
  ASSUME IInv, NEW n \in Node, NEW f \in audit[n].friends, SendPing(n, f)
  PROVE  IInv'
  <1>1. Running(n) /\ UNCHANGED fans /\ Quiet BY DEF SendPing
  <1>2. Begins(n) BY <1>1, RunningBegins
  <1>3. f \in Node BY <1>2 DEF Begins, Sound, AuditState
  <1>4. version[n] \in 0..MaxVersion BY BoundAssumption DEF IInv, TypeOK
  <1>5. SendRequest(n, audit[n], "ping", f, NoNode, {}, version[n], waits[n], msgs) BY DEF SendPing
  <1>6. EndsWell(n, virgin[n]) BY <1>2, <1>3, <1>4, <1>5, PlainRequestEnds DEF Begins
  <1> QED BY <1>1, <1>6, FansStay, HandlerKeeps

LEMMA KeepAliveExpiresKeeps ==
  ASSUME IInv, NEW n \in Node, NEW f \in audit[n].friends, KeepAliveExpires(n, f)
  PROVE  IInv'
  <1>1. Running(n) /\ UNCHANGED fans /\ Quiet BY DEF KeepAliveExpires
  <1>2. Begins(n) BY <1>1, RunningBegins
  <1>3. f \in Node BY <1>2 DEF Begins, Sound, AuditState
  <1>4. PeerHasFailed(n, audit[n], f, waits[n], msgs) BY DEF KeepAliveExpires
  <1>5. EndsWell(n, virgin[n]) BY <1>2, <1>3, <1>4, PeerHasFailedEnds DEF Begins
  <1> QED BY <1>1, <1>5, FansStay, HandlerKeeps

LEMMA ReceivePingReqKeeps ==
  ASSUME IInv, NEW m \in msgs, ReceivePingReq(m)
  PROVE  IInv'
  <1> DEFINE n == m.dst
             net == IF m.src \in fans[n] THEN (msgs \ {m}) \cup {ReplyTo(m, "pong", version[n])}
                    ELSE msgs \ {m}
  <1>1. Running(n) /\ UNCHANGED fans /\ Quiet /\ m.kind = "ping" BY DEF ReceivePingReq
  <1>2. m.src \in Node /\ n \in Node /\ m \in Request BY <1>1, MessageType DEF Kinds
  <1>3. Begins(n) BY <1>1, <1>2, RunningBegins
  <1>4. PICK s \in Hear(n, audit[n], {m.src}) : FetchIfNewer(n, s, m, waits[n], net)
    BY DEF ReceivePingReq
  <1>5. version[n] \in 0..MaxVersion BY <1>2, BoundAssumption DEF IInv, TypeOK
  <1>6. NetOf(n, waits[n], net)
    <2>1. CASE m.src \in fans[n]
      <3>1. NetOf(n, waits[n], (msgs \ {m}) \cup {ReplyTo(m, "pong", version[n])})
        <4> HIDE DEF n
        <4> QED BY <1>1, <1>2, <1>3, <1>5, NetReply DEF Begins
      <3> QED BY <2>1, <3>1
    <2>2. CASE m.src \notin fans[n]
      <3>1. waits[n] \in SUBSET waits[n] /\ msgs \ {m} \in SUBSET msgs OBVIOUS
      <3>2. NetOf(n, waits[n], msgs \ {m})
        <4> HIDE DEF n
        <4> QED BY <1>2, <1>3, <3>1, NetLess DEF Begins
      <3> QED BY <2>2, <3>2
    <2> QED BY <2>1, <2>2
  <1> HIDE DEF n, net
  <1>7. Sound(n, s) /\ Keeps(audit[n], s)
    <2>1. {m.src} \in SUBSET Node BY <1>2
    <2> QED BY <1>2, <1>3, <1>4, <2>1, HearKeeps DEF Begins
  <1>8. Tied(n, virgin[n], s, waits[n]) BY <1>3, <1>7, TiedKeeps DEF Begins
  <1>9. EndsWell(n, virgin[n]) BY <1>2, <1>3, <1>4, <1>6, <1>7, <1>8, FetchIfNewerEnds DEF Begins
  <1> QED BY <1>1, <1>2, <1>9, FansStay, HandlerKeeps

LEMMA ReceivePingReplyKeeps ==
  ASSUME IInv, NEW m \in msgs, ReceivePingReply(m)
  PROVE  IInv'
  <1> DEFINE n == m.dst
             net == msgs \ {m}
  <1>1. Running(n) /\ UNCHANGED fans /\ Quiet /\ m.kind = "pong" BY DEF ReceivePingReply
  <1>2. m.src \in Node /\ n \in Node BY MessageType
  <1>3. Begins(n) BY <1>1, <1>2, RunningBegins
  <1>4. PICK w \in Cancels(m), s \in Hear(n, audit[n], {m.src}) :
          FetchIfNewer(n, s, m, waits[n] \ {w}, net)
    BY DEF ReceivePingReply
  <1>5. w \in waits[n] /\ m.timer = w.timer BY DEF Cancels
  <1>6. w.kind = "ping" BY <1>1, <1>3, <1>5 DEF Begins, NetOf, Matched, Kinds
  <1> HIDE DEF n
  <1> DEFINE live == waits[n] \ {w}
  <1>7. Tied(n, virgin[n], audit[n], live) /\ NetOf(n, live, msgs)
    BY <1>3, <1>5, <1>6, TimerTaken DEF AuditKinds
  <1>8. NetOf(n, live, net)
    <2>1. live \in SUBSET live /\ net \in SUBSET msgs OBVIOUS
    <2> QED BY <1>2, <1>7, <2>1, NetLess
  <1>9. FetchIfNewer(n, s, m, live, net) BY <1>4
  <1> HIDE DEF net, live
  <1>10. Sound(n, s) /\ Keeps(audit[n], s)
    <2>1. {m.src} \in SUBSET Node BY <1>2
    <2> QED BY <1>2, <1>3, <1>4, <2>1, HearKeeps DEF Begins
  <1>11. Tied(n, virgin[n], s, live) BY <1>3, <1>7, <1>10, TiedKeeps DEF Begins
  <1>12. EndsWell(n, virgin[n]) BY <1>2, <1>3, <1>8, <1>9, <1>10, <1>11, FetchIfNewerEnds DEF Begins
  <1> QED BY <1>1, <1>2, <1>12, FansStay, HandlerKeeps

LEMMA PingTimeoutKeeps ==
  ASSUME IInv, NEW n \in Node, NEW w \in waits[n], PingTimeout(n, w)
  PROVE  IInv'
  <1> DEFINE live == waits[n] \ {w}
  <1>1. Running(n) /\ UNCHANGED fans /\ Quiet /\ w.kind = "ping" BY DEF PingTimeout
  <1>2. Begins(n) BY <1>1, RunningBegins
  <1>3. Tied(n, virgin[n], audit[n], live) /\ NetOf(n, live, msgs) /\ w.neighbor \in Node
    BY <1>1, <1>2, TimerTaken DEF AuditKinds, Wait
  <1>4. PeerHasFailed(n, audit[n], w.neighbor, live, msgs) BY DEF PingTimeout
  <1> HIDE DEF live
  <1>5. EndsWell(n, virgin[n]) BY <1>2, <1>3, <1>4, PeerHasFailedEnds DEF Begins
  <1> QED BY <1>1, <1>5, FansStay, HandlerKeeps

LEMMA TakeOfflineKeeps ==
  ASSUME IInv, NEW n \in Node, TakeOffline(n)
  PROVE  IInv'
  <1>0. TypeOK BY DEF IInv
  <1>1. UNCHANGED <<broken, version, fans, audit, msgs>> BY DEF TakeOffline
  <1>2. /\ online' \in [Node -> BOOLEAN] /\ ~online'[n]
        /\ \A k \in Node \ {n} : online'[k] = online[k]
    BY <1>0 DEF TypeOK, TakeOffline
  <1>3. /\ virgin' \in [Node -> BOOLEAN] /\ ~virgin'[n]
        /\ \A k \in Node \ {n} : virgin'[k] = virgin[k]
    BY <1>0 DEF TypeOK, TakeOffline
  <1>4. /\ waits' \in [Node -> SUBSET Wait] /\ waits'[n] = {}
        /\ \A k \in Node \ {n} : waits'[k] = waits[k]
    BY <1>0 DEF TypeOK, TakeOffline
  <1>5. TypeOK' BY <1>0, <1>1, <1>2, <1>3, <1>4 DEF TypeOK
  <1>6. \A k \in Node : Matched(k, waits'[k], msgs') BY <1>1, <1>4 DEF IInv, Matched
  <1>7. \A k \in Node : ~online'[k] => waits'[k] = {} /\ ~virgin'[k] BY <1>2, <1>3, <1>4 DEF IInv
  <1>8. \A k \in Node : Running(k)' => Tied(k, virgin'[k], audit'[k], waits'[k])
    BY <1>1, <1>2, <1>3, <1>4 DEF IInv, Running
  <1> QED BY <1>1, <1>5, <1>6, <1>7, <1>8 DEF IInv, AssertionsHold, Protected

LEMMA BringOnlineKeeps ==
  ASSUME IInv, NEW n \in Node, BringOnline(n)
  PROVE  IInv'
  <1> DEFINE fresh == ProtectingNobody(audit[n])
             old == fresh.friends
             net == msgs \cup {RemoveFriend(n, f) : f \in old}
  <1>0. TypeOK /\ Sound(n, audit[n]) /\ audit[n] \in AuditState BY DEF IInv, Sound
  <1>1. /\ ~online[n] /\ broken[n] = "none" /\ online' = [online EXCEPT ![n] = TRUE]
        /\ fans' = [fans EXCEPT ![n] = {}] /\ virgin' = virgin /\ version' = version
    BY DEF BringOnline
  <1>2. waits[n] = {} /\ virgin[n] = FALSE BY <1>0, <1>1 DEF IInv, TypeOK
  <1>3. /\ Sound(n, fresh) /\ old = audit[n].friends /\ fresh.protected = Nobody
        /\ \A f \in old : f \in Node \ {n} /\ fresh.filter[f] > 0
    <2>1. Nobody \in [Node -> 0..MaxVersion] /\ \A k \in Node : Nobody[k] = 0
      BY BoundAssumption DEF Nobody
    <2> QED BY <1>0, <2>1 DEF ProtectingNobody, Sound, AuditState
  <1>4. Protected(fresh) = {} BY <1>3 DEF Protected, Nobody
  <1>5. NetOf(n, {}, msgs)
    BY <1>2 DEF IInv, NetOf
  <1>6. old \in SUBSET Node BY <1>3
  <1>7. NetOf(n, {}, net) BY <1>5, <1>6, NetRemove
  <1>8. FansFit
    <2>1. Cardinality({}) <= MaxFans BY FS_EmptySet, SizeAssumption
    <2> QED BY <1>0, <1>1, <2>1 DEF TypeOK, FansFit
  <1>9. \/ Continue(n, fresh, {}, msgs)
        \/ \E f \in old : FilterOf(fresh, f) = 0
        \/ \E f \in old : SendFriendReq(n, WithoutFriends([Protect(fresh, old) EXCEPT !.auditing = f]),
                                        f, NoNode, old \ {f}, {}, net)
    BY <1>2 DEF BringOnline
  <1> HIDE DEF fresh, net
  <1>10. EndsWell(n, FALSE)
    <2>1. CASE Continue(n, fresh, {}, msgs)
      <3>1. Tied(n, FALSE, fresh, {})
        <4>1. AuditsIn({}) = {} /\ {} \in SUBSET Wait BY DEF AuditsIn
        <4> QED BY <1>4, <4>1, NoTimers
      <3> QED BY <1>3, <1>5, <2>1, <3>1, ContinueEnds
    <2>2. \A f \in old : FilterOf(fresh, f) > 0 BY <1>3 DEF FilterOf
    <2>3. ASSUME NEW f \in old,
                 SendFriendReq(n, WithoutFriends([Protect(fresh, old) EXCEPT !.auditing = f]),
                               f, NoNode, old \ {f}, {}, net)
          PROVE  EndsWell(n, FALSE)
      <3> DEFINE p == Protect(fresh, old)
                 q == [p EXCEPT !.auditing = f]
                 u == WithoutFriends(q)
      <3>1. /\ Sound(n, p) /\ p.friends = old /\ p.candidates = fresh.candidates
            /\ p.filter = fresh.filter
            /\ \A m \in Node : p.protected[m] = IF m \in old THEN FilterOf(fresh, m) ELSE fresh.protected[m]
        BY <1>3, <1>6, ProtectKeeps
      <3>2. f \in Node \ {n} BY <1>3, <2>3
      <3> HIDE DEF p
      <3>3. /\ Sound(n, q) /\ q.friends = old /\ q.candidates = fresh.candidates
            /\ q.filter = fresh.filter /\ q.protected = p.protected /\ q.auditing = f
        BY <3>1, <3>2, AuditingKeeps
      <3> HIDE DEF q
      <3>4. q \in AuditState BY <3>3 DEF Sound
      <3>5. /\ u.friends = {} /\ u.candidates = q.candidates /\ u.auditing = f /\ u.protected = q.protected
            /\ u.filter = [m \in Node |-> IF m \in q.candidates THEN q.filter[m] ELSE 0]
        BY <3>3, <3>4 DEF WithoutFriends, AuditState
      <3>6. u.filter \in [Node -> 0..MaxVersion] BY <3>4, <3>5, BoundAssumption DEF AuditState
      <3>7. u \in AuditState BY <3>4, <3>5, <3>6 DEF WithoutFriends, AuditState
      <3> HIDE DEF u
      <3>8. \A m \in u.friends \cup u.candidates : u.protected[m] > 0 => u.filter[m] > 0
        BY <3>3, <3>4, <3>5 DEF Sound, AuditState
      <3>9. Cardinality(u.friends) = 0 BY <3>5, FS_EmptySet
      <3>10. Sound(n, u) BY <3>3, <3>5, <3>7, <3>8, <3>9, SizeAssumption DEF Sound
      <3>11. \A m \in Node : fresh.protected[m] = 0 BY <1>3 DEF Nobody
      <3>12. Protected(u) = {f} \cup (old \ {f})
        <4>1. \A m \in Node : u.protected[m] = IF m \in old THEN FilterOf(fresh, m) ELSE 0
          BY <3>1, <3>3, <3>5, <3>11
        <4> HIDE DEF old
        <4>2. \A m \in Node : u.protected[m] > 0 <=> m \in old BY <2>2, <4>1
        <4> QED BY <1>6, <2>3, <4>2 DEF Protected
      <3>13. FilterOf(u, f) > 0 BY <3>2, <3>10, <3>12 DEF Sound, FilterOf, Protected
      <3>14. Cardinality(u.friends \ {NoNode}) + Cardinality(old \ {f}) < MaxFriends
        <4>1. u.friends \ {NoNode} = {} BY <3>5
        <4>2. IsFiniteSet(old) /\ Cardinality(old) \in Nat /\ Cardinality(old) <= MaxFriends
          BY <1>3, FriendsFinite DEF Sound
        <4> HIDE DEF old
        <4>3. Cardinality(old \ {f}) = Cardinality(old) - 1 BY <2>3, <4>2, FS_RemoveElement
        <4>4. Cardinality(u.friends \ {NoNode}) = 0 BY <4>1, FS_EmptySet
        <4> QED BY <4>2, <4>3, <4>4, SizeAssumption
      <3>15. n \in Auditors BY <1>3, <2>3 DEF Sound
      <3>16. AuditsIn({}) = {} /\ {} \subseteq Wait BY DEF AuditsIn
      <3>17. MayAsk(n, u, f, NoNode, old \ {f}, {})
        BY <1>6, <3>2, <3>5, <3>10, <3>12, <3>13, <3>14, <3>15, <3>16 DEF MayAsk
      <3>18. SendFriendReq(n, u, f, NoNode, old \ {f}, {}, net) BY <2>3 DEF u, q, p
      <3> QED BY <1>7, <3>17, <3>18, SendFriendReqEnds
    <2>4. ~ \E f \in old : FilterOf(fresh, f) = 0 BY <2>2
    <2> QED BY <1>9, <2>1, <2>3, <2>4
  <1> QED BY <1>1, <1>2, <1>8, <1>10, StepKeeps

\* A message goes that nothing happens with.
LEMMA GoneKeeps ==
  ASSUME IInv, NEW m \in msgs, LateReply(m) \/ Lose(m)
  PROVE  IInv'
  <1>1. msgs' = msgs \ {m} /\ UNCHANGED <<online, virgin, broken, version, fans, audit, waits>>
    BY DEF LateReply, Lose
  <1>2. TypeOK' BY <1>1 DEF IInv, TypeOK
  <1>3. Net(msgs') /\ \A n \in Node : Matched(n, waits'[n], msgs') BY <1>1 DEF IInv, Net, Matched
  <1> QED BY <1>1, <1>2, <1>3 DEF IInv, AssertionsHold, Running, Protected

-----------------------------------------------------------------------------

LEMMA InitIInv == Init => IInv
  <1> SUFFICES ASSUME Init PROVE IInv OBVIOUS
  <1> DEFINE s == [friends |-> {}, candidates |-> {}, filter |-> Nobody,
                   auditing |-> NoNode, protected |-> Nobody]
  <1>1. Nobody \in [Node -> 0..MaxVersion] /\ \A k \in Node : Nobody[k] = 0
    BY BoundAssumption DEF Nobody
  <1>2. s \in AuditState BY <1>1 DEF AuditState
  <1>3. \A n \in Node : audit[n] = s /\ waits[n] = {} BY DEF Init
  <1>4. Cardinality({}) = 0 BY FS_EmptySet
  <1>5. TypeOK BY <1>2, <1>4, BoundAssumption, SizeAssumption DEF Init, TypeOK
  <1>6. \A n \in Node : Sound(n, s)
    BY <1>1, <1>2, <1>4, NodeAssumption, SizeAssumption DEF Sound
  <1>7. Net(msgs) /\ AssertionsHold /\ \A n \in Node : Matched(n, waits[n], msgs)
    BY DEF Init, Net, AssertionsHold, Matched
  <1>8. ASSUME NEW n \in Node PROVE Tied(n, virgin[n], s, {})
    <2>1. Protected(s) = {} BY <1>1 DEF Protected
    <2>2. AuditsIn({}) = {} /\ {} \in SUBSET Wait /\ virgin[n] \in BOOLEAN /\ s.auditing = NoNode
      BY DEF AuditsIn, Init
    <2> HIDE DEF s
    <2> QED BY <2>1, <2>2, NoTimers
  <1>9. \A n \in Node : online[n] BY DEF Init
  <1> QED BY <1>3, <1>5, <1>6, <1>7, <1>8, <1>9 DEF IInv

LEMMA NextIInv == IInv /\ [Next]_vars => IInv'
  <1> SUFFICES ASSUME IInv, [Next]_vars PROVE IInv' OBVIOUS
  <1>1. CASE UNCHANGED vars
    BY <1>1 DEF vars, IInv, TypeOK, AssertionsHold, Running, Protected
  <1>2. ASSUME NEW m \in msgs, Receive(m) \/ Lose(m) PROVE IInv'
    BY <1>2, ReceiveBloomReqKeeps, ReceiveBloomReplyKeeps, ReceiveAddFriendReqKeeps,
       ReceiveAddFriendReplyKeeps, ReceiveRemoveFriendKeeps, ReceivePingReqKeeps,
       ReceivePingReplyKeeps, GoneKeeps DEF Receive
  <1>3. ASSUME NEW n \in Node, NEW m \in Node \ {n}, MeetCandidate(n, m) PROVE IInv'
    BY <1>3, MeetCandidateKeeps
  <1>4. ASSUME NEW n \in Node, NEW z \in Stranger, StrangerAsks(n, z) PROVE IInv'
    BY <1>4, StrangerAsksKeeps
  <1>5. ASSUME NEW n \in Node, NEW f \in audit[n].friends, SendPing(n, f) \/ KeepAliveExpires(n, f)
        PROVE IInv'
    BY <1>5, SendPingKeeps, KeepAliveExpiresKeeps
  <1>6. ASSUME NEW n \in Node, NEW w \in waits[n], TimerFires(n, w) PROVE IInv'
    BY <1>6, BloomTimeoutKeeps, AddFriendTimeoutKeeps, PingTimeoutKeeps DEF TimerFires
  <1>7. ASSUME NEW n \in Node, PeriodicAudit(n) \/ AddFeed(n) \/ TakeOffline(n) \/ BringOnline(n)
        PROVE IInv'
    BY <1>7, PeriodicAuditKeeps, AddFeedKeeps, TakeOfflineKeeps, BringOnlineKeeps
  <1> QED BY <1>1, <1>2, <1>3, <1>4, <1>5, <1>6, <1>7 DEF Next

\* The inductive invariant of the friend protocol.
THEOREM Invariance == Spec => []IInv
  BY InitIInv, NextIInv, PTL DEF Spec

\* Every variable has its type, and no node has more than rappel_num_fans fans,
\* whoever asks and whenever fans are purged (receive_add_friend_req).
THEOREM TypeCorrect == Spec => []TypeOK
  <1>1. IInv => TypeOK BY DEF IInv
  <1> QED BY <1>1, Invariance, PTL

\* Late answers, losses and timers never let a second audit start at a node.
THEOREM AuditsAreUnique == Spec => []OneAudit
  <1>1. IInv => OneAudit
    <2> SUFFICES ASSUME IInv, NEW n \in Node, Running(n), NEW w \in AuditWaits(n)
                 PROVE  audit[n].auditing = w.neighbor /\ AuditWaits(n) = {w}
      BY DEF OneAudit
    <2>1. AuditWaits(n) = AuditsIn(waits[n]) BY DEF AuditWaits, AuditsIn, AuditKinds
    <2>2. Tied(n, virgin[n], audit[n], waits[n]) BY DEF IInv
    <2> QED BY <2>1, <2>2 DEF Tied
  <1> QED BY <1>1, Invariance, PTL

\* An audit that is under way will be ended by a timer, until the node first goes offline.
THEOREM AuditsEndByTimer == Spec => []AuditInProgress
  <1>1. IInv => AuditInProgress
    <2> SUFFICES ASSUME IInv, NEW n \in Node, Running(n), virgin[n], audit[n].auditing # NoNode
                 PROVE  AuditWaits(n) # {}
      BY DEF AuditInProgress
    <2>1. AuditWaits(n) = AuditsIn(waits[n]) BY DEF AuditWaits, AuditsIn, AuditKinds
    <2>2. Tied(n, virgin[n], audit[n], waits[n]) BY DEF IInv
    <2> QED BY <2>1, <2>2 DEF Tied
  <1> QED BY <1>1, Invariance, PTL

\* While a request to become a friend is out, the protected candidates are the one
\* that is asked and those that remain to be asked.
THEOREM ProtectionIsExact == Spec => []ProtectedWhileAsked
  <1>1. IInv => ProtectedWhileAsked BY DEF IInv, Tied, ProtectedWhileAsked
  <1> QED BY <1>1, Invariance, PTL

\* There are never more than rappel_num_friends friends, and always room for every
\* node that may still accept.
THEOREM RoomForFriends == Spec => []FriendsBounded
  <1>1. IInv => FriendsBounded BY DEF IInv, Sound, Tied, FriendsBounded
  <1> QED BY <1>1, Invariance, PTL

\* Only the two assertions about protected candidates can fail, and only when the
\* candidate that is audited is itself still protected, as the retry of an audit
\* leaves it; the others of the friend protocol hold.
THEOREM OtherAssertionsHold == Spec => []AssertionsHold
  <1>1. IInv => AssertionsHold BY DEF IInv
  <1> QED BY <1>1, Invariance, PTL

=============================================================================
