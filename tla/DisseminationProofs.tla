------------------------- MODULE DisseminationProofs -------------------------
(***************************************************************************)
(* Theorems about Dissemination for any set of nodes, any UpdatesCache and *)
(* any number of updates and messages.                                     *)
(*                                                                         *)
(* The invariant that carries them is IInv.  WindowCached is what lets a   *)
(* node ask for, and answer, no more than the last UpdatesCache updates;   *)
(* it is inductive only together with NextIsMissing and with the claims    *)
(* that messages in flight make about their senders (Backed).              *)
(***************************************************************************)
EXTENDS Dissemination, TLAPS

(* What a message in flight says of its sender stays true: a sender keeps   *)
(* the window it announced and the update it pushed or was asked for.       *)
Backed ==
  \A m \in msgs :
    /\ m.kind = "announce" => Window(m.seq) \subseteq cache[m.src]
    /\ m.kind = "update" => m.seq \in cache[m.src]

CacheKnown == \A n \in Node : cache[n] \subseteq 1..highest[n]

IInv ==
  /\ TypeOK
  /\ WindowCached
  /\ NextIsMissing
  /\ PullAnswerable
  /\ PullTimerTracked
  /\ OneFetchPerUpdate
  /\ PublisherIsSource
  /\ Backed
  /\ CacheKnown

USE PublisherAssumption, UpdatesCacheAssumption, MaxSeqAssumption

(* A longer run of cached updates keeps the window: if l's window and       *)
(* everything from l up to e is there, e's window is there.                 *)
LEMMA WindowAdvances ==
  ASSUME NEW c, NEW l \in Nat, NEW e \in Nat, l <= e,
         Window(l) \subseteq c, (l + 1)..e \subseteq c
  PROVE  Window(e) \subseteq c
<1>. SUFFICES ASSUME NEW u \in Window(e)
              PROVE  u \in c
  OBVIOUS
<1>1. u \in Int /\ WindowStart(e) <= u /\ u <= e
  BY DEF Window, WindowStart
<1>2. CASE u <= l
  <2>1. WindowStart(l) <= u
    BY <1>1, <1>2 DEF WindowStart
  <2>. QED  BY <1>1, <1>2, <2>1 DEF Window, WindowStart
<1>3. CASE u > l
  BY <1>1, <1>3
<1>. QED  BY <1>1, <1>2, <1>3

(* A window starts at 1 or later.                                           *)
LEMMA WindowInSeqs ==
  ASSUME NEW s \in Nat
  PROVE  Window(s) \subseteq 1..s
BY DEF Window, WindowStart

(* What Feed::add_entry does to a consistent feed: the update is there,     *)
(* the feed's other claims survive, and nothing goes back.                  *)
LEMMA AddEntryEffect ==
  ASSUME TypeOK, WindowCached, NextIsMissing, CacheKnown,
         NEW n \in Node, NEW s \in Seqs, AddEntry(n, s)
  PROVE  /\ cache' = [cache EXCEPT ![n] = @ \cup {s}]
         /\ missing' = [missing EXCEPT ![n] = missing'[n]]
         /\ missing'[n] \in SUBSET missing[n]
         /\ s \notin cache[n] => missing'[n] = {p \in missing[n] : p[1] # s}
         /\ s \in cache[n] => missing'[n] = missing[n]
         /\ highest' = [highest EXCEPT ![n] = highest'[n]]
         /\ highest'[n] \in 0..MaxSeq
         /\ highest[n] <= highest'[n] /\ s <= highest'[n]
         /\ highest'[n] = s \/ highest'[n] = highest[n]
         /\ latest' = [latest EXCEPT ![n] = latest'[n]]
         /\ latest'[n] \in 0..MaxSeq
         /\ latest[n] <= latest'[n] /\ latest'[n] <= highest'[n]
         /\ latest'[n] + 1 \notin cache'[n]
         /\ Window(latest'[n]) \subseteq cache'[n]
         /\ s \in cache[n] => latest'[n] = latest[n]
<1>. DEFINE c == cache[n] \cup {s}
<1>0. /\ s \in 1..MaxSeq /\ c \subseteq 1..MaxSeq
      /\ latest[n] \in 0..MaxSeq /\ highest[n] \in 0..MaxSeq /\ latest[n] <= highest[n]
      /\ cache[n] \subseteq 1..highest[n]
  BY DEF TypeOK, CacheKnown, Seqs
<1>1. CASE s \in cache[n]
  <2>1. UNCHANGED feedVars
    BY <1>1 DEF AddEntry
  <2>2. cache[n] \cup {s} = cache[n]
    BY <1>1
  <2>3. s <= highest[n]
    BY <1>0, <1>1
  <2>. QED
    BY <1>0, <1>1, <2>1, <2>2, <2>3 DEF feedVars, TypeOK, WindowCached, NextIsMissing
<1>2. CASE s \notin cache[n]
  <2>. DEFINE b == AfterWindow(latest[n], s, c)
  <2>1. PICK e \in 0..MaxSeq :
          /\ ContiguousEnd(AfterSpecialCase(b, s, c), c, e)
          /\ latest' = [latest EXCEPT ![n] = e]
    BY <1>2 DEF AddEntry
  <2>2. /\ cache' = [cache EXCEPT ![n] = @ \cup {s}]
        /\ missing' = [missing EXCEPT ![n] = {p \in @ : p[1] # s}]
        /\ highest' = [highest EXCEPT ![n] = IF s > @ THEN s ELSE @]
    BY <1>2 DEF AddEntry
  <2>3. AfterSpecialCase(b, s, c) = b
    BY <1>0 DEF AfterSpecialCase, EarliestContiguous
  <2>4. b \in 0..MaxSeq /\ latest[n] <= b /\ b \in {latest[n], s} /\ Window(b) \subseteq c
    BY <1>0 DEF AfterWindow, WindowCached
  <2>5. b <= e /\ (b + 1)..e \subseteq c /\ e + 1 \notin c
    BY <2>1, <2>3 DEF ContiguousEnd
  <2>6. Window(e) \subseteq c
    <3>1. b \in Nat /\ e \in Nat
      BY <2>4
    <3>. HIDE DEF b, c
    <3>. QED  BY <2>4, <2>5, <3>1, WindowAdvances
  <2>7. /\ cache'[n] = c
        /\ missing'[n] = {p \in missing[n] : p[1] # s}
        /\ highest'[n] = (IF s > highest[n] THEN s ELSE highest[n])
        /\ latest'[n] = e
    BY <2>1, <2>2 DEF TypeOK
  <2>8. e \in c \/ e = b
    BY <2>4, <2>5
  <2>9. e <= highest'[n] /\ s <= highest'[n] /\ highest[n] <= highest'[n]
    BY <1>0, <2>4, <2>7, <2>8
  <2>. QED
    BY <1>0, <1>2, <2>1, <2>2, <2>4, <2>5, <2>6, <2>7, <2>9 DEF TypeOK
<1>. QED  BY <1>1, <1>2

-----------------------------------------------------------------------------
(***************************************************************************)
(* Every step preserves IInv: one lemma per action that moves more than a  *)
(* message or a timer.                                                     *)
(***************************************************************************)

(* The part of IInv about the feed at its nodes, after add_entry of an      *)
(* update that the publisher has published (perhaps in this very step).     *)
LEMMA AddEntryPreserves ==
  ASSUME IInv, NEW n \in Node, NEW s \in Seqs, AddEntry(n, s),
         \/ s <= latest[Publisher] /\ n # Publisher
         \/ s \in cache[n]
         \/ s = latest[Publisher] + 1 /\ n = Publisher,
         UNCHANGED <<online, pulls>>, msgs' \subseteq Message
  PROVE  /\ TypeOK' /\ WindowCached' /\ NextIsMissing' /\ PullTimerTracked'
         /\ OneFetchPerUpdate' /\ CacheKnown'
         /\ cache'[Publisher] = 1..latest'[Publisher]
         /\ missing'[Publisher] = {}
         /\ \A k \in Node : highest'[k] <= latest'[Publisher]
         /\ \A k \in Node : cache[k] \subseteq cache'[k] /\ latest[k] <= latest'[k]
         /\ s \in cache'[n]
<1>. USE DEF IInv
<1>1. /\ cache' = [cache EXCEPT ![n] = @ \cup {s}]
      /\ missing' = [missing EXCEPT ![n] = missing'[n]]
      /\ missing'[n] \in SUBSET missing[n]
      /\ s \notin cache[n] => missing'[n] = {p \in missing[n] : p[1] # s}
      /\ s \in cache[n] => missing'[n] = missing[n]
      /\ highest' = [highest EXCEPT ![n] = highest'[n]]
      /\ highest'[n] \in 0..MaxSeq
      /\ highest[n] <= highest'[n] /\ s <= highest'[n]
      /\ highest'[n] = s \/ highest'[n] = highest[n]
      /\ latest' = [latest EXCEPT ![n] = latest'[n]]
      /\ latest'[n] \in 0..MaxSeq
      /\ latest[n] <= latest'[n] /\ latest'[n] <= highest'[n]
      /\ latest'[n] + 1 \notin cache'[n]
      /\ Window(latest'[n]) \subseteq cache'[n]
      /\ s \in cache[n] => latest'[n] = latest[n]
  BY AddEntryEffect
<1>2. cache'[n] = cache[n] \cup {s} /\ \A k \in Node \ {n} : cache'[k] = cache[k]
  BY <1>1 DEF TypeOK
<1>3. \A k \in Node \ {n} : missing'[k] = missing[k] /\ highest'[k] = highest[k] /\ latest'[k] = latest[k]
  BY <1>1 DEF TypeOK
<1>4. s \in 1..MaxSeq
  BY DEF Seqs
<1>5. TypeOK'
  <2>1. cache' \in [Node -> SUBSET Seqs]
    BY <1>1 DEF TypeOK
  <2>2. latest' \in [Node -> 0..MaxSeq] /\ highest' \in [Node -> 0..MaxSeq]
    BY <1>1 DEF TypeOK
  <2>3. missing' \in [Node -> SUBSET (Seqs \X Node)]
    BY <1>1 DEF TypeOK
  <2>4. \A k \in Node : latest'[k] <= highest'[k]
    BY <1>1, <1>3 DEF TypeOK
  <2>. QED  BY <2>1, <2>2, <2>3, <2>4 DEF TypeOK
<1>6. WindowCached' /\ NextIsMissing'
  <2>1. \A k \in Node : Window(latest'[k]) \subseteq cache'[k]
    BY <1>1, <1>2, <1>3 DEF WindowCached
  <2>2. \A k \in Node : latest'[k] + 1 \notin cache'[k]
    BY <1>1, <1>2, <1>3 DEF NextIsMissing
  <2>. QED  BY <2>1, <2>2 DEF WindowCached, NextIsMissing, Window, WindowStart
<1>7. PullTimerTracked'
  <2>. SUFFICES ASSUME NEW k \in Node, NEW p \in pulls[k]
                PROVE  p[1] \in cache'[k] \/ p \in missing'[k]
    BY DEF PullTimerTracked
  <2>1. p[1] \in cache[k] \/ p \in missing[k]
    BY DEF PullTimerTracked
  <2>. QED  BY <1>1, <1>2, <1>3, <2>1
<1>8. OneFetchPerUpdate'
  <2>1. \A k \in Node : missing'[k] \subseteq missing[k]
    BY <1>1, <1>3
  <2>2. \A k \in Node : \A p \in missing'[k] : p[1] \notin cache'[k]
    BY <1>1, <1>2, <1>3, <2>1 DEF OneFetchPerUpdate
  <2>. QED  BY <2>1, <2>2 DEF OneFetchPerUpdate
<1>9. CacheKnown'
  <2>. SUFFICES ASSUME NEW k \in Node, NEW u \in cache'[k]
                PROVE  u \in 1..highest'[k]
    BY DEF CacheKnown
  <2>1. u \in cache[k] => u \in 1..highest[k]
    BY DEF CacheKnown
  <2>. QED  BY <1>1, <1>2, <1>3, <1>4, <2>1 DEF TypeOK
<1>10. missing'[Publisher] = {}
  BY <1>1, <1>3 DEF PublisherIsSource
<1>11. latest[Publisher] \in Nat /\ highest[Publisher] <= latest[Publisher]
       /\ cache[Publisher] = 1..latest[Publisher]
  BY DEF TypeOK, PublisherIsSource
<1>12. /\ cache'[Publisher] = 1..latest'[Publisher]
       /\ \A k \in Node : highest'[k] <= latest'[Publisher]
  <2>1. CASE s = latest[Publisher] + 1 /\ n = Publisher
    <3>1. cache'[Publisher] = 1..s
      <4>1. cache'[Publisher] = (1..latest[Publisher]) \cup {s}
        BY <1>2, <1>11, <2>1
      <4>2. (1..latest[Publisher]) \cup {s} = 1..s
        BY <1>11, <2>1
      <4>. QED  BY <4>1, <4>2
    <3>2. highest'[Publisher] = s
      BY <1>1, <1>11, <2>1 DEF TypeOK
    <3>3. latest'[Publisher] \in Nat /\ latest'[Publisher] <= s
      BY <1>1, <2>1, <3>2
    <3>4. latest'[Publisher] + 1 \notin 1..s /\ latest[Publisher] <= latest'[Publisher]
      BY <1>1, <2>1, <3>1
    <3>5. latest'[Publisher] = s
      BY <1>4, <1>11, <2>1, <3>3, <3>4
    <3>6. \A k \in Node : highest[k] \in Nat /\ highest[k] <= latest[Publisher]
      BY DEF TypeOK, PublisherIsSource
    <3>. QED  BY <1>3, <1>4, <1>11, <2>1, <3>1, <3>2, <3>5, <3>6
  <2>2. CASE s \in cache[n]
    <3>1. latest'[Publisher] = latest[Publisher] /\ cache'[Publisher] = cache[Publisher]
      BY <1>1, <1>2, <1>3, <2>2
    <3>2. s <= highest[n]
      BY <1>4, <2>2 DEF CacheKnown
    <3>. QED  BY <1>1, <1>3, <1>11, <2>2, <3>1, <3>2 DEF TypeOK, PublisherIsSource
  <2>3. CASE s <= latest[Publisher] /\ n # Publisher
    BY <1>1, <1>2, <1>3, <1>11, <2>3 DEF PublisherIsSource
  <2>. QED  BY <2>1, <2>2, <2>3
<1>13. \A k \in Node : cache[k] \subseteq cache'[k] /\ latest[k] <= latest'[k]
  BY <1>1, <1>2, <1>3 DEF TypeOK
<1>. QED  BY <1>2, <1>5, <1>6, <1>7, <1>8, <1>9, <1>10, <1>12, <1>13

(* What Backed, PullAnswerable and the bound on messages need: caches and   *)
(* the publisher's latest only grow, and the new messages are backed.       *)
LEMMA MessagesStayBacked ==
  ASSUME IInv, TypeOK', msgs' \subseteq Message,
         \A k \in Node : cache[k] \subseteq cache'[k],
         latest[Publisher] <= latest'[Publisher],
         \A m \in msgs' \ msgs :
            /\ m.kind = "announce" => Window(m.seq) \subseteq cache'[m.src]
            /\ m.kind = "update" => m.seq \in cache'[m.src]
            /\ m.kind = "pull" => m.seq \in cache'[m.dst]
            /\ m.seq <= latest'[Publisher]
  PROVE  Backed' /\ PullAnswerable' /\ \A m \in msgs' : m.seq <= latest'[Publisher]
<1>. SUFFICES ASSUME NEW m \in msgs'
              PROVE  /\ m.kind = "announce" => Window(m.seq) \subseteq cache'[m.src]
                     /\ m.kind = "update" => m.seq \in cache'[m.src]
                     /\ m.kind = "pull" => m.seq \in cache'[m.dst]
                     /\ m.seq <= latest'[Publisher]
  BY DEF Backed, PullAnswerable, Window, WindowStart
<1>1. m.src \in Node /\ m.dst \in Node /\ m.seq \in 0..MaxSeq
  BY DEF Message
<1>2. CASE m \in msgs
  <2>1. /\ m.kind = "announce" => Window(m.seq) \subseteq cache[m.src]
        /\ m.kind = "update" => m.seq \in cache[m.src]
        /\ m.kind = "pull" => m.seq \in cache[m.dst]
        /\ m.seq <= latest[Publisher]
    BY <1>2 DEF IInv, Backed, PullAnswerable, PublisherIsSource
  <2>2. latest[Publisher] \in 0..MaxSeq /\ latest'[Publisher] \in 0..MaxSeq
    BY DEF IInv, TypeOK
  <2>. QED  BY <1>1, <2>1, <2>2
<1>3. CASE m \notin msgs
  BY <1>3
<1>. QED  BY <1>2, <1>3

(* What a node pulls is in its window, new to it, and held by the node that *)
(* announced; the publisher pulls nothing.                                  *)
LEMMA ToPullFacts ==
  ASSUME IInv, NEW m \in msgs, m.kind = "announce", NEW u \in ToPull(m.dst, m.seq)
  PROVE  /\ u \in Seqs /\ u \notin cache[m.dst] /\ u > latest[m.dst]
         /\ u \in cache[m.src] /\ u <= latest[Publisher]
         /\ m.dst # Publisher
         /\ ~ \E p \in missing[m.dst] : p[1] = u
<1>. DEFINE n == m.dst
<1>1. n \in Node /\ m.src \in Node /\ m.seq \in 0..MaxSeq
  BY DEF IInv, TypeOK, Message
<1>2. u \in Window(m.seq) /\ latest[n] <= m.seq /\ u \notin cache[n] /\ ~ \E p \in missing[n] : p[1] = u
  BY DEF ToPull
<1>3. u \in 1..m.seq
  BY <1>1, <1>2, WindowInSeqs
<1>4. m.seq <= latest[Publisher] /\ Window(m.seq) \subseteq cache[m.src]
  BY DEF IInv, PublisherIsSource, Backed
<1>5. latest[Publisher] \in 0..MaxSeq /\ latest[n] \in 0..MaxSeq
  BY <1>1 DEF IInv, TypeOK
<1>6. u > latest[n]
  <2>1. u <= latest[n] => u \in Window(latest[n])
    BY <1>1, <1>2, <1>3, <1>5 DEF Window, WindowStart
  <2>. QED  BY <1>1, <1>2, <1>3, <1>5, <2>1 DEF IInv, WindowCached
<1>7. n # Publisher
  BY <1>1, <1>3, <1>4, <1>5, <1>6
<1>. QED  BY <1>1, <1>2, <1>3, <1>4, <1>5, <1>6, <1>7 DEF Seqs

LEMMA PublishPreserves ==
  ASSUME IInv, Publish
  PROVE  IInv'
<1>. DEFINE s == latest[Publisher] + 1
<1>1. s \in Seqs /\ AddEntry(Publisher, s) /\ Push(Publisher, s, msgs) /\ UNCHANGED <<online, pulls>>
  BY DEF Publish, IInv, TypeOK, Seqs
<1>2. PICK children \in SUBSET (Node \ {Publisher}) :
        msgs' = msgs \cup {Msg("update", Publisher, c, s) : c \in children}
  BY <1>1 DEF Push
<1>3. msgs' \subseteq Message
  BY <1>1, <1>2 DEF IInv, TypeOK, Message, Msg, Seqs
<1>. HIDE DEF s
<1>4. /\ TypeOK' /\ WindowCached' /\ NextIsMissing' /\ PullTimerTracked'
      /\ OneFetchPerUpdate' /\ CacheKnown'
      /\ cache'[Publisher] = 1..latest'[Publisher]
      /\ missing'[Publisher] = {}
      /\ \A k \in Node : highest'[k] <= latest'[Publisher]
      /\ \A k \in Node : cache[k] \subseteq cache'[k] /\ latest[k] <= latest'[k]
      /\ s \in cache'[Publisher]
  BY <1>1, <1>3, AddEntryPreserves DEF s
<1>5. \A m \in msgs' \ msgs : m.kind = "update" /\ m.src = Publisher /\ m.seq = s
  BY <1>2 DEF Msg
<1>6. s <= latest'[Publisher]
  BY <1>1, <1>4 DEF TypeOK, Seqs
<1>7. Backed' /\ PullAnswerable' /\ \A m \in msgs' : m.seq <= latest'[Publisher]
  BY <1>3, <1>4, <1>5, <1>6, MessagesStayBacked
<1>. QED  BY <1>4, <1>7 DEF IInv, PublisherIsSource

LEMMA ReceiveUpdatePreserves ==
  ASSUME IInv, NEW m \in msgs, ReceiveUpdate(m)
  PROVE  IInv'
<1>. DEFINE n == m.dst  s == m.seq
<1>1. n \in Node /\ m.src \in Node /\ s \in cache[m.src] /\ s <= latest[Publisher]
  BY DEF ReceiveUpdate, IInv, TypeOK, Message, Backed, PublisherIsSource
<1>2. s \in Seqs /\ AddEntry(n, s) /\ Push(n, s, msgs \ {m}) /\ UNCHANGED <<online, pulls>>
  BY <1>1 DEF ReceiveUpdate, IInv, TypeOK
<1>3. PICK children \in SUBSET (Node \ {n}) :
        msgs' = (msgs \ {m}) \cup {Msg("update", n, c, s) : c \in children}
  BY <1>2 DEF Push
<1>4. msgs' \subseteq Message
  BY <1>1, <1>2, <1>3 DEF IInv, TypeOK, Message, Msg, Seqs
<1>5. n # Publisher \/ s \in cache[n]
  <2>1. s \in 1..latest[Publisher]
    BY <1>1, <1>2 DEF Seqs
  <2>. QED  BY <2>1 DEF IInv, PublisherIsSource
<1>6. /\ TypeOK' /\ WindowCached' /\ NextIsMissing' /\ PullTimerTracked'
      /\ OneFetchPerUpdate' /\ CacheKnown'
      /\ cache'[Publisher] = 1..latest'[Publisher]
      /\ missing'[Publisher] = {}
      /\ \A k \in Node : highest'[k] <= latest'[Publisher]
      /\ \A k \in Node : cache[k] \subseteq cache'[k] /\ latest[k] <= latest'[k]
      /\ s \in cache'[n]
  <2>. HIDE DEF n, s
  <2>. QED  BY <1>1, <1>2, <1>4, <1>5, AddEntryPreserves
<1>7. \A k \in msgs' \ msgs : k.kind = "update" /\ k.src = n /\ k.seq = s
  BY <1>3 DEF Msg
<1>8. s <= latest'[Publisher]
  BY <1>1, <1>2, <1>6 DEF IInv, TypeOK, Seqs
<1>9. Backed' /\ PullAnswerable' /\ \A k \in msgs' : k.seq <= latest'[Publisher]
  BY <1>4, <1>6, <1>7, <1>8, MessagesStayBacked
<1>. QED  BY <1>6, <1>9 DEF IInv, PublisherIsSource

LEMMA ReceiveAnnouncePreserves ==
  ASSUME IInv, NEW m \in msgs, ReceiveAnnounce(m)
  PROVE  IInv'
<1>. DEFINE n == m.dst
            wanted == ToPull(n, m.seq)
            new == {<<u, m.src>> : u \in wanted}
<1>1. /\ m.kind = "announce" /\ n \in Node /\ m.src \in Node /\ m.seq \in 0..MaxSeq
      /\ m.seq <= latest[Publisher]
  BY DEF ReceiveAnnounce, IInv, TypeOK, Message, PublisherIsSource
<1>2. /\ highest' = [highest EXCEPT ![n] = IF m.seq > @ THEN m.seq ELSE @]
      /\ missing' = [missing EXCEPT ![n] = @ \cup new]
      /\ pulls' = [pulls EXCEPT ![n] = @ \cup new]
      /\ msgs' = (msgs \ {m}) \cup {Msg("pull", n, m.src, u) : u \in wanted}
      /\ UNCHANGED <<online, cache, latest>>
  BY DEF ReceiveAnnounce
<1>3. \A u \in wanted : /\ u \in Seqs /\ u \notin cache[n] /\ u > latest[n]
                        /\ u \in cache[m.src] /\ u <= latest[Publisher]
                        /\ n # Publisher
                        /\ ~ \E p \in missing[n] : p[1] = u
  BY <1>1, ToPullFacts
<1>. HIDE DEF wanted
<1>4. new \subseteq Seqs \X Node /\ \A p \in new : p[1] \in wanted /\ p[2] = m.src /\ p = <<p[1], p[2]>>
  BY <1>1, <1>3
<1>5. TypeOK'
  <2>1. msgs' \subseteq Message
    BY <1>1, <1>2, <1>3 DEF IInv, TypeOK, Message, Msg, Seqs
  <2>2. missing' \in [Node -> SUBSET (Seqs \X Node)] /\ pulls' \in [Node -> SUBSET (Seqs \X Node)]
    BY <1>2, <1>4 DEF IInv, TypeOK
  <2>3. highest' \in [Node -> 0..MaxSeq] /\ \A k \in Node : latest[k] <= highest'[k]
    BY <1>1, <1>2 DEF IInv, TypeOK
  <2>. QED  BY <1>2, <2>1, <2>2, <2>3 DEF IInv, TypeOK
<1>6. WindowCached' /\ NextIsMissing'
  BY <1>2 DEF IInv, WindowCached, NextIsMissing, Window, WindowStart
<1>7. /\ missing'[n] = missing[n] \cup new /\ pulls'[n] = pulls[n] \cup new
      /\ \A k \in Node \ {n} : missing'[k] = missing[k] /\ pulls'[k] = pulls[k]
  BY <1>1, <1>2 DEF IInv, TypeOK
<1>8. PullTimerTracked'
  BY <1>2, <1>7 DEF IInv, PullTimerTracked
<1>9. OneFetchPerUpdate'
  <2>1. \A k \in Node : \A p \in missing'[k] : p[1] \notin cache[k]
    BY <1>3, <1>4, <1>7 DEF IInv, OneFetchPerUpdate
  <2>2. \A k \in Node \ {n} : \A p, q \in missing'[k] \cup pulls'[k] : p[1] = q[1] => p = q
    BY <1>7 DEF IInv, OneFetchPerUpdate
  <2>3. \A p \in new : \A q \in missing[n] \cup pulls[n] : p[1] # q[1]
    BY <1>1, <1>3, <1>4 DEF IInv, PullTimerTracked
  <2>4. \A p, q \in new : p[1] = q[1] => p = q
    BY <1>4
  <2>5. \A p, q \in missing[n] \cup pulls[n] : p[1] = q[1] => p = q
    BY <1>1 DEF IInv, OneFetchPerUpdate
  <2>6. \A p, q \in missing'[n] \cup pulls'[n] : p[1] = q[1] => p = q
    <3>. HIDE DEF new
    <3>1. missing'[n] \cup pulls'[n] = (missing[n] \cup pulls[n]) \cup new
      BY <1>7
    <3>. QED  BY <2>3, <2>4, <2>5, <3>1
  <2>. QED  BY <1>2, <2>1, <2>2, <2>6 DEF OneFetchPerUpdate
<1>10. CacheKnown'
  <2>. SUFFICES ASSUME NEW k \in Node, NEW u \in cache[k]
                PROVE  u \in 1..highest'[k]
    BY <1>2 DEF CacheKnown
  <2>1. u \in 1..highest[k] /\ highest[k] \in Nat
    BY DEF IInv, CacheKnown, TypeOK
  <2>2. highest'[k] \in Nat /\ highest[k] <= highest'[k]
    BY <1>1, <1>2, <2>1 DEF IInv, TypeOK
  <2>. QED  BY <2>1, <2>2
<1>11. /\ cache'[Publisher] = 1..latest'[Publisher]
       /\ missing'[Publisher] = {}
       /\ \A k \in Node : highest'[k] <= latest'[Publisher]
  <2>1. missing'[Publisher] = {}
    <3>1. CASE n = Publisher
      <4>1. new = {}
        BY <1>3, <3>1
      <4>. QED  BY <1>7, <3>1, <4>1 DEF IInv, PublisherIsSource
    <3>2. CASE n # Publisher
      BY <1>7, <3>2 DEF IInv, PublisherIsSource
    <3>. QED  BY <3>1, <3>2
  <2>2. \A k \in Node : highest'[k] <= latest[Publisher]
    BY <1>1, <1>2 DEF IInv, TypeOK, PublisherIsSource
  <2>. QED  BY <1>2, <2>1, <2>2 DEF IInv, PublisherIsSource
<1>12. \A k \in msgs' \ msgs : k.kind = "pull" /\ k.dst = m.src /\ k.seq \in wanted
  BY <1>2 DEF Msg
<1>13. Backed' /\ PullAnswerable' /\ \A k \in msgs' : k.seq <= latest'[Publisher]
  <2>1. latest'[Publisher] = latest[Publisher] /\ latest[Publisher] \in 0..MaxSeq /\ cache' = cache
    BY <1>2 DEF IInv, TypeOK
  <2>2. msgs' \subseteq Message
    BY <1>5 DEF TypeOK
  <2>3. \A k \in msgs' \ msgs :
           /\ k.kind = "announce" => Window(k.seq) \subseteq cache'[k.src]
           /\ k.kind = "update" => k.seq \in cache'[k.src]
           /\ k.kind = "pull" => k.seq \in cache'[k.dst]
           /\ k.seq <= latest'[Publisher]
    BY <1>3, <1>12, <2>1
  <2>. QED  BY <1>5, <2>1, <2>2, <2>3, MessagesStayBacked
<1>. QED  BY <1>5, <1>6, <1>8, <1>9, <1>10, <1>11, <1>13 DEF IInv, PublisherIsSource

LEMMA InitEstablishes == Init => IInv
<1>. SUFFICES ASSUME Init PROVE IInv
  OBVIOUS
<1>1. /\ cache = [n \in Node |-> {}] /\ latest = [n \in Node |-> 0] /\ highest = [n \in Node |-> 0]
      /\ missing = [n \in Node |-> {}] /\ pulls = [n \in Node |-> {}] /\ msgs = {}
      /\ online = [n \in Node |-> TRUE]
  BY DEF Init
<1>2. Window(0) = {}
  BY WindowInSeqs
<1>3. TypeOK
  BY <1>1 DEF TypeOK
<1>4. WindowCached /\ NextIsMissing
  BY <1>1, <1>2 DEF WindowCached, NextIsMissing
<1>5. PullAnswerable /\ PullTimerTracked /\ OneFetchPerUpdate /\ Backed
  BY <1>1 DEF PullAnswerable, PullTimerTracked, OneFetchPerUpdate, Backed
<1>6. PublisherIsSource /\ CacheKnown
  BY <1>1 DEF PublisherIsSource, CacheKnown
<1>. QED  BY <1>3, <1>4, <1>5, <1>6 DEF IInv

LEMMA NextPreserves == IInv /\ [Next]_vars => IInv'
<1>. SUFFICES ASSUME IInv, [Next]_vars
              PROVE  IInv'
  OBVIOUS
<1>. USE DEF IInv
<1>1. CASE Publish
  BY <1>1, PublishPreserves
<1>2. ASSUME NEW n \in Node, NEW d \in Node, Announce(n, d)
      PROVE  IInv'
  <2>1. /\ UNCHANGED <<online, cache, latest, highest, missing, pulls>>
        /\ msgs' = msgs \cup {Msg("announce", n, d, latest[n])}
    BY <1>2 DEF Announce
  <2>2. TypeOK'
    BY <2>1 DEF TypeOK, Message, Msg
  <2>3. /\ WindowCached' /\ NextIsMissing' /\ PullTimerTracked' /\ OneFetchPerUpdate' /\ CacheKnown'
    BY <2>1 DEF WindowCached, NextIsMissing, PullTimerTracked, OneFetchPerUpdate, CacheKnown,
                Window, WindowStart
  <2>4. \A m \in msgs' \ msgs : m.kind = "announce" /\ m.src = n /\ m.seq = latest[n]
    BY <2>1 DEF Msg
  <2>5. latest[n] <= latest[Publisher] /\ Window(latest[n]) \subseteq cache[n]
    BY DEF TypeOK, PublisherIsSource, WindowCached
  <2>6. Backed' /\ PullAnswerable' /\ \A m \in msgs' : m.seq <= latest'[Publisher]
    <3>1. \A m \in msgs' \ msgs :
             /\ m.kind = "announce" => Window(m.seq) \subseteq cache'[m.src]
             /\ m.kind = "update" => m.seq \in cache'[m.src]
             /\ m.kind = "pull" => m.seq \in cache'[m.dst]
             /\ m.seq <= latest'[Publisher]
      BY <2>1, <2>4, <2>5
    <3>2. msgs' \subseteq Message /\ latest[Publisher] \in 0..MaxSeq
      BY <2>2 DEF TypeOK
    <3>. QED  BY <2>1, <2>2, <3>1, <3>2, MessagesStayBacked
  <2>. QED  BY <2>1, <2>2, <2>3, <2>6 DEF PublisherIsSource
<1>3. ASSUME NEW m \in msgs, Deliver(m)
      PROVE  IInv'
  <2>1. CASE ReceiveAnnounce(m)
    BY <2>1, ReceiveAnnouncePreserves
  <2>2. CASE ReceivePull(m)
    <3>1. /\ UNCHANGED <<online, cache, latest, highest, missing, pulls>>
          /\ m.kind = "pull" /\ m.src \in Node /\ m.dst \in Node
          /\ m.seq \in 0..MaxSeq /\ m.seq \in cache[m.dst] /\ m.seq <= latest[Publisher]
          /\ msgs' = (msgs \ {m}) \cup {Msg("update", m.dst, m.src, m.seq)}
      BY <2>2 DEF ReceivePull, TypeOK, Message, PullAnswerable, PublisherIsSource
    <3>2. TypeOK'
      BY <3>1 DEF TypeOK, Message, Msg
    <3>3. /\ WindowCached' /\ NextIsMissing' /\ PullTimerTracked' /\ OneFetchPerUpdate' /\ CacheKnown'
      BY <3>1 DEF WindowCached, NextIsMissing, PullTimerTracked, OneFetchPerUpdate, CacheKnown,
                  Window, WindowStart
    <3>4. \A k \in msgs' \ msgs : k.kind = "update" /\ k.src = m.dst /\ k.seq = m.seq
      BY <3>1 DEF Msg
    <3>5. Backed' /\ PullAnswerable' /\ \A k \in msgs' : k.seq <= latest'[Publisher]
      <4>1. \A k \in msgs' \ msgs :
               /\ k.kind = "announce" => Window(k.seq) \subseteq cache'[k.src]
               /\ k.kind = "update" => k.seq \in cache'[k.src]
               /\ k.kind = "pull" => k.seq \in cache'[k.dst]
               /\ k.seq <= latest'[Publisher]
        BY <3>1, <3>4
      <4>2. msgs' \subseteq Message /\ latest[Publisher] \in 0..MaxSeq
        BY <3>2 DEF TypeOK
      <4>. QED  BY <3>1, <3>2, <4>1, <4>2, MessagesStayBacked
    <3>. QED  BY <3>1, <3>2, <3>3, <3>5 DEF PublisherIsSource
  <2>3. CASE ReceiveUpdate(m)
    BY <2>3, ReceiveUpdatePreserves
  <2>. QED  BY <1>3, <2>1, <2>2, <2>3 DEF Deliver
<1>4. ASSUME NEW n \in Node, NEW p \in pulls[n], PullTimeout(n, p)
      PROVE  IInv'
  <2>1. /\ pulls' = [pulls EXCEPT ![n] = @ \ {p}]
        /\ missing' = [missing EXCEPT ![n] = IF p[1] \in cache[n] THEN @ ELSE {q \in @ : q[1] # p[1]}]
        /\ UNCHANGED <<online, cache, latest, highest, msgs>>
    BY <1>4 DEF PullTimeout
  <2>2. /\ pulls'[n] = pulls[n] \ {p}
        /\ missing'[n] = IF p[1] \in cache[n] THEN missing[n] ELSE {q \in missing[n] : q[1] # p[1]}
        /\ \A k \in Node \ {n} : pulls'[k] = pulls[k] /\ missing'[k] = missing[k]
    BY <2>1 DEF TypeOK
  <2>3. TypeOK'
    <3>1. pulls' \in [Node -> SUBSET (Seqs \X Node)] /\ missing' \in [Node -> SUBSET (Seqs \X Node)]
      BY <2>1 DEF TypeOK
    <3>. QED  BY <2>1, <3>1 DEF TypeOK
  <2>4. \A k \in Node : pulls'[k] \subseteq pulls[k] /\ missing'[k] \subseteq missing[k]
    BY <2>2
  <2>5. OneFetchPerUpdate'
    BY <2>1, <2>4 DEF OneFetchPerUpdate
  <2>6. PullTimerTracked'
    <3>. SUFFICES ASSUME NEW k \in Node, NEW q \in pulls'[k], q[1] \notin cache[k]
                  PROVE  q \in missing'[k]
      BY <2>1 DEF PullTimerTracked
    <3>1. q \in missing[k] /\ q \in pulls[k]
      BY <2>4 DEF PullTimerTracked
    <3>2. CASE k = n
      BY <2>2, <3>1, <3>2 DEF OneFetchPerUpdate
    <3>. QED  BY <2>2, <3>1, <3>2
  <2>7. WindowCached' /\ NextIsMissing' /\ PullAnswerable' /\ Backed' /\ CacheKnown'
    BY <2>1 DEF WindowCached, NextIsMissing, PullAnswerable, Backed, CacheKnown, Window, WindowStart
  <2>8. PublisherIsSource'
    BY <2>1, <2>4 DEF PublisherIsSource
  <2>. QED  BY <2>3, <2>5, <2>6, <2>7, <2>8
<1>5. ASSUME NEW n \in Node, TakeOffline(n) \/ BringOnline(n)
      PROVE  IInv'
  <2>1. /\ UNCHANGED <<cache, latest, highest, missing, msgs>>
        /\ online' \in [Node -> BOOLEAN]
        /\ pulls' \in [Node -> SUBSET (Seqs \X Node)]
        /\ \A k \in Node : pulls'[k] \subseteq pulls[k]
    BY <1>5 DEF TakeOffline, BringOnline, TypeOK
  <2>2. TypeOK' /\ PullTimerTracked' /\ OneFetchPerUpdate' /\ PublisherIsSource'
    BY <2>1 DEF TypeOK, PullTimerTracked, OneFetchPerUpdate, PublisherIsSource
  <2>3. WindowCached' /\ NextIsMissing' /\ PullAnswerable' /\ Backed' /\ CacheKnown'
    BY <2>1 DEF WindowCached, NextIsMissing, PullAnswerable, Backed, CacheKnown, Window, WindowStart
  <2>. QED  BY <2>2, <2>3
<1>6. ASSUME NEW m \in msgs, Lose(m)
      PROVE  IInv'
  <2>1. msgs' \subseteq msgs /\ UNCHANGED <<online, cache, latest, highest, missing, pulls>>
    BY <1>6 DEF Lose
  <2>2. TypeOK' /\ PullTimerTracked' /\ OneFetchPerUpdate' /\ PublisherIsSource'
    BY <2>1 DEF TypeOK, PullTimerTracked, OneFetchPerUpdate, PublisherIsSource
  <2>3. WindowCached' /\ NextIsMissing' /\ PullAnswerable' /\ Backed' /\ CacheKnown'
    BY <2>1 DEF WindowCached, NextIsMissing, PullAnswerable, Backed, CacheKnown, Window, WindowStart
  <2>. QED  BY <2>2, <2>3
<1>7. CASE UNCHANGED vars
  BY <1>7 DEF vars, TypeOK, WindowCached, NextIsMissing, PullAnswerable, PullTimerTracked,
              OneFetchPerUpdate, PublisherIsSource, Backed, CacheKnown, Window, WindowStart
<1>. QED  BY <1>1, <1>2, <1>3, <1>4, <1>5, <1>6, <1>7 DEF Next, UpNext

-----------------------------------------------------------------------------

(* IInv holds in every reachable state.                                     *)
LEMMA Invariance == Spec => []IInv
BY InitEstablishes, NextPreserves, PTL DEF Spec

(* Every variable keeps its type, and assert(_latest_update_seq <=          *)
(* _highest_update_seq) at the end of Feed::add_entry never fails.          *)
THEOREM TypeCorrect == Spec => []TypeOK
<1>1. IInv => TypeOK
  BY DEF IInv
<1>. QED  BY <1>1, Invariance, PTL

(* A node has the last UpdatesCache updates below its _latest_update_seq,   *)
(* whatever order Feed::add_entry got them in.                              *)
THEOREM WindowIsCached == Spec => []WindowCached
<1>1. IInv => WindowCached
  BY DEF IInv
<1>. QED  BY <1>1, Invariance, PTL

(* The update numbered latest + 1 is never there already: publish_update    *)
(* never reuses a number.                                                   *)
THEOREM LatestEndsARun == Spec => []NextIsMissing
<1>1. IInv => NextIsMissing
  BY DEF IInv
<1>. QED  BY <1>1, Invariance, PTL

(* The assertion of Feed::send_entry holds for every pull request answered. *)
THEOREM PullsCanBeAnswered == Spec => []PullAnswerable
<1>1. IInv => PullAnswerable
  BY DEF IInv
<1>. QED  BY <1>1, Invariance, PTL

(* The assertions of Feed::mark_pull_as_failed hold.                        *)
THEOREM FetchesAreTracked == Spec => []PullTimerTracked
<1>1. IInv => PullTimerTracked
  BY DEF IInv
<1>. QED  BY <1>1, Invariance, PTL

(* An update is fetched from one node at a time, and not if it is there.    *)
THEOREM FetchesAreUnique == Spec => []OneFetchPerUpdate
<1>1. IInv => OneFetchPerUpdate
  BY DEF IInv
<1>. QED  BY <1>1, Invariance, PTL

(* Every update any node or message knows of was published; the publisher   *)
(* has all of them and pulls none.                                          *)
THEOREM PublisherIsTheSource == Spec => []PublisherIsSource
<1>1. IInv => PublisherIsSource
  BY DEF IInv
<1>. QED  BY <1>1, Invariance, PTL

-----------------------------------------------------------------------------
(***************************************************************************)
(* Steps: what one action may do to the caches, the counters and the pulls. *)
(***************************************************************************)

(* Only add_entry touches a cache: a step leaves all of them alone, or adds *)
(* an update to one.                                                        *)
LEMMA StepShape ==
  ASSUME IInv, Next
  PROVE  \/ UNCHANGED <<cache, latest>> /\ \A n \in Node : highest[n] <= highest'[n]
         \/ Publish /\ AddEntry(Publisher, latest[Publisher] + 1)
                    /\ latest[Publisher] + 1 \in Seqs /\ UNCHANGED pulls
         \/ \E m \in msgs : ReceiveUpdate(m) /\ AddEntry(m.dst, m.seq)
                           /\ m.dst \in Node /\ m.src \in Node /\ m.seq \in Seqs
                           /\ m.seq \in cache[m.src] /\ UNCHANGED pulls
<1>1. \A n \in Node : highest[n] \in 0..MaxSeq /\ latest[n] \in 0..MaxSeq
  BY DEF IInv, TypeOK
<1>2. CASE Publish
  BY <1>1, <1>2 DEF Publish, Seqs
<1>3. ASSUME NEW m \in msgs, Deliver(m)
      PROVE  \/ UNCHANGED <<cache, latest>> /\ \A n \in Node : highest[n] <= highest'[n]
             \/ \E k \in msgs : ReceiveUpdate(k) /\ AddEntry(k.dst, k.seq)
                           /\ k.dst \in Node /\ k.src \in Node /\ k.seq \in Seqs
                           /\ k.seq \in cache[k.src] /\ UNCHANGED pulls
  <2>1. m.dst \in Node /\ m.src \in Node /\ m.seq \in 0..MaxSeq
    BY DEF IInv, TypeOK, Message
  <2>2. CASE ReceiveAnnounce(m)
    <3>1. /\ UNCHANGED <<cache, latest>>
          /\ highest' = [highest EXCEPT ![m.dst] = IF m.seq > @ THEN m.seq ELSE @]
      BY <2>2 DEF ReceiveAnnounce
    <3>. QED  BY <1>1, <2>1, <3>1 DEF IInv, TypeOK
  <2>3. CASE ReceivePull(m)
    BY <1>1, <2>3 DEF ReceivePull
  <2>4. CASE ReceiveUpdate(m)
    <3>1. m.seq \in cache[m.src] /\ cache[m.src] \subseteq Seqs
      BY <2>1, <2>4 DEF ReceiveUpdate, IInv, Backed, TypeOK
    <3>. QED  BY <2>1, <2>4, <3>1 DEF ReceiveUpdate
  <2>. QED  BY <1>3, <2>2, <2>3, <2>4 DEF Deliver
<1>4. CASE \/ \E n, d \in Node : Announce(n, d)
           \/ \E n \in Node : \E p \in pulls[n] : PullTimeout(n, p)
           \/ \E n \in Node : TakeOffline(n) \/ BringOnline(n)
           \/ \E m \in msgs : Lose(m)
  BY <1>1, <1>4 DEF Announce, PullTimeout, TakeOffline, BringOnline, Lose
<1>. QED  BY <1>2, <1>3, <1>4 DEF Next, UpNext

LEMMA AddEntryGrows ==
  ASSUME IInv, NEW n \in Node, NEW s \in Seqs, AddEntry(n, s)
  PROVE  /\ cache' = [cache EXCEPT ![n] = @ \cup {s}]
         /\ \A k \in Node : cache[k] \subseteq cache'[k] /\ latest[k] <= latest'[k] /\ highest[k] <= highest'[k]
         /\ s \in cache[n] => UNCHANGED <<cache, latest>>
<1>1. /\ cache' = [cache EXCEPT ![n] = @ \cup {s}]
      /\ highest' = [highest EXCEPT ![n] = highest'[n]]
      /\ highest[n] <= highest'[n]
      /\ latest' = [latest EXCEPT ![n] = latest'[n]]
      /\ latest[n] <= latest'[n]
  BY AddEntryEffect DEF IInv
<1>2. s \in cache[n] => UNCHANGED <<cache, latest>>
  BY DEF AddEntry, feedVars
<1>. QED  BY <1>1, <1>2 DEF IInv, TypeOK

(* A node never loses an update, and neither of its counters decreases, in  *)
(* any step: not when it restarts, nor on a stale announcement.             *)
THEOREM NodesNeverGoBack == Spec => NeverGoesBack
<1>1. IInv /\ [Next]_vars =>
        [\A n \in Node :
           cache[n] \subseteq cache'[n] /\ latest[n] <= latest'[n] /\ highest[n] <= highest'[n]]_vars
  <2>. SUFFICES ASSUME IInv, Next
                PROVE  \A n \in Node : /\ cache[n] \subseteq cache'[n]
                                       /\ latest[n] <= latest'[n]
                                       /\ highest[n] <= highest'[n]
    OBVIOUS
  <2>1. \A n \in Node : latest[n] \in 0..MaxSeq
    BY DEF IInv, TypeOK
  <2>2. CASE UNCHANGED <<cache, latest>> /\ \A n \in Node : highest[n] <= highest'[n]
    BY <2>1, <2>2
  <2>3. CASE AddEntry(Publisher, latest[Publisher] + 1) /\ latest[Publisher] + 1 \in Seqs
    BY <2>3, AddEntryGrows
  <2>4. CASE \E m \in msgs : AddEntry(m.dst, m.seq) /\ m.dst \in Node /\ m.seq \in Seqs
    BY <2>4, AddEntryGrows
  <2>. QED  BY <2>2, <2>3, <2>4, StepShape
<1>. QED  BY <1>1, Invariance, PTL DEF Spec, NeverGoesBack

(* assert(seq_num > _latest_update_seq) in Feed::pull_entry: a node pulls   *)
(* only updates above the one it vouches for.                               *)
THEOREM OnlyNewUpdatesArePulled == Spec => PullsAreNew
<1>1. IInv /\ [Next]_vars =>
        [\A n \in Node : \A p \in pulls'[n] \ pulls[n] : p[1] > latest[n]]_vars
  <2>. SUFFICES ASSUME IInv, Next, NEW n \in Node, NEW p \in pulls'[n] \ pulls[n]
                PROVE  p[1] > latest[n]
    OBVIOUS
  <2>1. ASSUME NEW m \in msgs, ReceiveAnnounce(m)
        PROVE  p[1] > latest[n]
    <3>1. /\ m.kind = "announce" /\ m.dst \in Node
          /\ pulls' = [pulls EXCEPT ![m.dst] = @ \cup {<<u, m.src>> : u \in ToPull(m.dst, m.seq)}]
      BY <2>1 DEF ReceiveAnnounce, IInv, TypeOK, Message
    <3>2. n = m.dst /\ p[1] \in ToPull(m.dst, m.seq)
      BY <3>1 DEF IInv, TypeOK
    <3>. QED  BY <3>1, <3>2, ToPullFacts
  <2>2. CASE \/ Publish
             \/ \E k, d \in Node : Announce(k, d)
             \/ \E m \in msgs : ReceivePull(m) \/ ReceiveUpdate(m)
             \/ \E k \in Node : \E q \in pulls[k] : PullTimeout(k, q)
             \/ \E k \in Node : TakeOffline(k) \/ BringOnline(k)
             \/ \E m \in msgs : Lose(m)
    <3>1. pulls'[n] \subseteq pulls[n]
      BY <2>2 DEF Publish, Announce, ReceivePull, ReceiveUpdate, PullTimeout, TakeOffline,
                  BringOnline, Lose, IInv, TypeOK
    <3>. QED  BY <3>1
  <2>. QED  BY <2>1, <2>2 DEF Next, UpNext, Deliver
<1>. QED  BY <1>1, Invariance, PTL DEF Spec, PullsAreNew

-----------------------------------------------------------------------------

(* Dissemination implements FeedDelivery: the publisher's numbers have no   *)
(* gap, and a subscriber obtains an update once, from a node that has it.   *)
THEOREM ImplementsFeedDelivery == Spec => KeepsPromise
<1>1. Init => Promise!Init
  BY DEF Init, Promise!Init
<1>2. IInv /\ IInv' /\ [Next]_vars => [Promise!Next]_(Promise!vars)
  <2>. SUFFICES ASSUME IInv, IInv', Next
                PROVE  Promise!Next \/ UNCHANGED <<latest[Publisher], cache>>
    BY DEF vars, Promise!vars
  <2>1. CASE UNCHANGED <<cache, latest>>
    BY <2>1
  <2>2. CASE AddEntry(Publisher, latest[Publisher] + 1) /\ latest[Publisher] + 1 \in Seqs
    <3>. DEFINE s == latest[Publisher] + 1
    <3>1. cache' = [cache EXCEPT ![Publisher] = @ \cup {s}]
      BY <2>2, AddEntryGrows
    <3>2. cache'[Publisher] = cache[Publisher] \cup {s}
      BY <3>1 DEF IInv, TypeOK
    <3>3. /\ cache[Publisher] = 1..latest[Publisher] /\ cache'[Publisher] = 1..latest'[Publisher]
          /\ latest[Publisher] \in Nat /\ latest'[Publisher] \in Nat
      BY DEF IInv, PublisherIsSource, TypeOK
    <3>4. s \in 1..latest'[Publisher] /\ s + 1 \notin 1..latest'[Publisher]
      BY <3>2, <3>3
    <3>5. latest'[Publisher] = s
      BY <3>3, <3>4
    <3>6. Promise!Publish
      BY <3>1, <3>5 DEF Promise!Publish
    <3>. QED  BY <3>6 DEF Promise!Next
  <2>3. ASSUME NEW m \in msgs, ReceiveUpdate(m), AddEntry(m.dst, m.seq),
               m.dst \in Node, m.src \in Node, m.seq \in Seqs, m.seq \in cache[m.src]
        PROVE  Promise!Next \/ UNCHANGED <<latest[Publisher], cache>>
    <3>1. CASE m.seq \in cache[m.dst]
      BY <2>3, <3>1, AddEntryGrows
    <3>2. CASE m.seq \notin cache[m.dst]
      <4>1. cache' = [cache EXCEPT ![m.dst] = @ \cup {m.seq}]
        BY <2>3, AddEntryGrows
      <4>2. m.seq \in 1..latest[Publisher] /\ m.dst # Publisher
        BY <2>3, <3>2 DEF IInv, PublisherIsSource, Seqs, TypeOK
      <4>3. UNCHANGED latest[Publisher]
        <5>1. cache'[Publisher] = cache[Publisher]
          BY <4>1, <4>2 DEF IInv, TypeOK
        <5>2. /\ 1..latest'[Publisher] = 1..latest[Publisher]
              /\ latest[Publisher] \in Nat /\ latest'[Publisher] \in Nat
          BY <5>1 DEF IInv, PublisherIsSource, TypeOK
        <5>. QED  BY <5>2
      <4>4. Promise!Obtain(m.dst, m.src, m.seq)
        BY <2>3, <3>2, <4>1, <4>3 DEF Promise!Obtain
      <4>. QED  BY <2>3, <4>2, <4>4 DEF Promise!Next
    <3>. QED  BY <3>1, <3>2
  <2>. QED  BY <2>1, <2>2, <2>3, StepShape
<1>. QED  BY <1>1, <1>2, Invariance, PTL DEF Spec, KeepsPromise, Promise!Spec

=============================================================================
