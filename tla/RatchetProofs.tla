---------------------------- MODULE RatchetProofs ----------------------------
(***************************************************************************)
(* Proofs about the double ratchet, for any number of messages, ratchet    *)
(* steps and repeated or damaged deliveries and any bounds of the store:   *)
(* no message key is used twice, and every message can be read when it     *)
(* arrives first.                                                          *)
(***************************************************************************)
EXTENDS DoubleRatchet, FiniteSetTheorems, FunctionTheorems, WellFoundedInduction,
        NaturalsInduction, TLAPS

\* Numbers have a least one.
LEMMA LeastNumber ==
    ASSUME NEW S \in SUBSET Nat, S # {}
    PROVE  \E m \in S : \A n \in S : m =< n
<1> DEFINE Less == OpToRel(<, Nat)
<1>1. IsWellFoundedOn(Less, Nat)
  BY NatLessThanWellFounded
<1>2. \A x, y \in Nat : x < y => <<x, y>> \in Less
  BY DEF OpToRel
<1> HIDE DEF Less
<1>3. PICK m \in S : \A y \in S : ~(<<y, m>> \in Less)
  BY <1>1, WFMin
<1>4. ASSUME NEW n \in S PROVE m =< n
  <2>1. n \in Nat /\ m \in Nat
    OBVIOUS
  <2>2. ~(n < m)
    BY <1>2, <1>3, <2>1
  <2>3. QED
    BY <2>1, <2>2
<1>5. QED
  BY <1>4
-----------------------------------------------------------------------------
(* Types *)

Names == {"my identity", "identity", "signed pre-key", "ephemeral", "one-time pre-key"}
Pair  == Device \X Nat

Root      == Seq(SUBSET (Names \cup Pair))
ChainType == [root : Root, by : Device]
EntryType == [key : Pair, n : Nat, chain : ChainType]
StateType ==
    [root : Root, send : ChainType, recv : ChainType, sent : Nat, received : Nat, prev : Nat,
     key : Pair, remote : Pair \cup {NoKey}, stored : Seq(EntryType),
     dropped : SUBSET EntryType]
MessageType == [id : Nat, by : Device, key : Pair, n : Nat, prev : Nat, chain : ChainType]

LEMMA RatchetConstants ==
    /\ Initiator # Responder /\ MaxSkip \in Nat /\ MaxStored \in Nat /\ MaxStored # 0
    /\ MaxMessages \in Nat /\ MaxPairs \in Nat /\ MaxNoise \in Nat
BY RatchetAssumption DEF RatchetAssumption

LEMMA OtherDevice ==
    ASSUME NEW u \in Device
    PROVE  Other(u) \in Device /\ Other(u) # u /\ Other(Other(u)) = u
BY RatchetConstants DEF Device, Other

LEMMA ChainFields ==
    ASSUME NEW r \in Root, NEW u \in Device
    PROVE  Chain(r, u) \in ChainType /\ Chain(r, u).root = r /\ Chain(r, u).by = u
BY DEF Chain, ChainType

LEMMA NextRootIsLonger ==
    ASSUME NEW r \in Root, NEW k \in Pair, NEW l \in Pair
    PROVE  NextRoot(r, DH(k, l)) \in Root /\ Len(NextRoot(r, DH(k, l))) = Len(r) + 1
<1>1. DH(k, l) \in SUBSET (Names \cup Pair)
  BY DEF DH
<1>2. QED
  BY <1>1 DEF NextRoot, Root

LEMMA FreshKeys ==
    ASSUME NEW s \in StateType
    PROVE  /\ FreshKey(s) \in Pair /\ FreshKey(s)[1] = s.key[1]
           /\ FreshKey(s)[2] = s.key[2] + 1 /\ s.key[2] \in Nat /\ s.key[1] \in Device
BY DEF StateType, FreshKey, Pair

\* The two sides agree on the first root key.
LEMMA AgreementAgrees ==
    ASSUME NEW otk \in BOOLEAN
    PROVE  InitiateRoot(otk) = RespondRoot(otk) /\ InitiateRoot(otk) \in Root
<1>1. /\ DH("my identity", "signed pre-key") = DH("signed pre-key", "my identity")
      /\ DH("ephemeral", "identity") = DH("identity", "ephemeral")
      /\ DH("ephemeral", "signed pre-key") = DH("signed pre-key", "ephemeral")
      /\ DH("ephemeral", "one-time pre-key") = DH("one-time pre-key", "ephemeral")
  BY DEF DH
<1>2. InitiateRoot(otk) = RespondRoot(otk)
  BY <1>1 DEF InitiateRoot, RespondRoot
<1>3. /\ DH("my identity", "signed pre-key") \in SUBSET (Names \cup Pair)
      /\ DH("ephemeral", "identity") \in SUBSET (Names \cup Pair)
      /\ DH("ephemeral", "signed pre-key") \in SUBSET (Names \cup Pair)
      /\ DH("ephemeral", "one-time pre-key") \in SUBSET (Names \cup Pair)
  BY DEF DH, Names
<1> DEFINE S == SUBSET (Names \cup Pair)
           a == DH("my identity", "signed pre-key")
           b == DH("ephemeral", "identity")
           c == DH("ephemeral", "signed pre-key")
           d == DH("ephemeral", "one-time pre-key")
           p == "one-time pre-key" \in KeyBundle(otk)
<1>4. a \in S /\ b \in S /\ c \in S /\ d \in S
  BY <1>3
<1>5. InitiateRoot(otk) = <<a, b, c>> \o IF p THEN <<d>> ELSE <<>>
  BY DEF InitiateRoot
<1> HIDE DEF S, a, b, c, d, p
<1>6. <<a, b, c>> \in Seq(S)
  BY <1>4
<1>7. (IF p THEN <<d>> ELSE <<>>) \in Seq(S)
  BY <1>4
<1> DEFINE q == IF p THEN <<d>> ELSE <<>>
<1> HIDE DEF q
<1>8. <<a, b, c>> \o q \in Seq(S)
  BY <1>6, <1>7 DEF q
<1>9. QED
  BY <1>2, <1>5, <1>8 DEF Root, S, q
-----------------------------------------------------------------------------
(* The store of skipped keys *)

Entries(q)  == {q[i] : i \in DOMAIN q}
Distinct(q) == \A i, j \in DOMAIN q : q[i].chain = q[j].chain /\ q[i].n = q[j].n => i = j

\* The keys a chain has between two counters.
KeysOf(key, chain, from, until) ==
    {e \in EntryType : e.key = key /\ e.chain = chain /\ e.n >= from /\ e.n < until}

\* Making room takes the oldest keys away.
LEMMA KeptStore ==
    ASSUME NEW q \in Seq(EntryType)
    PROVE  /\ Kept(q) \in Seq(EntryType) /\ Len(Kept(q)) =< MaxStored
           /\ Entries(Kept(q)) \subseteq Entries(q)
           /\ {q[i] : i \in 1..Oldest(q)} \subseteq Entries(q)
           /\ Entries(q) \subseteq Entries(Kept(q)) \cup {q[i] : i \in 1..Oldest(q)}
           /\ Distinct(q) => Distinct(Kept(q))
<1> DEFINE o == Oldest(q)
           k == Kept(q)
<1>1. o \in Nat /\ o =< Len(q) /\ Len(q) - o =< MaxStored /\ Len(q) \in Nat
  BY RatchetConstants DEF Oldest
<1>2. k = SubSeq(q, o + 1, Len(q))
  BY DEF Kept
<1> HIDE DEF o, k
<1>3. k \in Seq(EntryType) /\ Len(k) = Len(q) - o
  BY <1>1, <1>2
<1>4. \A i \in 1..Len(k) : k[i] = q[i + o] /\ i + o \in 1..Len(q)
  BY <1>1, <1>2, <1>3
<1>5. DOMAIN q = 1..Len(q) /\ DOMAIN k = 1..Len(k) /\ Len(k) \in Nat
  BY <1>3
<1>6. Entries(k) \subseteq Entries(q)
  BY <1>4, <1>5 DEF Entries
<1>7. {q[i] : i \in 1..o} \subseteq Entries(q)
  BY <1>1, <1>5 DEF Entries
<1>8. Entries(q) \subseteq Entries(k) \cup {q[i] : i \in 1..o}
  <2>1. ASSUME NEW i \in 1..Len(q) PROVE q[i] \in Entries(k) \cup {q[j] : j \in 1..o}
    <3>1. CASE i =< o
      BY <1>1, <3>1
    <3>2. CASE i > o
      <4>1. i - o \in 1..Len(k) /\ (i - o) + o = i
        BY <1>1, <1>3, <3>2
      <4>2. k[i - o] = q[i]
        BY <1>4, <4>1
      <4>3. QED
        BY <1>5, <4>1, <4>2 DEF Entries
    <3>3. QED
      BY <1>1, <3>1, <3>2
  <2>2. QED
    BY <1>5, <2>1 DEF Entries
<1>9. ASSUME Distinct(q), NEW i \in 1..Len(k), NEW j \in 1..Len(k),
             k[i].chain = k[j].chain, k[i].n = k[j].n
      PROVE  i = j
  <2>1. i + o = j + o
    BY <1>4, <1>5, <1>9 DEF Distinct
  <2>2. QED
    BY <1>1, <1>3, <2>1
<1>10. Distinct(q) => Distinct(k)
  BY <1>5, <1>9 DEF Distinct
<1>11. QED
  BY <1>1, <1>3, <1>6, <1>7, <1>8, <1>10 DEF o, k

\* The place of number n behind c entries, of the numbers from up to until.
LEMMA PlaceOf ==
    ASSUME NEW c \in Nat, NEW from \in Nat, NEW until \in Nat, NEW n \in Nat,
           n >= from, n < until
    PROVE  /\ c + (n - from) + 1 \in 1..(c + (until - from))
           /\ c + (n - from) + 1 > c
           /\ from + ((c + (n - from) + 1) - c) - 1 = n
  OBVIOUS

\* What skipping adds, before room is made.
LEMMA SkippedStore ==
    ASSUME NEW s \in StateType, NEW key \in Pair, NEW until \in Nat, until > s.received
    PROVE  LET q == s.stored \o Skipped(s, key, until)
           IN /\ q \in Seq(EntryType)
              /\ Entries(q) = Entries(s.stored) \cup KeysOf(key, s.recv, s.received, until)
              /\ Distinct(s.stored)
                 /\ (\A e \in Entries(s.stored) : e.chain = s.recv => e.n < s.received)
                    => Distinct(q)
<1> DEFINE a == s.stored
           b == Skipped(s, key, until)
           q == a \o b
           from == s.received
           chain == s.recv
<1>1. a \in Seq(EntryType) /\ from \in Nat /\ chain \in ChainType /\ Len(a) \in Nat
  BY DEF StateType
<1>2. b = [i \in 1..(until - from) |-> [key |-> key, n |-> from + i - 1, chain |-> chain]]
  BY DEF Skipped
<1> HIDE DEF a, b, from, chain
<1>3. \A i \in 1..(until - from) :
         [key |-> key, n |-> from + i - 1, chain |-> chain] \in EntryType
  BY <1>1 DEF EntryType
<1>4. until - from \in Nat
  BY <1>1 DEF from
<1>5. b \in Seq(EntryType) /\ Len(b) = until - from /\ Len(b) \in Nat
  BY <1>2, <1>3, <1>4
<1>6. \A i \in 1..Len(b) : b[i].key = key /\ b[i].n = from + i - 1 /\ b[i].chain = chain
  BY <1>2, <1>5
<1>7. q \in Seq(EntryType) /\ Len(q) = Len(a) + Len(b) /\ DOMAIN q = 1..Len(q)
  BY <1>1, <1>5
<1>8. /\ \A i \in 1..Len(a) : q[i] = a[i] /\ i \in 1..Len(q)
      /\ \A i \in 1..Len(b) : q[Len(a) + i] = b[i] /\ Len(a) + i \in 1..Len(q)
  BY <1>1, <1>5, <1>7
<1>9. \A i \in 1..Len(q) : i \in 1..Len(a) \/ (i > Len(a) /\ i - Len(a) \in 1..Len(b))
  BY <1>1, <1>5, <1>7
<1> HIDE DEF q
<1>10. ASSUME NEW i \in 1..Len(q), i > Len(a)
       PROVE  /\ q[i].key = key /\ q[i].n = from + (i - Len(a)) - 1 /\ q[i].chain = chain
              /\ q[i].n >= from /\ q[i].n < until /\ q[i] \in EntryType
  <2>1. i - Len(a) \in 1..Len(b)
    BY <1>1, <1>9, <1>10
  <2>2. q[i] = b[i - Len(a)]
    <3>1. Len(a) + (i - Len(a)) = i
      BY <1>1, <1>7
    <3>2. QED
      BY <1>8, <2>1, <3>1
  <2>3. QED
    BY <1>1, <1>5, <1>6, <2>1, <2>2
<1>11. Entries(q) \subseteq Entries(a) \cup KeysOf(key, chain, from, until)
  <2>1. ASSUME NEW i \in 1..Len(q) PROVE q[i] \in Entries(a) \cup KeysOf(key, chain, from, until)
    <3>1. CASE i \in 1..Len(a)
      BY <1>1, <1>8, <3>1 DEF Entries
    <3>2. CASE i > Len(a)
      BY <1>10, <3>2 DEF KeysOf
    <3>3. QED
      BY <1>9, <3>1, <3>2
  <2>2. QED
    BY <1>7, <2>1 DEF Entries
<1>12. Entries(a) \subseteq Entries(q)
  BY <1>1, <1>7, <1>8 DEF Entries
<1>13. KeysOf(key, chain, from, until) \subseteq Entries(q)
  <2>1. ASSUME NEW e \in EntryType, e.key = key, e.chain = chain, e.n >= from, e.n < until
        PROVE  e \in Entries(q)
    <3> DEFINE i == Len(a) + (e.n - from) + 1
    <3>1. e.n \in Nat /\ e.n >= from /\ e.n < until
      BY <2>1 DEF EntryType
    <3>2. Len(q) = Len(a) + (until - from)
      BY <1>5, <1>7
    <3>0. /\ i \in 1..(Len(a) + (until - from)) /\ i > Len(a)
          /\ from + (i - Len(a)) - 1 = e.n
      BY <1>1, <3>1, PlaceOf
    <3> HIDE DEF i
    <3>3. q[i].key = e.key /\ q[i].n = e.n /\ q[i].chain = e.chain /\ q[i] \in EntryType
      BY <1>10, <2>1, <3>0, <3>2
    <3>4. q[i] = e
      BY <3>3 DEF EntryType
    <3>5. QED
      BY <1>7, <3>0, <3>2, <3>4 DEF Entries
  <2>2. QED
    BY <2>1 DEF KeysOf
<1>14. ASSUME Distinct(a), \A e \in Entries(a) : e.chain = chain => e.n < from
       PROVE  Distinct(q)
  <2>1. ASSUME NEW i \in 1..Len(q), NEW j \in 1..Len(q), q[i].chain = q[j].chain, q[i].n = q[j].n
        PROVE  i = j
    <3>0. DOMAIN a = 1..Len(a)
      BY <1>1
    <3>1. CASE i \in 1..Len(a) /\ j \in 1..Len(a)
      <4>1. a[i].chain = a[j].chain /\ a[i].n = a[j].n
        BY <1>8, <2>1, <3>1
      <4>2. QED
        BY <1>14, <3>0, <3>1, <4>1 DEF Distinct
    <3>2. ASSUME NEW k \in 1..Len(a), NEW l \in 1..Len(q), l > Len(a),
                 q[k].chain = q[l].chain, q[k].n = q[l].n
          PROVE  FALSE
      <4>1. q[k] \in Entries(a)
        BY <1>8, <3>0, <3>2 DEF Entries
      <4>2. q[l].chain = chain /\ q[l].n >= from /\ q[l] \in EntryType
        BY <1>10, <3>2
      <4>3. q[k].n < from
        BY <1>14, <3>2, <4>1, <4>2
      <4>4. q[l].n \in Nat
        BY <4>2 DEF EntryType
      <4>5. QED
        BY <1>1, <3>2, <4>2, <4>3, <4>4
    <3>3. CASE i > Len(a) /\ j > Len(a)
      <4>1. from + (i - Len(a)) - 1 = from + (j - Len(a)) - 1
        BY <1>10, <2>1, <3>3
      <4>2. QED
        BY <1>1, <1>7, <4>1
    <3>4. QED
      BY <1>9, <2>1, <3>1, <3>2, <3>3
  <2>2. QED
    BY <1>7, <2>1 DEF Distinct
<1>15. QED
  BY <1>7, <1>11, <1>12, <1>13, <1>14 DEF a, b, q, from, chain

\* No key is stored twice, and the keys of the receiving chain are behind it.
WellStored(s) ==
    /\ Distinct(s.stored) /\ Len(s.stored) =< MaxStored
    /\ \A e \in Entries(s.stored) : e.chain = s.recv => e.n < s.received

LEMMA SkippedState ==
    ASSUME NEW s \in StateType, NEW key \in Pair, NEW until \in Nat
    PROVE  LET t   == SkipKeys(s, key, until)
               new == KeysOf(key, s.recv, s.received, until)
           IN /\ t \in StateType
              /\ t.root = s.root /\ t.send = s.send /\ t.recv = s.recv /\ t.sent = s.sent
              /\ t.prev = s.prev /\ t.key = s.key /\ t.remote = s.remote
              /\ t.received = IF until > s.received THEN until ELSE s.received
              /\ Entries(t.stored) \subseteq Entries(s.stored) \cup new
              /\ Entries(s.stored) \cup new \subseteq Entries(t.stored) \cup t.dropped
              /\ s.dropped \subseteq t.dropped
              /\ WellStored(s) => WellStored(t)
<1> DEFINE t == SkipKeys(s, key, until)
           new == KeysOf(key, s.recv, s.received, until)
           q == s.stored \o Skipped(s, key, until)
           k == Kept(q)
           old == {q[i] : i \in 1..Oldest(q)}
           d == s.dropped \cup old
<1>1. s.received \in Nat /\ s.stored \in Seq(EntryType) /\ s.dropped \in SUBSET EntryType
  BY DEF StateType
<1>2. CASE until =< s.received
  <2>1. t = s
    BY <1>2 DEF SkipKeys
  <2>2. new = {}
    <3>1. ASSUME NEW e \in EntryType, e.n >= s.received, e.n < until PROVE FALSE
      <4>1. e.n \in Nat
        BY DEF EntryType
      <4>2. QED
        BY <1>1, <1>2, <3>1, <4>1
    <3>2. QED
      BY <3>1 DEF KeysOf
  <2>3. ~(until > s.received)
    BY <1>1, <1>2
  <2> HIDE DEF t, new
  <2>4. QED
    BY <2>1, <2>2, <2>3 DEF t, new
<1>3. CASE until > s.received
  <2>0. ~(until =< s.received)
    BY <1>1, <1>3
  <2>1. t = [s EXCEPT !.stored = k, !.received = until, !.dropped = d]
    BY <2>0, Zenon DEF SkipKeys
  <2>2. /\ q \in Seq(EntryType) /\ Entries(q) = Entries(s.stored) \cup new
        /\ Distinct(s.stored)
           /\ (\A e \in Entries(s.stored) : e.chain = s.recv => e.n < s.received) => Distinct(q)
    BY <1>3, SkippedStore
  <2> HIDE DEF q
  <2>3. /\ k \in Seq(EntryType) /\ Len(k) =< MaxStored /\ Entries(k) \subseteq Entries(q)
        /\ old \subseteq Entries(q) /\ Entries(q) \subseteq Entries(k) \cup old
        /\ Distinct(q) => Distinct(k)
    BY <2>2, KeptStore
  <2>4. Entries(q) \subseteq EntryType
    BY <2>2 DEF Entries
  <2>5. d \in SUBSET EntryType
    BY <1>1, <2>3, <2>4
  <2> HIDE DEF k, old
  <2>6. old \subseteq d /\ s.dropped \subseteq d
    OBVIOUS
  <2> HIDE DEF d
  <2>7. /\ t \in StateType /\ t.stored = k /\ t.received = until /\ t.dropped = d
        /\ t.root = s.root /\ t.send = s.send /\ t.recv = s.recv /\ t.sent = s.sent
        /\ t.prev = s.prev /\ t.key = s.key /\ t.remote = s.remote
    BY <2>1, <2>3, <2>5 DEF StateType
  <2>8. ASSUME WellStored(s) PROVE WellStored(t)
    <3>1. Distinct(k)
      BY <2>2, <2>3, <2>8 DEF WellStored
    <3>2. ASSUME NEW e \in Entries(k), e.chain = s.recv PROVE e.n < until
      <4>1. e \in Entries(s.stored) \cup new /\ e \in EntryType
        BY <2>2, <2>3, <2>4
      <4>2. CASE e \in new
        BY <4>2 DEF KeysOf
      <4>3. CASE e \in Entries(s.stored)
        <5>1. e.n < s.received /\ e.n \in Nat
          BY <2>8, <3>2, <4>1, <4>3 DEF WellStored, EntryType
        <5>2. QED
          BY <1>1, <1>3, <5>1
      <4>4. QED
        BY <4>1, <4>2, <4>3
    <3>3. QED
      BY <2>3, <2>7, <3>1, <3>2 DEF WellStored
  <2> HIDE DEF t, new
  <2>9. QED
    BY <1>3, <2>2, <2>3, <2>6, <2>7, <2>8 DEF t, new
<1>4. QED
  BY <1>1, <1>2, <1>3

\* The key found first is taken away, the others stay.
LEMMA RemovedStore ==
    ASSUME NEW q \in Seq(EntryType), NEW m \in MessageType, Found(q, m) # {}
    PROVE  LET e == q[First(q, m)]
               r == Removed(q, m)
           IN /\ e \in Entries(q) /\ e \in EntryType /\ e.key = m.key /\ e.n = m.n
              /\ r \in Seq(EntryType) /\ Len(r) =< Len(q)
              /\ Entries(r) \subseteq Entries(q) /\ Entries(q) \subseteq Entries(r) \cup {e}
              /\ Distinct(q) => /\ Distinct(r)
                                /\ \A f \in Entries(r) : ~(f.chain = e.chain /\ f.n = e.n)
<1> DEFINE F == Found(q, m)
           p == First(q, m)
           r == Removed(q, m)
<1>1. Len(q) \in Nat /\ DOMAIN q = 1..Len(q)
  OBVIOUS
<1>2. F \in SUBSET Nat /\ F \subseteq 1..Len(q)
  BY <1>1 DEF Found
<1>3. \E i \in F : \A j \in F : i =< j
  BY <1>2, LeastNumber
<1>4. p \in F
  BY <1>3 DEF First
<1>5. p \in 1..Len(q) /\ q[p] \in EntryType /\ q[p].key = m.key /\ q[p].n = m.n
  BY <1>1, <1>2, <1>4 DEF Found
<1>6. r = [i \in 1..Len(q) - 1 |-> q[IF i < p THEN i ELSE i + 1]]
  BY DEF Removed
<1> HIDE DEF F, p, r
<1>7. Len(q) - 1 \in Nat
  BY <1>1, <1>5
<1>8. \A i \in 1..Len(q) - 1 : (IF i < p THEN i ELSE i + 1) \in 1..Len(q)
  BY <1>1, <1>5
<1>9. r \in Seq(EntryType) /\ Len(r) = Len(q) - 1 /\ DOMAIN r = 1..Len(q) - 1
  BY <1>1, <1>6, <1>7, <1>8
<1> DEFINE at(i) == IF i < p THEN i ELSE i + 1
<1>10. /\ \A i \in DOMAIN r : r[i] = q[at(i)] /\ at(i) \in 1..Len(q) /\ at(i) # p
       /\ \A i, j \in DOMAIN r : at(i) = at(j) => i = j
  BY <1>1, <1>5, <1>6, <1>8, <1>9
<1>11. \A j \in 1..Len(q) : j # p => \E i \in DOMAIN r : at(i) = j
  <2>1. ASSUME NEW j \in 1..Len(q), j < p PROVE j \in DOMAIN r /\ at(j) = j
    BY <1>1, <1>5, <1>9, <2>1
  <2>2. ASSUME NEW j \in 1..Len(q), j > p PROVE j - 1 \in DOMAIN r /\ at(j - 1) = j
    BY <1>1, <1>5, <1>9, <2>2
  <2>3. \A j \in 1..Len(q) : j # p => j < p \/ j > p
    BY <1>1, <1>5
  <2> HIDE DEF at
  <2>4. QED
    BY <2>1, <2>2, <2>3
<1> HIDE DEF at
<1>12. Entries(r) \subseteq Entries(q)
  BY <1>1, <1>10 DEF Entries
<1>13. Entries(q) \subseteq Entries(r) \cup {q[p]}
  BY <1>1, <1>10, <1>11 DEF Entries
<1>14. ASSUME Distinct(q)
       PROVE  /\ Distinct(r)
              /\ \A f \in Entries(r) : ~(f.chain = q[p].chain /\ f.n = q[p].n)
  <2>1. Distinct(r)
    BY <1>1, <1>10, <1>14 DEF Distinct
  <2>2. \A i \in DOMAIN r : ~(r[i].chain = q[p].chain /\ r[i].n = q[p].n)
    BY <1>1, <1>5, <1>10, <1>14 DEF Distinct
  <2>3. QED
    BY <2>1, <2>2 DEF Entries
<1>15. q[p] \in Entries(q) /\ Len(r) =< Len(q)
  BY <1>1, <1>5, <1>9 DEF Entries
<1>16. QED
  BY <1>5, <1>9, <1>12, <1>13, <1>14, <1>15 DEF p, r
-----------------------------------------------------------------------------
(* No message key is used twice *)

\* A state whose chains come from roots no longer than its own, and whose stored keys
\* come from chains it has left or gone past.
Sound(s) ==
    /\ s \in StateType /\ WellStored(s)
    /\ s.send = Chain(s.root, s.key[1])
    /\ Len(s.recv.root) =< Len(s.root)
    /\ \A e \in Entries(s.stored) : Len(e.chain.root) =< Len(s.recv.root)

\* Neither the chains of the state nor its store yield the key of a message any more.
UsedUp(s, m) ==
    /\ Len(m.chain.root) =< Len(s.recv.root)
    /\ m.chain = s.recv => m.n < s.received
    /\ \A e \in Entries(s.stored) : ~(e.chain = m.chain /\ e.n = m.n)

\* The receiving chain after the message with key m.n.
Advanced(s, m) == [SkipKeys(s, m.key, m.n) EXCEPT !.received = m.n + 1]

LEMMA MessageFields ==
    ASSUME NEW m \in MessageType
    PROVE  /\ m.id \in Nat /\ m.by \in Device /\ m.key \in Pair /\ m.n \in Nat /\ m.prev \in Nat
           /\ m.chain \in ChainType /\ m.chain.root \in Root /\ Len(m.chain.root) \in Nat
           /\ m.chain.by \in Device
BY DEF MessageType, ChainType, Root

LEMMA StateFields ==
    ASSUME NEW s \in StateType
    PROVE  /\ s.root \in Root /\ Len(s.root) \in Nat /\ s.recv \in ChainType
           /\ s.recv.root \in Root /\ Len(s.recv.root) \in Nat /\ s.send \in ChainType
           /\ s.sent \in Nat /\ s.received \in Nat /\ s.prev \in Nat /\ s.key \in Pair
           /\ s.remote \in Pair \cup {NoKey} /\ s.stored \in Seq(EntryType)
           /\ Entries(s.stored) \subseteq EntryType /\ s.dropped \subseteq EntryType
<1>1. /\ s.root \in Root /\ s.recv \in ChainType /\ s.send \in ChainType
      /\ s.sent \in Nat /\ s.received \in Nat /\ s.prev \in Nat /\ s.key \in Pair
      /\ s.remote \in Pair \cup {NoKey} /\ s.stored \in Seq(EntryType)
      /\ s.dropped \subseteq EntryType
  BY DEF StateType
<1>2. s.recv.root \in Root
  BY <1>1 DEF ChainType
<1>3. Entries(s.stored) \subseteq EntryType
  BY <1>1 DEF Entries
<1>4. Len(s.root) \in Nat /\ Len(s.recv.root) \in Nat
  BY <1>1, <1>2 DEF Root
<1>5. QED
  BY <1>1, <1>2, <1>3, <1>4

LEMMA EntryFields ==
    ASSUME NEW e \in EntryType
    PROVE  /\ e.key \in Pair /\ e.n \in Nat /\ e.chain \in ChainType
           /\ e.chain.root \in Root /\ Len(e.chain.root) \in Nat
BY DEF EntryType, ChainType, Root

LEMMA AdvancedState ==
    ASSUME NEW s \in StateType, NEW m \in MessageType, m.n >= s.received
    PROVE  LET t   == Advanced(s, m)
               new == KeysOf(m.key, s.recv, s.received, m.n)
           IN /\ t \in StateType
              /\ t.root = s.root /\ t.send = s.send /\ t.recv = s.recv /\ t.sent = s.sent
              /\ t.prev = s.prev /\ t.key = s.key /\ t.remote = s.remote
              /\ t.received = m.n + 1
              /\ Entries(t.stored) \subseteq Entries(s.stored) \cup new
              /\ Entries(s.stored) \cup new \subseteq Entries(t.stored) \cup t.dropped
              /\ s.dropped \subseteq t.dropped
              /\ WellStored(s) => WellStored(t)
<1> DEFINE t == Advanced(s, m)
           c == SkipKeys(s, m.key, m.n)
           new == KeysOf(m.key, s.recv, s.received, m.n)
           r == m.n + 1
<1>1. m.key \in Pair /\ m.n \in Nat /\ r \in Nat /\ s.received \in Nat
  BY MessageFields, StateFields
<1>2. /\ c \in StateType
      /\ c.root = s.root /\ c.send = s.send /\ c.recv = s.recv /\ c.sent = s.sent
      /\ c.prev = s.prev /\ c.key = s.key /\ c.remote = s.remote
      /\ c.received = IF m.n > s.received THEN m.n ELSE s.received
      /\ Entries(c.stored) \subseteq Entries(s.stored) \cup new
      /\ Entries(s.stored) \cup new \subseteq Entries(c.stored) \cup c.dropped
      /\ s.dropped \subseteq c.dropped
      /\ WellStored(s) => WellStored(c)
  BY <1>1, SkippedState
<1>3. t = [c EXCEPT !.received = r]
  BY DEF Advanced
<1>4. c.received = m.n /\ m.n < r
  BY <1>1, <1>2
<1> HIDE DEF c, r
<1>5. /\ t \in StateType
      /\ t.root = c.root /\ t.send = c.send /\ t.recv = c.recv /\ t.sent = c.sent
      /\ t.prev = c.prev /\ t.key = c.key /\ t.remote = c.remote
      /\ t.received = r /\ t.stored = c.stored /\ t.dropped = c.dropped
  BY <1>1, <1>2, <1>3 DEF StateType
<1>6. ASSUME WellStored(s) PROVE WellStored(t)
  <2>1. WellStored(c)
    BY <1>2, <1>6
  <2>2. ASSUME NEW e \in Entries(c.stored), e.chain = c.recv PROVE e.n < r
    <3>1. e.n < m.n
      BY <1>4, <2>1, <2>2 DEF WellStored
    <3>2. e.n \in Nat
      BY <1>2, StateFields, EntryFields
    <3>3. QED
      BY <1>1, <1>4, <3>1, <3>2
  <2>3. QED
    BY <1>5, <2>1, <2>2 DEF WellStored
<1> HIDE DEF t, new
<1>7. QED
  BY <1>2, <1>5, <1>6 DEF t, new, r

\* Reading on uses up the keys up to the one read, and no key comes back.
LEMMA AdvancedUses ==
    ASSUME NEW s, Sound(s), NEW m \in MessageType, m.n >= s.received
    PROVE  LET t == Advanced(s, m)
           IN /\ Sound(t)
              /\ \A o \in MessageType : UsedUp(s, o) => UsedUp(t, o)
              /\ m.chain = s.recv => UsedUp(t, m) /\ ~UsedUp(s, m)
<1> DEFINE t == Advanced(s, m)
           new == KeysOf(m.key, s.recv, s.received, m.n)
<1>0. s \in StateType
  BY DEF Sound
<1>1. /\ t \in StateType
      /\ t.root = s.root /\ t.send = s.send /\ t.recv = s.recv /\ t.key = s.key
      /\ t.received = m.n + 1
      /\ Entries(t.stored) \subseteq Entries(s.stored) \cup new
      /\ WellStored(s) => WellStored(t)
  BY <1>0, AdvancedState
<1> HIDE DEF t
<1>2. /\ s.received \in Nat /\ m.n \in Nat /\ Len(s.recv.root) \in Nat
      /\ Entries(s.stored) \subseteq EntryType
  BY <1>0, StateFields, MessageFields
<1>3. \A e \in new : e.chain = s.recv /\ e.n >= s.received /\ e.n < m.n /\ e.n \in Nat
  BY DEF KeysOf, EntryType
<1>4. Sound(t)
  <2>1. \A e \in Entries(t.stored) : Len(e.chain.root) =< Len(t.recv.root)
    BY <1>1, <1>2, <1>3 DEF Sound
  <2>2. QED
    BY <1>1, <2>1 DEF Sound
<1>5. ASSUME NEW o \in MessageType, UsedUp(s, o) PROVE UsedUp(t, o)
  <2>1. o.n \in Nat
    BY MessageFields
  <2>2. o.chain = s.recv => o.n < m.n + 1
    BY <1>2, <1>5, <2>1 DEF UsedUp
  <2>3. \A e \in new : ~(e.chain = o.chain /\ e.n = o.n)
    BY <1>2, <1>3, <1>5, <2>1 DEF UsedUp
  <2>4. QED
    BY <1>1, <1>5, <2>2, <2>3 DEF UsedUp
<1>6. ASSUME m.chain = s.recv PROVE UsedUp(t, m) /\ ~UsedUp(s, m)
  <2>1. ~UsedUp(s, m)
    BY <1>2, <1>6 DEF UsedUp
  <2>2. \A e \in Entries(s.stored) : ~(e.chain = m.chain /\ e.n = m.n)
    <3>1. ASSUME NEW e \in Entries(s.stored), e.chain = m.chain PROVE e.n # m.n
      <4>1. e.n < s.received /\ e.n \in Nat
        BY <1>2, <1>6, <3>1, EntryFields DEF Sound, WellStored
      <4>2. QED
        BY <1>2, <4>1
    <3>2. QED
      BY <3>1
  <2>3. \A e \in new : ~(e.chain = m.chain /\ e.n = m.n)
    BY <1>2, <1>3
  <2>4. m.n < m.n + 1 /\ Len(m.chain.root) =< Len(s.recv.root)
    BY <1>2, <1>6
  <2>5. UsedUp(t, m)
    BY <1>1, <2>2, <2>3, <2>4 DEF UsedUp
  <2>6. QED
    BY <2>1, <2>5
<1>7. QED
  BY <1>4, <1>5, <1>6 DEF t

\* Closing the receiving chain before a ratchet step keeps the keys it still owes.
LEMMA ClosedState ==
    ASSUME NEW s \in StateType, NEW m \in MessageType
    PROVE  LET t   == CloseChain(s, m)
               new == KeysOf(s.remote, s.recv, s.received, m.prev)
           IN /\ t \in StateType
              /\ t.root = s.root /\ t.send = s.send /\ t.recv = s.recv /\ t.sent = s.sent
              /\ t.prev = s.prev /\ t.key = s.key /\ t.remote = s.remote
              /\ Entries(t.stored) \subseteq Entries(s.stored) \cup new
              /\ Entries(s.stored) \subseteq Entries(t.stored) \cup t.dropped
              /\ s.remote # NoKey => new \subseteq Entries(t.stored) \cup t.dropped
              /\ s.dropped \subseteq t.dropped
              /\ WellStored(s) => WellStored(t)
<1>1. s.remote \in Pair \cup {NoKey} /\ m.prev \in Nat
  BY StateFields, MessageFields
<1>2. CASE s.remote = NoKey
  <2>1. CloseChain(s, m) = s
    BY <1>2 DEF CloseChain
  <2>2. QED
    BY <1>2, <2>1
<1>3. CASE s.remote # NoKey
  <2>1. CloseChain(s, m) = SkipKeys(s, s.remote, m.prev)
    BY <1>3 DEF CloseChain
  <2>2. s.remote \in Pair
    BY <1>1, <1>3
  <2> DEFINE t   == SkipKeys(s, s.remote, m.prev)
             new == KeysOf(s.remote, s.recv, s.received, m.prev)
  <2>3. /\ t \in StateType
        /\ t.root = s.root /\ t.send = s.send /\ t.recv = s.recv /\ t.sent = s.sent
        /\ t.prev = s.prev /\ t.key = s.key /\ t.remote = s.remote
        /\ Entries(t.stored) \subseteq Entries(s.stored) \cup new
        /\ Entries(s.stored) \cup new \subseteq Entries(t.stored) \cup t.dropped
        /\ s.dropped \subseteq t.dropped
        /\ WellStored(s) => WellStored(t)
    BY <1>1, <2>2, SkippedState
  <2> HIDE DEF t, new
  <2>4. CloseChain(s, m) = t
    BY <2>1 DEF t
  <2>5. QED
    BY <2>3, <2>4 DEF new
<1>4. QED
  BY <1>2, <1>3

\* The state after a ratchet step.
LEMMA SteppedState ==
    ASSUME NEW s \in StateType, NEW m \in MessageType
    PROVE  LET t     == RatchetStep(s, m)
               c     == CloseChain(s, m)
               root1 == NextRoot(s.root, DH(s.key, m.key))
               root2 == NextRoot(root1, DH(FreshKey(s), m.key))
           IN /\ t \in StateType
              /\ t.root = root2 /\ t.send = Chain(root2, s.key[1])
              /\ t.recv = Chain(root1, Other(s.key[1])) /\ t.sent = 0 /\ t.received = 0
              /\ t.prev = s.sent /\ t.key = FreshKey(s) /\ t.remote = m.key
              /\ t.stored = c.stored /\ t.dropped = c.dropped
              /\ root1 \in Root /\ Len(root1) = Len(s.root) + 1
              /\ root2 \in Root /\ Len(root2) = Len(s.root) + 2
<1> DEFINE c     == CloseChain(s, m)
           t     == RatchetStep(s, m)
           u     == s.key[1]
           root1 == NextRoot(s.root, DH(s.key, m.key))
           root2 == NextRoot(root1, DH(FreshKey(s), m.key))
           recv  == Chain(root1, Other(u))
           send  == Chain(root2, u)
           key   == FreshKey(s)
<1>1. t = [c EXCEPT !.prev = s.sent, !.sent = 0, !.received = 0, !.recv = recv,
                    !.send = send, !.root = root2, !.key = key, !.remote = m.key]
  BY Zenon DEF RatchetStep
<1>2. c \in StateType
  BY ClosedState
<1>3. key \in Pair /\ u \in Device /\ m.key \in Pair /\ s.key \in Pair /\ s.root \in Root
  BY FreshKeys, MessageFields, StateFields
<1>4. root1 \in Root /\ Len(root1) = Len(s.root) + 1
  BY <1>3, NextRootIsLonger
<1> HIDE DEF root1
<1>5. root2 \in Root /\ Len(root2) = Len(root1) + 1
  BY <1>3, <1>4, NextRootIsLonger
<1> HIDE DEF root2
<1>6. recv \in ChainType /\ send \in ChainType
  BY <1>3, <1>4, <1>5, ChainFields, OtherDevice
<1>7. s.sent \in Nat /\ Len(s.root) \in Nat
  BY StateFields
<1> DEFINE q == s.sent
           k == m.key
           z == 0
<1>8. z \in Nat
  OBVIOUS
<1> HIDE DEF c, recv, send, key, t, q, k, z
<1>9. t = [c EXCEPT !.prev = q, !.sent = z, !.received = z, !.recv = recv,
                    !.send = send, !.root = root2, !.key = key, !.remote = k]
  BY <1>1 DEF q, k, z
<1>10. q \in Nat /\ k \in Pair
  BY <1>3, <1>7 DEF q, k
<1>11. /\ t \in StateType
       /\ t.root = root2 /\ t.send = send /\ t.recv = recv /\ t.sent = z /\ t.received = z
       /\ t.prev = q /\ t.key = key /\ t.remote = k
       /\ t.stored = c.stored /\ t.dropped = c.dropped
  BY <1>2, <1>3, <1>5, <1>6, <1>8, <1>9, <1>10 DEF StateType
<1>12. Len(root2) = Len(s.root) + 2
  BY <1>4, <1>5, <1>7
<1>13. QED
  BY <1>4, <1>5, <1>11, <1>12 DEF c, recv, send, key, t, q, k, z, root1, root2

\* After a ratchet step no used key is to be had, and the new chain is fresh.
LEMMA SteppedUses ==
    ASSUME NEW s, Sound(s), NEW m \in MessageType
    PROVE  LET t == RatchetStep(s, m)
           IN /\ Sound(t) /\ t.key[1] = s.key[1] /\ Len(t.root) > Len(s.root)
              /\ \A o \in MessageType : UsedUp(s, o) => UsedUp(t, o) /\ o.chain # t.recv
<1> DEFINE t   == RatchetStep(s, m)
           c   == CloseChain(s, m)
           u   == s.key[1]
           new == KeysOf(s.remote, s.recv, s.received, m.prev)
<1>0. s \in StateType
  BY DEF Sound
<1>1. /\ c \in StateType /\ c.recv = s.recv
      /\ Entries(c.stored) \subseteq Entries(s.stored) \cup new
      /\ WellStored(s) => WellStored(c)
  BY <1>0, ClosedState
<1>2. \E r1, r2 \in Root :
         /\ t \in StateType
         /\ t.root = r2 /\ t.send = Chain(r2, u)
         /\ t.recv = Chain(r1, Other(u)) /\ t.received = 0
         /\ t.key = FreshKey(s) /\ t.stored = c.stored
         /\ Len(r1) = Len(s.root) + 1 /\ Len(r2) = Len(s.root) + 2
  BY <1>0, SteppedState
<1> HIDE DEF t, c
<1>3. u \in Device /\ Other(u) \in Device /\ FreshKey(s)[1] = u
  BY <1>0, FreshKeys, OtherDevice
<1>4. /\ t \in StateType /\ t.root \in Root /\ t.send = Chain(t.root, u) /\ t.key[1] = u
      /\ t.received = 0 /\ t.stored = c.stored
      /\ t.recv.root \in Root /\ Len(t.recv.root) = Len(s.root) + 1
      /\ Len(t.root) = Len(s.root) + 2
  BY <1>2, <1>3, ChainFields
<1>5. /\ Len(s.root) \in Nat /\ Len(s.recv.root) \in Nat /\ s.received \in Nat
      /\ Entries(s.stored) \subseteq EntryType
  BY <1>0, StateFields
<1>6. \A e \in new : e.chain = s.recv /\ e.n >= s.received /\ e.n \in Nat
  BY DEF KeysOf, EntryType
<1>7. ASSUME NEW e \in Entries(t.stored) PROVE Len(e.chain.root) =< Len(s.root)
  <2>1. e \in Entries(s.stored) \cup new
    BY <1>1, <1>4
  <2>2. CASE e \in new
    BY <1>6, <2>2 DEF Sound
  <2>3. CASE e \in Entries(s.stored)
    <3>1. Len(e.chain.root) =< Len(s.recv.root) /\ Len(s.recv.root) =< Len(s.root)
      BY <2>3 DEF Sound
    <3>2. Len(e.chain.root) \in Nat
      BY <1>5, <2>3, EntryFields
    <3>3. QED
      BY <1>5, <3>1, <3>2
  <2>4. QED
    BY <2>1, <2>2, <2>3
<1>8. ASSUME NEW e \in Entries(t.stored)
      PROVE  e.chain # t.recv /\ Len(e.chain.root) =< Len(t.recv.root)
  <2>1. Len(e.chain.root) \in Nat
    BY <1>4, <1>8, StateFields, EntryFields
  <2>2. QED
    BY <1>4, <1>5, <1>7, <1>8, <2>1
<1>9. Distinct(t.stored) /\ Len(t.stored) =< MaxStored
  BY <1>1, <1>4 DEF Sound, WellStored
<1>10. Len(t.recv.root) =< Len(t.root) /\ Len(t.root) > Len(s.root)
  BY <1>4, <1>5
<1>11. Sound(t)
  BY <1>4, <1>8, <1>9, <1>10 DEF Sound, WellStored
<1>12. ASSUME NEW o \in MessageType, UsedUp(s, o) PROVE UsedUp(t, o) /\ o.chain # t.recv
  <2>1. o.n \in Nat /\ Len(o.chain.root) \in Nat
    BY MessageFields
  <2>2. Len(o.chain.root) =< Len(s.root)
    BY <1>5, <1>12, <2>1 DEF Sound, UsedUp
  <2>3. o.chain # t.recv /\ Len(o.chain.root) =< Len(t.recv.root)
    BY <1>4, <1>5, <2>1, <2>2
  <2>4. \A e \in new : ~(e.chain = o.chain /\ e.n = o.n)
    BY <1>5, <1>6, <1>12, <2>1 DEF UsedUp
  <2>5. \A e \in Entries(t.stored) : ~(e.chain = o.chain /\ e.n = o.n)
    BY <1>1, <1>4, <1>12, <2>4 DEF UsedUp
  <2>6. QED
    BY <2>3, <2>5 DEF UsedUp
<1>13. QED
  BY <1>4, <1>10, <1>11, <1>12 DEF t

LEMMA OpensMessage ==
    ASSUME NEW chain, NEW m, NEW intact \in BOOLEAN
    PROVE  /\ Opens(chain, m, intact) \in {"read", "failed"}
           /\ Opens(chain, m, intact) = "read" => intact /\ chain = m.chain
           /\ intact /\ chain = m.chain => Opens(chain, m, intact) = "read"
BY Zenon DEF Opens

\* What decrypting with the receiving chain does.
LEMMA CurrentChain ==
    ASSUME NEW s \in StateType, NEW m \in MessageType, NEW intact \in BOOLEAN
    PROVE  LET d == DecryptCurrent(s, m, intact)
           IN /\ m.n < s.received => d.state = s /\ d.result = "expired"
              /\ m.n >= s.received /\ TooFar(s, m.n) => d.state = s /\ d.result = "too far"
              /\ m.n >= s.received /\ ~TooFar(s, m.n) =>
                    d.state = Advanced(s, m) /\ d.result = Opens(s.recv, m, intact)
<1>1. m.n \in Nat /\ s.received \in Nat
  BY MessageFields, StateFields
<1>2. ASSUME NEW a, NEW b PROVE Outcome(a, b).state = a /\ Outcome(a, b).result = b
  BY DEF Outcome
<1>3. m.n < s.received => DecryptCurrent(s, m, intact) = Outcome(s, "expired")
  BY Zenon DEF DecryptCurrent
<1>4. ~(m.n < s.received) /\ TooFar(s, m.n) =>
         DecryptCurrent(s, m, intact) = Outcome(s, "too far")
  BY Zenon DEF DecryptCurrent
<1>5. ~(m.n < s.received) /\ ~TooFar(s, m.n) =>
         DecryptCurrent(s, m, intact) = Outcome(Advanced(s, m), Opens(s.recv, m, intact))
  BY Zenon DEF DecryptCurrent, Advanced
<1>6. (m.n >= s.received) <=> ~(m.n < s.received)
  BY <1>1
<1> DEFINE d == DecryptCurrent(s, m, intact)
<1>7. m.n < s.received => d.state = s /\ d.result = "expired"
  BY ZenonT(30), <1>2, <1>3
<1>8. ~(m.n < s.received) /\ TooFar(s, m.n) => d.state = s /\ d.result = "too far"
  BY ZenonT(30), <1>2, <1>4
<1>9. ~(m.n < s.received) /\ ~TooFar(s, m.n) =>
         d.state = Advanced(s, m) /\ d.result = Opens(s.recv, m, intact)
  <2> DEFINE a == Advanced(s, m)
             b == Opens(s.recv, m, intact)
  <2> HIDE DEF a, b
  <2>1. ~(m.n < s.received) /\ ~TooFar(s, m.n) => d = Outcome(a, b)
    BY <1>5 DEF a, b
  <2>2. Outcome(a, b).state = a /\ Outcome(a, b).result = b
    BY <1>2
  <2> HIDE DEF d
  <2>3. QED
    BY <2>1, <2>2 DEF a, b
<1> HIDE DEF d
<1>10. QED
  BY <1>6, <1>7, <1>8, <1>9 DEF d

\* What decrypting with the receiving chain leaves, and what it says of the key used.
LEMMA CurrentUses ==
    ASSUME NEW s, Sound(s), NEW m \in MessageType, NEW intact \in BOOLEAN
    PROVE  LET d == DecryptCurrent(s, m, intact)
           IN /\ Sound(d.state) /\ d.state.key = s.key /\ d.state.root = s.root
              /\ d.state.send = s.send /\ d.state.sent = s.sent
              /\ \A o \in MessageType : UsedUp(s, o) => UsedUp(d.state, o)
              /\ d.result = "read" =>
                    m.chain = s.recv /\ UsedUp(d.state, m) /\ ~UsedUp(s, m)
<1> DEFINE d == DecryptCurrent(s, m, intact)
<1>0. s \in StateType /\ m.n \in Nat /\ s.received \in Nat
  BY MessageFields, StateFields DEF Sound
<1>1. CASE m.n < s.received \/ TooFar(s, m.n)
  <2>1. d.state = s /\ (d.result = "expired" \/ d.result = "too far")
    <3>1. m.n < s.received => d.state = s /\ d.result = "expired"
      BY <1>0, CurrentChain
    <3>2. m.n >= s.received /\ TooFar(s, m.n) => d.state = s /\ d.result = "too far"
      BY <1>0, CurrentChain
    <3>3. m.n < s.received \/ m.n >= s.received
      BY <1>0
    <3> HIDE DEF d
    <3>4. QED
      BY <1>1, <3>1, <3>2, <3>3
  <2> HIDE DEF d
  <2>2. QED
    BY <2>1 DEF d
<1>2. CASE m.n >= s.received /\ ~TooFar(s, m.n)
  <2>1. d.state = Advanced(s, m) /\ d.result = Opens(s.recv, m, intact)
    BY <1>0, <1>2, CurrentChain
  <2>2. d.result = "read" => m.chain = s.recv
    BY <2>1, OpensMessage
  <2> DEFINE t == Advanced(s, m)
  <2>3. /\ Sound(t)
        /\ \A o \in MessageType : UsedUp(s, o) => UsedUp(t, o)
        /\ m.chain = s.recv => UsedUp(t, m) /\ ~UsedUp(s, m)
    BY <1>2, AdvancedUses
  <2>4. t.key = s.key /\ t.root = s.root /\ t.send = s.send /\ t.sent = s.sent
    BY <1>0, <1>2, AdvancedState
  <2> HIDE DEF d, t
  <2>5. d.state = t
    BY <2>1 DEF t
  <2>6. QED
    BY <2>2, <2>3, <2>4, <2>5 DEF d
<1>3. QED
  BY <1>0, <1>1, <1>2

\* The state after the reply key pair of a device that had not sent yet is made.
LEMMA RespondedState ==
    ASSUME NEW s \in StateType, NEW m \in MessageType
    PROVE  LET t    == FirstResponse(s, m)
               root == NextRoot(s.root, DH(FreshKey(s), m.key))
           IN /\ t \in StateType
              /\ t.root = root /\ t.send = Chain(root, s.key[1]) /\ t.recv = s.recv
              /\ t.sent = 0 /\ t.received = s.received /\ t.prev = s.sent
              /\ t.key = FreshKey(s) /\ t.remote = m.key
              /\ t.stored = s.stored /\ t.dropped = s.dropped
              /\ root \in Root /\ Len(root) = Len(s.root) + 1
<1> DEFINE t    == FirstResponse(s, m)
           root == NextRoot(s.root, DH(FreshKey(s), m.key))
           send == Chain(root, s.key[1])
           key  == FreshKey(s)
           q    == s.sent
           k    == m.key
           z    == 0
<1>1. t = [s EXCEPT !.prev = q, !.sent = z, !.key = key, !.remote = k,
                    !.root = root, !.send = send]
  BY Zenon DEF FirstResponse
<1>2. key \in Pair /\ s.key[1] \in Device /\ k \in Pair /\ s.root \in Root /\ q \in Nat /\ z \in Nat
  BY FreshKeys, MessageFields, StateFields
<1>3. root \in Root /\ Len(root) = Len(s.root) + 1
  BY <1>2, NextRootIsLonger
<1> HIDE DEF root
<1>4. send \in ChainType
  BY <1>2, <1>3, ChainFields
<1> HIDE DEF t, send, key, q, k, z
<1>5. /\ t \in StateType
      /\ t.root = root /\ t.send = send /\ t.recv = s.recv /\ t.sent = z
      /\ t.received = s.received /\ t.prev = q /\ t.key = key /\ t.remote = k
      /\ t.stored = s.stored /\ t.dropped = s.dropped
  BY <1>1, <1>2, <1>3, <1>4 DEF StateType
<1>6. QED
  BY <1>3, <1>5 DEF t, root, send, key, q, k, z

LEMMA RespondedUses ==
    ASSUME NEW s, Sound(s), NEW m \in MessageType
    PROVE  LET t == FirstResponse(s, m)
           IN /\ Sound(t) /\ t.key[1] = s.key[1] /\ Len(t.root) > Len(s.root)
              /\ \A o \in MessageType : UsedUp(s, o) => UsedUp(t, o)
              /\ UsedUp(s, m) => UsedUp(t, m)
<1> DEFINE t == FirstResponse(s, m)
<1>0. s \in StateType
  BY DEF Sound
<1>1. \E r \in Root :
         /\ t \in StateType /\ t.root = r /\ t.send = Chain(r, s.key[1]) /\ t.recv = s.recv
         /\ t.received = s.received /\ t.key = FreshKey(s) /\ t.stored = s.stored
         /\ Len(r) = Len(s.root) + 1
  BY <1>0, RespondedState
<1> HIDE DEF t
<1>2. FreshKey(s)[1] = s.key[1] /\ Len(s.root) \in Nat /\ Len(s.recv.root) \in Nat
  BY <1>0, FreshKeys, StateFields
<1>3. /\ t \in StateType /\ t.send = Chain(t.root, t.key[1]) /\ t.recv = s.recv
      /\ t.received = s.received /\ t.stored = s.stored /\ t.key[1] = s.key[1]
      /\ Len(t.root) = Len(s.root) + 1
  BY <1>1, <1>2
<1>4. Len(t.recv.root) =< Len(t.root) /\ Len(t.root) > Len(s.root)
  BY <1>2, <1>3 DEF Sound
<1>5. Sound(t)
  BY <1>3, <1>4 DEF Sound, WellStored
<1>6. \A o : UsedUp(s, o) => UsedUp(t, o)
  BY <1>3 DEF UsedUp
<1>7. QED
  BY <1>3, <1>4, <1>5, <1>6 DEF t

\* A ratchet step is refused.
StepTooFar(s, m) == m.n > MaxSkip \/ (s.remote # NoKey /\ TooFar(s, m.prev))

\* The store without the key of the message.
Taken(s, m) == [s EXCEPT !.stored = Removed(@, m)]

\* What the code tries, in this order: a stored key, a ratchet step, the current chain.
LEMMA StoredKeyCase ==
    ASSUME NEW s, NEW m, NEW intact \in BOOLEAN, Found(s.stored, m) # {}
    PROVE  /\ Decrypt(s, m, intact).state = Taken(s, m)
           /\ Decrypt(s, m, intact).result = Opens(s.stored[First(s.stored, m)].chain, m, intact)
<1> DEFINE a == Taken(s, m)
           b == Opens(s.stored[First(s.stored, m)].chain, m, intact)
<1>1. Decrypt(s, m, intact) = Outcome(a, b)
  BY Zenon DEF Decrypt, Taken
<1> HIDE DEF a, b
<1>2. Outcome(a, b).state = a /\ Outcome(a, b).result = b
  BY DEF Outcome
<1>3. QED
  BY <1>1, <1>2 DEF a, b

LEMMA StepRefusedCase ==
    ASSUME NEW s, NEW m, NEW intact \in BOOLEAN, Found(s.stored, m) = {}, NeedsStep(s, m),
           StepTooFar(s, m)
    PROVE  Decrypt(s, m, intact).state = s /\ Decrypt(s, m, intact).result = "too far"
<1>1. Decrypt(s, m, intact) = Outcome(s, "too far")
  BY Zenon DEF Decrypt, StepTooFar
<1>2. Outcome(s, "too far").state = s /\ Outcome(s, "too far").result = "too far"
  BY DEF Outcome
<1>3. QED
  BY <1>1, <1>2

LEMMA StepCase ==
    ASSUME NEW s, NEW m, NEW intact \in BOOLEAN, Found(s.stored, m) = {}, NeedsStep(s, m),
           ~StepTooFar(s, m)
    PROVE  Decrypt(s, m, intact) = DecryptCurrent(RatchetStep(s, m), m, intact)
BY Zenon DEF Decrypt, StepTooFar

LEMMA FirstResponseCase ==
    ASSUME NEW s, NEW m, NEW intact \in BOOLEAN, Found(s.stored, m) = {}, ~NeedsStep(s, m),
           DecryptCurrent(s, m, intact).result = "read", s.remote = NoKey
    PROVE  /\ Decrypt(s, m, intact).state = FirstResponse(DecryptCurrent(s, m, intact).state, m)
           /\ Decrypt(s, m, intact).result = "read"
<1> DEFINE a == FirstResponse(DecryptCurrent(s, m, intact).state, m)
<1>1. Decrypt(s, m, intact) = Outcome(a, "read")
  BY Zenon DEF Decrypt
<1> HIDE DEF a
<1>2. QED
  BY <1>1 DEF Outcome, a

LEMMA CurrentChainCase ==
    ASSUME NEW s, NEW m, NEW intact \in BOOLEAN, Found(s.stored, m) = {}, ~NeedsStep(s, m),
           ~(DecryptCurrent(s, m, intact).result = "read" /\ s.remote = NoKey)
    PROVE  Decrypt(s, m, intact) = DecryptCurrent(s, m, intact)
BY Zenon DEF Decrypt

LEMMA TakenState ==
    ASSUME NEW s \in StateType, NEW m \in MessageType, Found(s.stored, m) # {}
    PROVE  LET t == Taken(s, m)
               e == s.stored[First(s.stored, m)]
           IN /\ t \in StateType
              /\ t.root = s.root /\ t.send = s.send /\ t.recv = s.recv /\ t.sent = s.sent
              /\ t.received = s.received /\ t.prev = s.prev /\ t.key = s.key
              /\ t.remote = s.remote /\ t.dropped = s.dropped
              /\ e \in Entries(s.stored) /\ e \in EntryType /\ e.key = m.key /\ e.n = m.n
              /\ Entries(t.stored) \subseteq Entries(s.stored)
              /\ Entries(s.stored) \subseteq Entries(t.stored) \cup {e}
              /\ WellStored(s) => /\ WellStored(t)
                                  /\ \A f \in Entries(t.stored) : ~(f.chain = e.chain /\ f.n = e.n)
<1> DEFINE t == Taken(s, m)
           e == s.stored[First(s.stored, m)]
           r == Removed(s.stored, m)
<1>1. s.stored \in Seq(EntryType)
  BY StateFields
<1>2. /\ e \in Entries(s.stored) /\ e \in EntryType /\ e.key = m.key /\ e.n = m.n
      /\ r \in Seq(EntryType) /\ Len(r) =< Len(s.stored)
      /\ Entries(r) \subseteq Entries(s.stored) /\ Entries(s.stored) \subseteq Entries(r) \cup {e}
      /\ Distinct(s.stored) => /\ Distinct(r)
                               /\ \A f \in Entries(r) : ~(f.chain = e.chain /\ f.n = e.n)
  BY <1>1, RemovedStore
<1>3. t = [s EXCEPT !.stored = r]
  BY DEF Taken
<1> HIDE DEF t, e, r
<1>4. /\ t \in StateType /\ t.stored = r
      /\ t.root = s.root /\ t.send = s.send /\ t.recv = s.recv /\ t.sent = s.sent
      /\ t.received = s.received /\ t.prev = s.prev /\ t.key = s.key
      /\ t.remote = s.remote /\ t.dropped = s.dropped
  BY <1>2, <1>3 DEF StateType
<1>5. Len(r) \in Nat /\ Len(s.stored) \in Nat /\ MaxStored \in Nat
  BY <1>1, <1>2, RatchetConstants
<1>6. ASSUME WellStored(s)
      PROVE  WellStored(t) /\ \A f \in Entries(t.stored) : ~(f.chain = e.chain /\ f.n = e.n)
  <2>1. Len(r) =< MaxStored
    BY <1>2, <1>5, <1>6 DEF WellStored
  <2>2. QED
    BY <1>2, <1>4, <1>6, <2>1 DEF WellStored
<1>7. QED
  BY <1>2, <1>4, <1>6 DEF t, e

\* Decrypting keeps a state sound, never brings back a key, and uses up the key it reads
\* with, which was there before.
LEMMA DecryptSound ==
    ASSUME NEW s, Sound(s), NEW m \in MessageType, NEW intact \in BOOLEAN
    PROVE  LET d == Decrypt(s, m, intact)
           IN /\ Sound(d.state) /\ d.state.key[1] = s.key[1]
              /\ \A o \in MessageType : UsedUp(s, o) => UsedUp(d.state, o)
              /\ d.result = "read" => UsedUp(d.state, m) /\ ~UsedUp(s, m)
              /\ \/ /\ d.state.root = s.root /\ d.state.send = s.send
                    /\ d.state.sent = s.sent
                 \/ Len(d.state.root) > Len(s.root)
<1> DEFINE d == Decrypt(s, m, intact)
           c == DecryptCurrent(s, m, intact)
<1>0. s \in StateType
  BY DEF Sound
<1>1. CASE Found(s.stored, m) # {}
  <2> DEFINE t == Taken(s, m)
             e == s.stored[First(s.stored, m)]
  <2>1. /\ t \in StateType
        /\ t.root = s.root /\ t.send = s.send /\ t.recv = s.recv /\ t.sent = s.sent
        /\ t.received = s.received /\ t.key = s.key
        /\ e \in Entries(s.stored) /\ e \in EntryType /\ e.key = m.key /\ e.n = m.n
        /\ Entries(t.stored) \subseteq Entries(s.stored)
        /\ WellStored(s) => /\ WellStored(t)
                            /\ \A f \in Entries(t.stored) : ~(f.chain = e.chain /\ f.n = e.n)
    BY <1>0, <1>1, TakenState
  <2>2. d.state = t /\ d.result = Opens(e.chain, m, intact)
    BY <1>1, StoredKeyCase
  <2>3. d.result = "read" => e.chain = m.chain
    BY ZenonT(30), <2>2, OpensMessage
  <2> HIDE DEF t, e, d
  <2>4. Sound(t)
    BY <2>1 DEF Sound
  <2>5. \A o \in MessageType : UsedUp(s, o) => UsedUp(t, o)
    BY <2>1 DEF UsedUp
  <2>6. ASSUME e.chain = m.chain PROVE UsedUp(t, m) /\ ~UsedUp(s, m)
    <3>1. ~UsedUp(s, m)
      BY <2>1, <2>6 DEF UsedUp
    <3>2. Len(m.chain.root) =< Len(s.recv.root)
      BY <2>1, <2>6 DEF Sound
    <3>3. m.chain = s.recv => m.n < s.received
      BY <2>1, <2>6 DEF Sound, WellStored
    <3>4. \A f \in Entries(t.stored) : ~(f.chain = m.chain /\ f.n = m.n)
      BY <2>1, <2>6 DEF Sound
    <3>5. QED
      BY <2>1, <3>1, <3>2, <3>3, <3>4 DEF UsedUp
  <2>7. QED
    BY <2>1, <2>2, <2>3, <2>4, <2>5, <2>6 DEF d
<1>2. CASE Found(s.stored, m) = {} /\ NeedsStep(s, m) /\ StepTooFar(s, m)
  <2>1. d.state = s /\ d.result = "too far"
    BY <1>2, StepRefusedCase
  <2> HIDE DEF d
  <2>2. QED
    BY <2>1 DEF d
<1>3. CASE Found(s.stored, m) = {} /\ NeedsStep(s, m) /\ ~StepTooFar(s, m)
  <2> DEFINE t == RatchetStep(s, m)
  <2>1. d = DecryptCurrent(t, m, intact)
    BY <1>3, StepCase
  <2>2. /\ Sound(t) /\ t.key[1] = s.key[1] /\ Len(t.root) > Len(s.root)
        /\ \A o \in MessageType : UsedUp(s, o) => UsedUp(t, o) /\ o.chain # t.recv
    BY SteppedUses
  <2> HIDE DEF t, d
  <2>3. /\ Sound(d.state) /\ d.state.key = t.key /\ d.state.root = t.root
        /\ \A o \in MessageType : UsedUp(t, o) => UsedUp(d.state, o)
        /\ d.result = "read" => m.chain = t.recv /\ UsedUp(d.state, m)
    BY <2>1, <2>2, CurrentUses
  <2>4. d.result = "read" => ~UsedUp(s, m)
    BY <2>2, <2>3
  <2>5. QED
    BY <2>2, <2>3, <2>4 DEF d
<1>4. CASE Found(s.stored, m) = {} /\ ~NeedsStep(s, m)
  <2>1. /\ Sound(c.state) /\ c.state.key = s.key /\ c.state.root = s.root
        /\ c.state.send = s.send /\ c.state.sent = s.sent
        /\ \A o \in MessageType : UsedUp(s, o) => UsedUp(c.state, o)
        /\ c.result = "read" => UsedUp(c.state, m) /\ ~UsedUp(s, m)
    BY CurrentUses
  <2>2. CASE c.result = "read" /\ s.remote = NoKey
    <3> DEFINE t == FirstResponse(c.state, m)
    <3>1. d.state = t /\ d.result = "read"
      BY <1>4, <2>2, FirstResponseCase
    <3> HIDE DEF c, d
    <3>2. /\ Sound(t) /\ t.key[1] = c.state.key[1] /\ Len(t.root) > Len(c.state.root)
          /\ \A o \in MessageType : UsedUp(c.state, o) => UsedUp(t, o)
          /\ UsedUp(c.state, m) => UsedUp(t, m)
      BY <2>1, RespondedUses
    <3> HIDE DEF t
    <3>3. QED
      BY <2>1, <2>2, <3>1, <3>2 DEF d
  <2>3. CASE ~(c.result = "read" /\ s.remote = NoKey)
    <3>1. d = c
      BY <1>4, <2>3, CurrentChainCase
    <3> HIDE DEF c, d
    <3>2. QED
      BY <2>1, <3>1 DEF d
  <2>4. QED
    BY <2>2, <2>3
<1>5. QED
  BY <1>1, <1>2, <1>3, <1>4

\* Each device's state is sound; a message has the chain it was sent on, which its sender
\* has left or gone past; the key of a message read is used up.
SoundInv ==
    /\ ratchet \in [Device -> StateType]
    /\ \A u \in Device : Sound(ratchet[u]) /\ ratchet[u].key[1] = u
    /\ sentMessages \subseteq MessageType /\ IsFiniteSet(sentMessages)
    /\ \A m \in sentMessages :
          /\ m.chain.by = m.by
          /\ Len(m.chain.root) =< Len(ratchet[m.by].root)
          /\ m.chain = ratchet[m.by].send => m.n < ratchet[m.by].sent
    /\ read \subseteq sentMessages
    /\ \A m \in read : UsedUp(ratchet[Other(m.by)], m)

UsedOnceInv == SoundInv /\ MessageKeyUsedOnce

\* The state a session begins with.
LEMMA InitialState ==
    ASSUME NEW u \in Device, NEW r \in Root
    PROVE  LET s == InitChains(u, r)
           IN /\ Sound(s) /\ s.root = r /\ s.send = Chain(r, u) /\ s.recv = Chain(r, Other(u))
              /\ s.sent = 0 /\ s.received = 0 /\ s.prev = 0 /\ s.key = <<u, 1>>
              /\ s.remote = NoKey /\ s.stored = <<>> /\ s.dropped = {}
<1> DEFINE s == InitChains(u, r)
           a == Chain(r, u)
           b == Chain(r, Other(u))
           k == <<u, 1>>
           q == <<>>
<1>1. /\ a \in ChainType /\ b \in ChainType /\ a.root = r /\ b.root = r
      /\ k \in Pair /\ k[1] = u /\ q \in Seq(EntryType) /\ Len(q) = 0 /\ Entries(q) = {}
      /\ Distinct(q) /\ Len(r) \in Nat
  BY ChainFields, OtherDevice DEF Pair, Entries, Distinct, Root
<1>2. s = [root |-> r, send |-> a, recv |-> b, sent |-> 0, received |-> 0, prev |-> 0,
           key |-> k, remote |-> NoKey, stored |-> q, dropped |-> {}]
  BY DEF InitChains
<1> HIDE DEF s, a, b, k, q
<1>3. s \in StateType
  BY <1>1, <1>2 DEF StateType
<1>4. 0 =< MaxStored /\ Len(r) =< Len(r)
  BY <1>1, RatchetConstants
<1>5. s.root = r /\ s.send = a /\ s.recv = b /\ s.stored = q /\ s.key = k
  BY <1>2
<1>6. Sound(s)
  BY <1>1, <1>3, <1>4, <1>5 DEF Sound, WellStored, a
<1>7. QED
  BY <1>2, <1>6 DEF s, a, b, k, q

\* Both sides begin with the same root key.
LEMMA AgreedStates ==
    ASSUME RatchetInit
    PROVE  \E r \in Root : ratchet = [u \in Device |-> InitChains(u, r)]
<1>1. PICK otk \in BOOLEAN : ratchet = Agreed(otk)
  BY DEF RatchetInit
<1>2. InitiateRoot(otk) = RespondRoot(otk) /\ InitiateRoot(otk) \in Root
  BY AgreementAgrees
<1>3. ratchet = [u \in Device |-> InitChains(u, InitiateRoot(otk))]
  BY <1>1, <1>2 DEF Agreed
<1>4. QED
  BY <1>2, <1>3

LEMMA UsedOnceInit == RatchetInit => UsedOnceInv
<1> SUFFICES ASSUME RatchetInit PROVE UsedOnceInv
  OBVIOUS
<1>1. PICK r \in Root : ratchet = [u \in Device |-> InitChains(u, r)]
  BY AgreedStates
<1>2. ASSUME NEW u \in Device
      PROVE  Sound(ratchet[u]) /\ ratchet[u].key[1] = u
  <2>1. ratchet[u] = InitChains(u, r)
    BY <1>1
  <2>2. Sound(InitChains(u, r)) /\ InitChains(u, r).key = <<u, 1>>
    BY InitialState
  <2>3. QED
    BY <2>1, <2>2
<1>3. ratchet \in [Device -> StateType]
  <2>1. \A u \in Device : ratchet[u] \in StateType
    BY <1>2 DEF Sound
  <2>2. QED
    BY <1>1, <2>1
<1>4. sentMessages = {} /\ read = {} /\ readAgain = {}
  BY DEF RatchetInit
<1>5. IsFiniteSet(sentMessages)
  BY <1>4, FS_EmptySet
<1>6. QED
  BY <1>2, <1>3, <1>4, <1>5 DEF UsedOnceInv, SoundInv, MessageKeyUsedOnce

\* The message a device sends.
LEMMA SentMessage ==
    ASSUME SoundInv, NEW u \in Device
    PROVE  LET m == Message(Cardinality(sentMessages), ratchet[u])
               t == [ratchet[u] EXCEPT !.sent = NextCounter(ratchet[u])]
           IN /\ m \in MessageType /\ m.by = u /\ m.key = ratchet[u].key /\ m.n = ratchet[u].sent
              /\ m.prev = ratchet[u].prev /\ m.chain = ratchet[u].send
              /\ m.id = Cardinality(sentMessages)
              /\ t \in StateType /\ t.root = ratchet[u].root /\ t.send = ratchet[u].send
              /\ t.recv = ratchet[u].recv /\ t.sent = ratchet[u].sent + 1
              /\ t.received = ratchet[u].received /\ t.prev = ratchet[u].prev
              /\ t.key = ratchet[u].key /\ t.remote = ratchet[u].remote
              /\ t.stored = ratchet[u].stored /\ t.dropped = ratchet[u].dropped
<1> DEFINE s == ratchet[u]
           c == Cardinality(sentMessages)
           n == NextCounter(s)
           t == [s EXCEPT !.sent = n]
           m == Message(c, s)
<1>1. s \in StateType /\ s.key[1] = u /\ c \in Nat
  BY FS_CardinalityType DEF SoundInv
<1>2. s.send \in ChainType /\ s.sent \in Nat /\ s.prev \in Nat /\ s.key \in Pair
  BY <1>1, StateFields
<1>3. n = s.sent + 1 /\ n \in Nat
  BY <1>2 DEF NextCounter
<1> HIDE DEF s, n, c
<1>4. /\ t \in StateType /\ t.root = s.root /\ t.send = s.send
      /\ t.recv = s.recv /\ t.sent = n
      /\ t.received = s.received /\ t.prev = s.prev
      /\ t.key = s.key /\ t.remote = s.remote
      /\ t.stored = s.stored /\ t.dropped = s.dropped
  BY <1>1, <1>3 DEF StateType
<1>5. /\ m \in MessageType /\ m.by = u /\ m.key = s.key /\ m.n = s.sent
      /\ m.prev = s.prev /\ m.chain = s.send /\ m.id = c
  BY <1>1, <1>2 DEF Message, MessageType
<1> HIDE DEF t, m
<1>6. QED
  BY <1>3, <1>4, <1>5 DEF s, c, n, t, m

LEMMA UsedOnceEncrypt ==
    ASSUME UsedOnceInv, NEW u \in Device, RatchetEncrypt(u)
    PROVE  UsedOnceInv'
<1> DEFINE s == ratchet[u]
           m == Message(Cardinality(sentMessages), s)
           t == [s EXCEPT !.sent = NextCounter(s)]
<1>0. SoundInv /\ MessageKeyUsedOnce
  BY DEF UsedOnceInv
<1>1. /\ m \in MessageType /\ m.by = u /\ m.n = s.sent /\ m.chain = s.send
      /\ t \in StateType /\ t.root = s.root /\ t.send = s.send
      /\ t.recv = s.recv /\ t.sent = s.sent + 1
      /\ t.received = s.received /\ t.key = s.key /\ t.stored = s.stored
  BY <1>0, SentMessage
<1>2. /\ sentMessages' = sentMessages \cup {m} /\ ratchet' = [ratchet EXCEPT ![u] = t]
      /\ read' = read /\ readAgain' = readAgain
  BY DEF RatchetEncrypt
<1>3. /\ Sound(s) /\ s.key[1] = u /\ s \in StateType /\ s.sent \in Nat /\ Len(s.root) \in Nat
      /\ s.send = Chain(s.root, u) /\ s.send.root = s.root /\ s.send.by = u
      /\ ratchet \in [Device -> StateType]
  <2>1. Sound(s) /\ s.key[1] = u /\ ratchet \in [Device -> StateType]
    BY <1>0 DEF SoundInv
  <2>2. s \in StateType /\ s.send = Chain(s.root, u)
    BY <2>1 DEF Sound
  <2>3. s.root \in Root /\ s.sent \in Nat /\ Len(s.root) \in Nat
    BY <2>2, StateFields
  <2>4. Chain(s.root, u).root = s.root /\ Chain(s.root, u).by = u
    BY <2>3, ChainFields
  <2>5. QED
    BY <2>1, <2>2, <2>3, <2>4
<1> HIDE DEF s, m, t
<1>4. /\ ratchet' \in [Device -> StateType] /\ ratchet'[u] = t
      /\ \A v \in Device : v # u => ratchet'[v] = ratchet[v]
  BY <1>1, <1>2, <1>3
<1>5. Sound(t) /\ t.key[1] = u
  BY <1>1, <1>3 DEF Sound, WellStored
<1>6. \A v \in Device : Sound(ratchet'[v]) /\ ratchet'[v].key[1] = v
  BY <1>0, <1>4, <1>5 DEF SoundInv
<1>7. sentMessages' \subseteq MessageType /\ IsFiniteSet(sentMessages')
  BY <1>0, <1>1, <1>2, FS_AddElement DEF SoundInv
<1>8. ASSUME NEW o \in sentMessages'
      PROVE  /\ o.chain.by = o.by
             /\ Len(o.chain.root) =< Len(ratchet'[o.by].root)
             /\ o.chain = ratchet'[o.by].send => o.n < ratchet'[o.by].sent
  <2>1. CASE o = m
    BY <1>1, <1>3, <1>4, <2>1
  <2>2. CASE o \in sentMessages
    <3>1. /\ o.chain.by = o.by
          /\ Len(o.chain.root) =< Len(ratchet[o.by].root)
          /\ o.chain = ratchet[o.by].send => o.n < ratchet[o.by].sent
      BY <1>0, <2>2 DEF SoundInv
    <3>2. o \in MessageType /\ o.by \in Device /\ o.n \in Nat
      BY <1>0, <2>2, MessageFields DEF SoundInv
    <3>3. CASE o.by = u
      <4>1. o.chain = s.send => o.n < s.sent + 1
        BY <1>3, <3>1, <3>2, <3>3 DEF s
      <4>2. QED
        BY <1>1, <1>4, <3>1, <3>3, <4>1 DEF s
    <3>4. CASE o.by # u
      BY <1>4, <3>1, <3>2, <3>4
    <3>5. QED
      BY <3>3, <3>4
  <2>3. QED
    BY <1>2, <2>1, <2>2
<1>9. read' \subseteq sentMessages'
  BY <1>0, <1>2 DEF SoundInv
<1>10. ASSUME NEW o \in read' PROVE UsedUp(ratchet'[Other(o.by)], o)
  <2>1. UsedUp(ratchet[Other(o.by)], o) /\ o \in MessageType
    BY <1>0, <1>2, <1>10 DEF SoundInv
  <2>2. Other(o.by) \in Device
    BY <2>1, MessageFields, OtherDevice
  <2>3. CASE Other(o.by) = u
    <3>1. UsedUp(t, o)
      BY <1>1, <2>1, <2>3 DEF UsedUp, s
    <3>2. QED
      BY <1>4, <2>3, <3>1
  <2>4. CASE Other(o.by) # u
    BY <1>4, <2>1, <2>2, <2>4
  <2>5. QED
    BY <2>3, <2>4
<1>11. ASSUME NEW o \in sentMessages, o.chain = m.chain, o.n = m.n PROVE FALSE
  <2>1. /\ o.chain.by = o.by
        /\ o.chain = ratchet[o.by].send => o.n < ratchet[o.by].sent
    BY <1>0 DEF SoundInv
  <2>2. o.by = u
    BY <1>1, <1>3, <1>11, <2>1
  <2>3. o.n < s.sent
    BY <1>1, <1>11, <2>1, <2>2 DEF s
  <2>4. QED
    BY <1>1, <1>3, <1>11, <2>3
<1>12. ASSUME NEW o \in sentMessages', NEW p \in sentMessages', o.chain = p.chain, o.n = p.n
       PROVE  o = p
  <2>1. CASE o \in sentMessages /\ p \in sentMessages
    BY <1>0, <1>12, <2>1 DEF MessageKeyUsedOnce
  <2>2. CASE o = m \/ p = m
    BY <1>2, <1>11, <1>12, <2>2
  <2>3. QED
    BY <1>2, <2>1, <2>2
<1>13. SoundInv'
  BY <1>4, <1>6, <1>7, <1>8, <1>9, <1>10 DEF SoundInv
<1>14. MessageKeyUsedOnce'
  BY <1>0, <1>2, <1>12 DEF MessageKeyUsedOnce
<1>15. QED
  BY <1>13, <1>14 DEF UsedOnceInv

\* What a delivery does: a host that works in place, or a message read, leaves the recipient
\* in the state after decrypting.
LEMMA DeliveredState ==
    ASSUME SoundInv, NEW m \in sentMessages, NEW intact \in BOOLEAN, RatchetDecrypt(m, intact)
    PROVE  LET u == Other(m.by)
               s == ratchet[u]
               d == Decrypt(s, m, intact)
           IN /\ u \in Device /\ Sound(s) /\ s.key[1] = u /\ m \in MessageType
              /\ \E t : /\ \/ (inPlace \/ d.result = "read") /\ t = d.state
                           \/ ~(inPlace \/ d.result = "read") /\ t = s
                        /\ ratchet' = [ratchet EXCEPT ![u] = t]
              /\ d.state.key[2] =< MaxPairs
              /\ sentMessages' = sentMessages
              /\ read' = IF d.result = "read" THEN read \cup {m} ELSE read
              /\ readAgain' = IF d.result = "read" /\ m \in read THEN readAgain \cup {m}
                              ELSE readAgain
              /\ delivered' = IF intact /\ d.result # "too far" THEN delivered \cup {m}
                              ELSE delivered
<1> DEFINE u == Other(m.by)
           s == ratchet[u]
           d == Decrypt(s, m, intact)
           t == IF inPlace \/ d.result = "read" THEN d.state ELSE s
<1>1. m \in MessageType /\ u \in Device
  BY MessageFields, OtherDevice DEF SoundInv
<1>2. Sound(s) /\ s.key[1] = u
  BY <1>1 DEF SoundInv
<1>3. /\ ratchet' = [ratchet EXCEPT ![u] = t]
      /\ d.state.key[2] =< MaxPairs
      /\ sentMessages' = sentMessages
      /\ read' = read \cup {o \in {m} : d.result = "read"}
      /\ readAgain' = readAgain \cup {o \in read \cap {m} : d.result = "read"}
      /\ delivered' = delivered \cup {o \in {m} : intact /\ d.result # "too far"}
  BY Zenon DEF RatchetDecrypt
<1>4. \/ (inPlace \/ d.result = "read") /\ t = d.state
      \/ ~(inPlace \/ d.result = "read") /\ t = s
  BY Zenon
<1> HIDE DEF t, d, s
<1>5. read' = IF d.result = "read" THEN read \cup {m} ELSE read
  BY <1>3
<1>6. readAgain' = IF d.result = "read" /\ m \in read THEN readAgain \cup {m} ELSE readAgain
  BY <1>3
<1>7. delivered' = IF intact /\ d.result # "too far" THEN delivered \cup {m} ELSE delivered
  BY <1>3
<1>8. \E x : /\ \/ (inPlace \/ d.result = "read") /\ x = d.state
                \/ ~(inPlace \/ d.result = "read") /\ x = s
             /\ ratchet' = [ratchet EXCEPT ![u] = x]
  BY <1>3, <1>4
<1>9. QED
  BY <1>1, <1>2, <1>3, <1>5, <1>6, <1>7, <1>8 DEF d, s

LEMMA UsedOnceDecrypt ==
    ASSUME UsedOnceInv, NEW m \in sentMessages, NEW intact \in BOOLEAN, RatchetDecrypt(m, intact)
    PROVE  UsedOnceInv'
<1> DEFINE u == Other(m.by)
           s == ratchet[u]
           d == Decrypt(s, m, intact)
<1>0. SoundInv /\ MessageKeyUsedOnce
  BY DEF UsedOnceInv
<1>1. /\ u \in Device /\ Sound(s) /\ s.key[1] = u /\ m \in MessageType
      /\ \E x : /\ \/ (inPlace \/ d.result = "read") /\ x = d.state
                   \/ ~(inPlace \/ d.result = "read") /\ x = s
                /\ ratchet' = [ratchet EXCEPT ![u] = x]
      /\ sentMessages' = sentMessages
      /\ read' = IF d.result = "read" THEN read \cup {m} ELSE read
      /\ readAgain' = IF d.result = "read" /\ m \in read THEN readAgain \cup {m} ELSE readAgain
  BY <1>0, DeliveredState
<1>2. /\ Sound(d.state) /\ d.state.key[1] = s.key[1]
      /\ \A o \in MessageType : UsedUp(s, o) => UsedUp(d.state, o)
      /\ d.result = "read" => UsedUp(d.state, m) /\ ~UsedUp(s, m)
      /\ \/ d.state.root = s.root /\ d.state.send = s.send /\ d.state.sent = s.sent
         \/ Len(d.state.root) > Len(s.root)
  BY <1>1, DecryptSound
<1> HIDE DEF s, d
<1>3. PICK t : /\ \/ (inPlace \/ d.result = "read") /\ t = d.state
                  \/ ~(inPlace \/ d.result = "read") /\ t = s
               /\ ratchet' = [ratchet EXCEPT ![u] = t]
  BY <1>1
<1>4. /\ Sound(t) /\ t.key[1] = u
      /\ \A o \in MessageType : UsedUp(s, o) => UsedUp(t, o)
      /\ d.result = "read" => UsedUp(t, m) /\ ~UsedUp(s, m)
      /\ \/ t.root = s.root /\ t.send = s.send /\ t.sent = s.sent
         \/ Len(t.root) > Len(s.root)
  BY <1>1, <1>2, <1>3
<1>5. /\ ratchet \in [Device -> StateType] /\ s \in StateType /\ t \in StateType
      /\ t.send = Chain(t.root, u)
  BY <1>0, <1>1, <1>4 DEF SoundInv, Sound
<1>6. /\ ratchet' \in [Device -> StateType] /\ ratchet'[u] = t
      /\ \A v \in Device : v # u => ratchet'[v] = ratchet[v]
  BY <1>1, <1>3, <1>5
<1>7. \A v \in Device : Sound(ratchet'[v]) /\ ratchet'[v].key[1] = v
  BY <1>0, <1>4, <1>6 DEF SoundInv
<1>8. t.root \in Root /\ Len(t.root) \in Nat /\ Len(s.root) \in Nat
  BY <1>5, StateFields
<1>9. t.send.root = t.root
  BY <1>1, <1>5, <1>8, ChainFields
<1>10. ASSUME NEW o \in sentMessages
       PROVE  /\ o.chain.by = o.by
              /\ Len(o.chain.root) =< Len(ratchet'[o.by].root)
              /\ o.chain = ratchet'[o.by].send => o.n < ratchet'[o.by].sent
  <2>1. /\ o.chain.by = o.by
        /\ Len(o.chain.root) =< Len(ratchet[o.by].root)
        /\ o.chain = ratchet[o.by].send => o.n < ratchet[o.by].sent
    BY <1>0 DEF SoundInv
  <2>2. o.by \in Device /\ Len(o.chain.root) \in Nat
    BY <1>0, MessageFields DEF SoundInv
  <2>3. CASE o.by # u
    BY <1>6, <2>1, <2>2, <2>3
  <2>4. CASE o.by = u /\ t.root = s.root /\ t.send = s.send /\ t.sent = s.sent
    BY <1>6, <2>1, <2>4 DEF s
  <2>5. CASE o.by = u /\ Len(t.root) > Len(s.root)
    <3>1. Len(o.chain.root) =< Len(s.root)
      BY <2>1, <2>5 DEF s
    <3>2. Len(o.chain.root) < Len(t.root)
      BY <1>8, <2>2, <2>5, <3>1
    <3>3. o.chain # t.send
      BY <1>8, <1>9, <2>2, <3>2
    <3>4. QED
      BY <1>6, <1>8, <2>1, <2>2, <2>5, <3>2, <3>3
  <2>6. QED
    BY <1>4, <2>3, <2>4, <2>5
<1>11. read' \subseteq sentMessages'
  BY <1>0, <1>1 DEF SoundInv
<1>12. ASSUME NEW o \in read' PROVE UsedUp(ratchet'[Other(o.by)], o)
  <2>1. o \in MessageType /\ o.by \in Device /\ Other(o.by) \in Device
    BY <1>0, <1>1, <1>11, <1>12, MessageFields, OtherDevice DEF SoundInv
  <2>2. CASE o \in read
    <3>1. UsedUp(ratchet[Other(o.by)], o)
      BY <1>0, <2>2 DEF SoundInv
    <3>2. CASE Other(o.by) = u
      BY <1>4, <1>6, <2>1, <3>1, <3>2 DEF s
    <3>3. CASE Other(o.by) # u
      BY <1>6, <2>1, <3>1, <3>3
    <3>4. QED
      BY <3>2, <3>3
  <2>3. CASE o = m /\ d.result = "read"
    BY <1>4, <1>6, <2>3
  <2>4. QED
    BY <1>1, <1>12, <2>2, <2>3
<1>13. ~(d.result = "read" /\ m \in read)
  <2>1. m \in read => UsedUp(s, m)
    BY <1>0 DEF SoundInv, s
  <2>2. QED
    BY <1>4, <2>1
<1>14. SoundInv'
  BY <1>0, <1>1, <1>6, <1>7, <1>10, <1>11, <1>12 DEF SoundInv
<1>15. MessageKeyUsedOnce'
  BY <1>0, <1>1, <1>13 DEF MessageKeyUsedOnce
<1>16. QED
  BY <1>14, <1>15 DEF UsedOnceInv

LEMMA UsedOnceStep == UsedOnceInv /\ [RatchetNext]_ratchetVars => UsedOnceInv'
<1> SUFFICES ASSUME UsedOnceInv, [RatchetNext]_ratchetVars PROVE UsedOnceInv'
  OBVIOUS
<1>1. ASSUME NEW u \in Device, RatchetEncrypt(u) PROVE UsedOnceInv'
  BY <1>1, UsedOnceEncrypt
<1>2. ASSUME NEW m \in sentMessages, NEW intact \in BOOLEAN, RatchetDecrypt(m, intact)
      PROVE  UsedOnceInv'
  BY <1>2, UsedOnceDecrypt
<1>3. CASE UNCHANGED ratchetVars
  BY <1>3 DEF ratchetVars, UsedOnceInv, SoundInv, MessageKeyUsedOnce
<1>4. QED
  BY <1>1, <1>2, <1>3 DEF RatchetNext

\* No message key encrypts two messages or decrypts twice, whatever the network does and
\* whether or not a state was spoiled.
THEOREM KeysUsedOnce == RatchetSpec => []MessageKeyUsedOnce
<1>1. UsedOnceInv => MessageKeyUsedOnce
  BY DEF UsedOnceInv
<1>2. QED
  BY UsedOnceInit, UsedOnceStep, <1>1, PTL DEF RatchetSpec
-----------------------------------------------------------------------------
(* Every message can be read.  These facts are about the states s of a device and t of   *)
(* its peer, the messages each has sent and those that were delivered.                   *)

\* What holds of the messages a device has sent: the last generation of them is on its
\* sending chain, the one before ended where it says, and all before have shorter roots.
SenderFacts(s, mine) ==
    /\ s.key[2] >= 1
    /\ \A m \in mine :
          /\ m.key[1] = s.key[1] /\ m.key[2] >= 1 /\ m.key[2] =< s.key[2]
          /\ m.key = s.key => m.chain = s.send /\ m.n < s.sent /\ m.prev = s.prev
          /\ m.key[2] = s.key[2] - 1 => m.n < s.prev
          /\ m.key # s.key => Len(m.chain.root) < Len(s.root)
    /\ \A m, o \in mine : m.key = o.key => m.chain = o.chain

\* The message is from before the place its recipient t has come to.
Past(t, m) == t.remote # NoKey /\ (m.key[2] < t.remote[2] \/ (m.key = t.remote /\ m.n < t.received))

\* The recipient t has had the message, or has a key for it, or had to drop that key.
Accounted(t, m, got) == m \in got \/ Dropped(t, m) \/ Found(t.stored, m) # {}

\* The keys stored, E, are of the generations of the sender with key k that were seen, and
\* each is the key of its message.
StoreFacts(E, k, remote, recv, mine) ==
    /\ \A e \in E : /\ e.key[1] = k[1] /\ e.key[2] =< remote[2]
                    /\ e.key = remote => e.chain = recv
    /\ \A e, f \in E : e.key = f.key => e.chain = f.chain
    /\ \A e \in E, m \in mine : e.key = m.key => e.chain = m.chain

\* What holds of the recipient t of the messages of s.
RecipientFacts(s, t, mine, got) ==
    /\ t.remote = NoKey => Entries(t.stored) = {} /\ t.received = 0
    /\ t.remote # NoKey => t.remote[1] = s.key[1] /\ t.remote[2] >= 1 /\ t.remote[2] =< s.key[2]
    /\ t.remote = s.key => t.received =< s.sent
    /\ StoreFacts(Entries(t.stored), s.key, t.remote, t.recv, mine)
    /\ \A m \in mine : /\ m.key = t.remote => m.chain = t.recv
                       /\ Past(t, m) => Accounted(t, m, got)

\* Nobody has read anything yet.
Together(s, t) ==
    /\ s.root = t.root /\ s.recv = t.send /\ t.recv = s.send
    /\ s.remote = NoKey /\ t.remote = NoKey /\ s.key[2] = 1 /\ t.key[2] = 1

\* The device with state s has replied with a key pair that t has not seen.
AheadOf(s, t, mine) ==
    /\ s.root = NextRoot(t.root, DH(s.key, t.key))
    /\ s.remote = t.key /\ s.recv = t.send
    /\ \/ t.remote = NoKey /\ t.sent > 0 /\ \A m \in mine : m.key = s.key
       \/ t.remote # NoKey /\ t.remote[2] = s.key[2] - 1

Link(s, t, mine, theirs, got) ==
    /\ SenderFacts(s, mine) /\ SenderFacts(t, theirs)
    /\ RecipientFacts(s, t, mine, got) /\ RecipientFacts(t, s, theirs, got)
    /\ Together(s, t) \/ AheadOf(s, t, mine) \/ AheadOf(t, s, theirs)

SentBy(u) == {m \in sentMessages : m.by = u}

LinkInv == \A u \in Device : Link(ratchet[u], ratchet[Other(u)], SentBy(u), SentBy(Other(u)),
                                  delivered)

ReadableInv == spoiled \/ (refused = {} /\ LinkInv)

\* The types and identities these facts rest on.
Peers(s, t, mine, theirs) ==
    /\ Sound(s) /\ Sound(t) /\ t.key[1] = Other(s.key[1])
    /\ mine \subseteq MessageType /\ theirs \subseteq MessageType
    /\ \A m, o \in mine : m.chain = o.chain /\ m.n = o.n => m = o
    /\ \A m, o \in theirs : m.chain = o.chain /\ m.n = o.n => m = o

LEMMA PairFields ==
    /\ \A k \in Pair : k[1] \in Device /\ k[2] \in Nat /\ (k[2] >= 1 => k # NoKey)
    /\ \A k, l \in Pair : k[1] = l[1] /\ k[2] = l[2] => k = l
    /\ NoKey[2] = 0
    /\ \A k \in Pair \cup {NoKey} : k[2] \in Nat /\ (k # NoKey => k \in Pair)
<1>1. NoKey[2] = 0
  BY DEF NoKey
<1>2. \A k \in Pair : k[1] \in Device /\ k[2] \in Nat
  BY DEF Pair
<1>3. \A k, l \in Pair : k[1] = l[1] /\ k[2] = l[2] => k = l
  BY DEF Pair
<1>4. QED
  BY <1>1, <1>2, <1>3

LEMMA PeerTypes ==
    ASSUME NEW s, NEW t, NEW mine, NEW theirs, Peers(s, t, mine, theirs)
    PROVE  /\ s \in StateType /\ t \in StateType /\ s.key \in Pair /\ t.key \in Pair
           /\ s.key[1] \in Device /\ t.key[1] \in Device /\ s.key[1] # t.key[1]
           /\ s.key[1] = Other(t.key[1]) /\ t.key[1] = Other(s.key[1])
           /\ Peers(t, s, theirs, mine)
<1>1. s \in StateType /\ t \in StateType
  BY DEF Peers, Sound
<1>2. s.key \in Pair /\ t.key \in Pair
  BY <1>1, StateFields
<1>3. s.key[1] \in Device /\ t.key[1] \in Device
  BY <1>2, PairFields
<1>4. t.key[1] = Other(s.key[1])
  BY DEF Peers
<1>5. s.key[1] = Other(t.key[1]) /\ s.key[1] # t.key[1]
  BY <1>3, <1>4, OtherDevice
<1>6. QED
  BY <1>1, <1>2, <1>3, <1>4, <1>5 DEF Peers

LEMMA LinkSymmetry ==
    ASSUME NEW s, NEW t, NEW mine, NEW theirs, NEW got, Link(s, t, mine, theirs, got)
    PROVE  Link(t, s, theirs, mine, got)
<1>1. Together(s, t) => Together(t, s)
  BY DEF Together
<1>2. QED
  BY <1>1 DEF Link

LEMMA DHSymmetry ==
    ASSUME NEW k, NEW l
    PROVE  DH(k, l) = DH(l, k)
BY DEF DH

\* What is found in a store is an entry of it.
LEMMA FoundEntries ==
    ASSUME NEW q, NEW m
    PROVE  Found(q, m) # {} <=> \E e \in Entries(q) : e.key = m.key /\ e.n = m.n
BY DEF Found, Entries

\* A message stays accounted for while entries only go from the store to the dropped ones.
LEMMA AccountedKept ==
    ASSUME NEW t, NEW w, NEW m, NEW got, NEW now,
           Accounted(t, m, got), got \subseteq now, t.dropped \subseteq w.dropped,
           Entries(t.stored) \subseteq Entries(w.stored) \cup w.dropped
    PROVE  Accounted(w, m, now)
<1>1. CASE m \in got \/ Dropped(t, m)
  BY <1>1 DEF Accounted, Dropped
<1>2. CASE Found(t.stored, m) # {}
  <2>1. PICK e \in Entries(t.stored) : e.key = m.key /\ e.n = m.n
    BY <1>2, FoundEntries
  <2>2. CASE e \in w.dropped
    BY <2>1, <2>2 DEF Accounted, Dropped
  <2>3. CASE e \in Entries(w.stored)
    BY <2>1, <2>3, FoundEntries DEF Accounted
  <2>4. QED
    BY <2>2, <2>3
<1>3. QED
  BY <1>1, <1>2 DEF Accounted

LEMMA StoreShrinks ==
    ASSUME NEW E, NEW F, F \subseteq E, NEW k, NEW remote, NEW recv, NEW mine,
           StoreFacts(E, k, remote, recv, mine)
    PROVE  StoreFacts(F, k, remote, recv, mine)
BY DEF StoreFacts

\* The keys of the current chain may join the store.
LEMMA StoreGrows ==
    ASSUME NEW E, NEW k, NEW remote \in Pair, remote[1] = k[1], NEW recv, NEW mine,
           StoreFacts(E, k, remote, recv, mine),
           \A m \in mine : m.key = remote => m.chain = recv,
           NEW from, NEW until
    PROVE  StoreFacts(E \cup KeysOf(remote, recv, from, until), k, remote, recv, mine)
<1> DEFINE new == KeysOf(remote, recv, from, until)
<1>1. \A e \in new : e.key = remote /\ e.chain = recv
  BY DEF KeysOf
<1>2. remote[2] =< remote[2]
  BY PairFields
<1> HIDE DEF new
<1>3. \A e \in E \cup new : /\ e.key[1] = k[1] /\ e.key[2] =< remote[2]
                            /\ e.key = remote => e.chain = recv
  BY <1>1, <1>2 DEF StoreFacts
<1>4. \A e, f \in E \cup new : e.key = f.key => e.chain = f.chain
  BY <1>1 DEF StoreFacts
<1>5. \A e \in E \cup new, m \in mine : e.key = m.key => e.chain = m.chain
  BY <1>1 DEF StoreFacts
<1>6. QED
  BY <1>3, <1>4, <1>5 DEF StoreFacts, new

LEMMA FactsMonotone ==
    ASSUME NEW s, NEW t, NEW mine, NEW got, NEW now, got \subseteq now,
           RecipientFacts(s, t, mine, got)
    PROVE  RecipientFacts(s, t, mine, now)
BY DEF RecipientFacts, Accounted

LEMMA LinkMonotone ==
    ASSUME NEW s, NEW t, NEW mine, NEW theirs, NEW got, NEW now, got \subseteq now,
           Link(s, t, mine, theirs, got)
    PROVE  Link(s, t, mine, theirs, now)
BY FactsMonotone DEF Link

\* The recipient w has the keys and chains of t, so that only its store and its place in
\* the receiving chain are new.
SameChains(t, w) ==
    /\ w.root = t.root /\ w.send = t.send /\ w.recv = t.recv /\ w.sent = t.sent
    /\ w.prev = t.prev /\ w.key = t.key /\ w.remote = t.remote

LEMMA SameChainsLink ==
    ASSUME NEW s, NEW t, NEW w, NEW mine, NEW theirs, NEW got, NEW now,
           Link(s, t, mine, theirs, got), SameChains(t, w), got \subseteq now,
           RecipientFacts(s, w, mine, now)
    PROVE  Link(s, w, mine, theirs, now)
<1>1. SenderFacts(s, mine) /\ SenderFacts(w, theirs)
  BY DEF Link, SenderFacts, SameChains
<1>2. RecipientFacts(t, s, theirs, now)
  BY FactsMonotone DEF Link
<1>3. RecipientFacts(w, s, theirs, now)
  BY <1>2 DEF RecipientFacts, SameChains
<1>4. Together(s, t) => Together(s, w)
  BY DEF Together, SameChains
<1>5. AheadOf(s, t, mine) => AheadOf(s, w, mine)
  BY DEF AheadOf, SameChains
<1>6. AheadOf(t, s, theirs) => AheadOf(w, s, theirs)
  BY DEF AheadOf, SameChains
<1>7. QED
  BY <1>1, <1>3, <1>4, <1>5, <1>6 DEF Link

\* The recipient t goes on to the message with number m.n of its receiving chain.
Moves(t, w, m) ==
    LET new == KeysOf(m.key, t.recv, t.received, m.n)
    IN /\ SameChains(t, w) /\ w.received = m.n + 1
       /\ Entries(w.stored) \subseteq Entries(t.stored) \cup new
       /\ Entries(t.stored) \cup new \subseteq Entries(w.stored) \cup w.dropped
       /\ t.dropped \subseteq w.dropped

LEMMA MovedLink ==
    ASSUME NEW s, NEW t, NEW w, NEW mine, NEW theirs, NEW got, NEW m \in mine,
           Peers(s, t, mine, theirs), Link(s, t, mine, theirs, got),
           m.key = t.remote, m.n >= t.received, Moves(t, w, m)
    PROVE  Link(s, w, mine, theirs, got \cup {m})
<1> DEFINE now == got \cup {m}
           new == KeysOf(m.key, t.recv, t.received, m.n)
<1>1. /\ s \in StateType /\ t \in StateType /\ mine \subseteq MessageType /\ m \in MessageType
      /\ \A o \in mine : m.chain = o.chain /\ m.n = o.n => m = o
  <2>1. s \in StateType /\ t \in StateType
    BY PeerTypes
  <2>2. QED
    BY <2>1 DEF Peers
<1>2. m.n \in Nat /\ t.received \in Nat /\ s.sent \in Nat /\ m.key \in Pair /\ t.recv \in ChainType
  BY <1>1, MessageFields, StateFields
<1>3. SenderFacts(s, mine) /\ RecipientFacts(s, t, mine, got)
  BY DEF Link
<1>4. m.key[1] = s.key[1] /\ m.key[2] >= 1 /\ (m.key = s.key => m.n < s.sent) /\ m.key # NoKey
  BY <1>2, <1>3, PairFields DEF SenderFacts
<1>5. m.chain = t.recv
  BY <1>3 DEF RecipientFacts
<1>6. /\ SameChains(t, w) /\ w.received = m.n + 1 /\ w.remote = t.remote /\ w.recv = t.recv
      /\ Entries(w.stored) \subseteq Entries(t.stored) \cup new
      /\ Entries(t.stored) \cup new \subseteq Entries(w.stored) \cup w.dropped
      /\ t.dropped \subseteq w.dropped
  BY DEF Moves, SameChains
<1>7. StoreFacts(Entries(w.stored), s.key, w.remote, w.recv, mine)
  <2>1. StoreFacts(Entries(t.stored), s.key, t.remote, t.recv, mine)
    BY <1>3 DEF RecipientFacts
  <2>2. \A o \in mine : o.key = t.remote => o.chain = t.recv
    BY <1>3 DEF RecipientFacts
  <2>3. StoreFacts(Entries(t.stored) \cup new, s.key, t.remote, t.recv, mine)
    BY <1>2, <1>4, <2>1, <2>2, StoreGrows
  <2> HIDE DEF new
  <2>4. QED
    BY <1>6, <2>3, StoreShrinks
<1>8. w.remote = s.key => w.received =< s.sent
  <2>1. ASSUME w.remote = s.key PROVE m.n + 1 =< s.sent
    BY <1>2, <1>4, <1>6, <2>1
  <2>2. QED
    BY <1>6, <2>1
<1>9. ASSUME NEW o \in mine, Past(w, o) PROVE Accounted(w, o, now)
  <2>1. o \in MessageType /\ o.n \in Nat /\ (o.key = t.remote => o.chain = t.recv)
    BY <1>1, <1>3, MessageFields DEF RecipientFacts
  <2>2. CASE Past(t, o)
    <3>1. Accounted(t, o, got)
      BY <1>3, <2>2 DEF RecipientFacts
    <3>2. Entries(t.stored) \subseteq Entries(w.stored) \cup w.dropped
      BY <1>6
    <3>3. QED
      BY <1>6, <3>1, <3>2, AccountedKept
  <2>3. CASE ~Past(t, o)
    <3>1. o.key = t.remote /\ o.n < m.n + 1 /\ ~(o.n < t.received)
      BY <1>6, <1>9, <2>3 DEF Past
    <3>2. CASE o.n = m.n
      <4>1. o = m
        BY <1>1, <1>5, <2>1, <3>1, <3>2
      <4>2. QED
        BY <4>1 DEF Accounted
    <3>3. CASE o.n # m.n
      <4>1. o.n >= t.received /\ o.n < m.n
        BY <1>2, <2>1, <3>1, <3>3
      <4> DEFINE e == [key |-> o.key, n |-> o.n, chain |-> t.recv]
      <4>2. e \in EntryType /\ e.key = o.key /\ e.n = o.n /\ e.chain = t.recv
        BY <1>2, <2>1, MessageFields DEF EntryType
      <4> HIDE DEF e
      <4>3. e \in new
        BY <3>1, <4>1, <4>2 DEF KeysOf
      <4>4. e \in Entries(w.stored) \/ e \in w.dropped
        BY <1>6, <4>3
      <4>5. QED
        BY <4>2, <4>4, FoundEntries DEF Accounted, Dropped
    <3>4. QED
      BY <3>2, <3>3
  <2>4. QED
    BY <2>2, <2>3
<1>10. RecipientFacts(s, w, mine, now)
  BY <1>3, <1>4, <1>6, <1>7, <1>8, <1>9 DEF RecipientFacts
<1>11. QED
  BY <1>6, <1>10, SameChainsLink

\* A stored key is the one of the message, and the others stay.
LEMMA TakenLink ==
    ASSUME NEW s, NEW t, NEW mine, NEW theirs, NEW got, NEW m \in mine,
           Peers(s, t, mine, theirs), Link(s, t, mine, theirs, got), Found(t.stored, m) # {}
    PROVE  /\ t.stored[First(t.stored, m)].chain = m.chain
           /\ Link(s, Taken(t, m), mine, theirs, got \cup {m})
<1> DEFINE now == got \cup {m}
           w == Taken(t, m)
           e == t.stored[First(t.stored, m)]
<1>1. t \in StateType
  BY PeerTypes
<1>2. m \in MessageType /\ \A o \in mine : m.chain = o.chain /\ m.n = o.n => m = o
  BY DEF Peers
<1>3. SenderFacts(s, mine) /\ RecipientFacts(s, t, mine, got)
  BY DEF Link
<1>4. /\ w.root = t.root /\ w.send = t.send /\ w.recv = t.recv /\ w.sent = t.sent
      /\ w.received = t.received /\ w.prev = t.prev /\ w.key = t.key
      /\ w.remote = t.remote /\ w.dropped = t.dropped
      /\ e \in Entries(t.stored) /\ e.key = m.key /\ e.n = m.n
      /\ Entries(w.stored) \subseteq Entries(t.stored)
      /\ Entries(t.stored) \subseteq Entries(w.stored) \cup {e}
  BY <1>1, <1>2, TakenState
<1> HIDE DEF w, e
<1>5. e.chain = m.chain
  BY <1>3, <1>4 DEF RecipientFacts, StoreFacts
<1>6. t.remote # NoKey
  BY <1>3, <1>4 DEF RecipientFacts
<1>7. StoreFacts(Entries(w.stored), s.key, w.remote, w.recv, mine)
  <2>1. StoreFacts(Entries(t.stored), s.key, t.remote, t.recv, mine)
    BY <1>3 DEF RecipientFacts
  <2>2. QED
    BY <1>4, <2>1, StoreShrinks
<1>8. ASSUME NEW o \in mine, Past(w, o) PROVE Accounted(w, o, now)
  <2>1. Past(t, o)
    BY <1>4, <1>8 DEF Past
  <2>2. Accounted(t, o, got)
    BY <1>3, <2>1 DEF RecipientFacts
  <2>3. CASE o \in got \/ Dropped(t, o)
    BY <1>4, <2>3 DEF Accounted, Dropped
  <2>4. CASE Found(t.stored, o) # {}
    <3>1. PICK f \in Entries(t.stored) : f.key = o.key /\ f.n = o.n
      BY <2>4, FoundEntries
    <3>2. CASE f \in Entries(w.stored)
      BY <3>1, <3>2, FoundEntries DEF Accounted
    <3>3. CASE f = e
      <4>1. o.key = m.key /\ o.n = m.n
        BY <1>4, <3>1, <3>3
      <4>2. o.chain = m.chain
        BY <1>3, <4>1 DEF SenderFacts
      <4>3. o = m
        BY <1>2, <4>1, <4>2
      <4>4. QED
        BY <4>3 DEF Accounted
    <3>4. QED
      BY <1>4, <3>1, <3>2, <3>3
  <2>5. QED
    BY <2>2, <2>3, <2>4 DEF Accounted
<1>9. RecipientFacts(s, w, mine, now)
  BY <1>3, <1>4, <1>6, <1>7, <1>8 DEF RecipientFacts
<1>10. SameChains(t, w)
  BY <1>4 DEF SameChains
<1>11. Link(s, w, mine, theirs, now)
  BY <1>9, <1>10, SameChainsLink
<1>12. QED
  BY <1>5, <1>11 DEF w, e

\* A message of a generation the recipient has not seen makes it the one that is ahead.
LEMMA SteppedLink ==
    ASSUME NEW s, NEW t, NEW mine, NEW theirs, NEW got, NEW m \in mine,
           Peers(s, t, mine, theirs), Link(s, t, mine, theirs, got),
           AheadOf(s, t, mine), m.key = s.key
    PROVE  LET w == RatchetStep(t, m)
           IN /\ Peers(s, w, mine, theirs) /\ Link(s, w, mine, theirs, got)
              /\ w.received = 0 /\ w.remote = m.key /\ w.recv = m.chain
<1> DEFINE w   == RatchetStep(t, m)
           c   == CloseChain(t, m)
           new == KeysOf(t.remote, t.recv, t.received, m.prev)
           r1  == NextRoot(t.root, DH(t.key, m.key))
           r2  == NextRoot(r1, DH(FreshKey(t), m.key))
<1>1. /\ s \in StateType /\ t \in StateType /\ s.key \in Pair /\ t.key \in Pair
      /\ s.key[1] \in Device /\ t.key[1] \in Device
      /\ s.key[1] = Other(t.key[1]) /\ t.key[1] = Other(s.key[1])
  BY PeerTypes
<1>2. /\ m \in MessageType /\ mine \subseteq MessageType /\ theirs \subseteq MessageType
      /\ Sound(s) /\ Sound(t)
  BY DEF Peers
<1>3. /\ SenderFacts(s, mine) /\ SenderFacts(t, theirs)
      /\ RecipientFacts(s, t, mine, got) /\ RecipientFacts(t, s, theirs, got)
  BY DEF Link
<1>4. /\ w \in StateType
      /\ w.root = r2 /\ w.send = Chain(r2, t.key[1])
      /\ w.recv = Chain(r1, Other(t.key[1])) /\ w.sent = 0 /\ w.received = 0
      /\ w.prev = t.sent /\ w.key = FreshKey(t) /\ w.remote = m.key
      /\ w.stored = c.stored /\ w.dropped = c.dropped
      /\ Len(r1) = Len(t.root) + 1 /\ Len(r2) = Len(t.root) + 2
  BY <1>1, <1>2, SteppedState
<1>5. /\ Entries(c.stored) \subseteq Entries(t.stored) \cup new
      /\ Entries(t.stored) \subseteq Entries(c.stored) \cup c.dropped
      /\ t.remote # NoKey => new \subseteq Entries(c.stored) \cup c.dropped
      /\ t.dropped \subseteq c.dropped
      /\ t.remote = NoKey => c = t
  <2>1. t.remote = NoKey => c = t
    BY DEF CloseChain
  <2> HIDE DEF c
  <2>2. QED
    BY <1>1, <1>2, <2>1, ClosedState DEF c
<1>6. Sound(w) /\ w.key[1] = t.key[1]
  BY <1>2, SteppedUses
<1>7. /\ w.key[2] = t.key[2] + 1 /\ t.key[2] \in Nat /\ t.key[2] >= 1
      /\ s.key[2] \in Nat /\ s.key[2] >= 1
  BY <1>1, <1>3, <1>4, FreshKeys DEF SenderFacts
<1> HIDE DEF w, c
<1>8. r1 = s.root
  BY DHSymmetry DEF AheadOf
<1>9. s.send = Chain(s.root, s.key[1]) /\ t.send = Chain(t.root, t.key[1])
  BY <1>2 DEF Sound
<1>10. w.recv = s.send /\ m.chain = s.send /\ m.prev = s.prev
  BY <1>1, <1>3, <1>4, <1>8, <1>9 DEF SenderFacts
<1> HIDE DEF r1, r2
<1>11. /\ Len(s.root) \in Nat /\ Len(t.root) \in Nat /\ t.sent \in Nat /\ s.sent \in Nat
       /\ t.received \in Nat /\ m.prev \in Nat /\ t.recv \in ChainType
       /\ t.remote \in Pair \cup {NoKey} /\ t.send.root = t.root
  <2>1. t.root \in Root
    BY <1>1, StateFields
  <2>2. QED
    BY <1>1, <1>2, <1>9, <2>1, StateFields, MessageFields, ChainFields
<1>12. Peers(s, w, mine, theirs)
  BY <1>6 DEF Peers
<1>13. SenderFacts(w, theirs)
  <2>1. ASSUME NEW o \in theirs
        PROVE  /\ o.key[1] = w.key[1] /\ o.key[2] >= 1 /\ o.key[2] =< w.key[2]
               /\ o.key # w.key
               /\ o.key[2] = w.key[2] - 1 => o.n < w.prev
               /\ Len(o.chain.root) < Len(w.root)
    <3>1. /\ o.key \in Pair /\ o.key[2] \in Nat /\ Len(o.chain.root) \in Nat
      BY <1>2, MessageFields, PairFields
    <3>2. /\ o.key[1] = t.key[1] /\ o.key[2] >= 1 /\ o.key[2] =< t.key[2]
          /\ o.key = t.key => o.chain = t.send /\ o.n < t.sent
          /\ o.key # t.key => Len(o.chain.root) < Len(t.root)
      BY <1>3 DEF SenderFacts
    <3>3. Len(o.chain.root) < Len(w.root)
      <4>1. CASE o.key = t.key
        BY <1>4, <1>11, <3>2, <4>1
      <4>2. CASE o.key # t.key
        BY <1>4, <1>11, <3>1, <3>2, <4>2
      <4>3. QED
        BY <4>1, <4>2
    <3>4. o.key[2] =< w.key[2] /\ o.key # w.key
      BY <1>7, <3>1, <3>2
    <3>5. ASSUME o.key[2] = w.key[2] - 1 PROVE o.n < w.prev
      <4>1. o.key[2] = t.key[2]
        BY <1>7, <3>1, <3>5
      <4>2. o.key = t.key
        BY <1>1, <3>1, <3>2, <4>1, PairFields
      <4>3. QED
        BY <1>4, <3>2, <4>2
    <3>6. QED
      BY <1>6, <3>2, <3>3, <3>4, <3>5
  <2>2. w.key[2] >= 1
    BY <1>7
  <2>3. \A o, p \in theirs : o.key = p.key => o.chain = p.chain
    BY <1>3 DEF SenderFacts
  <2>4. QED
    BY <2>1, <2>2, <2>3 DEF SenderFacts
<1>14. RecipientFacts(w, s, theirs, got)
  <2>1. s.remote = t.key /\ s.remote # NoKey /\ s.remote # w.key /\ s.remote[2] =< w.key[2]
    BY <1>1, <1>7, PairFields DEF AheadOf
  <2>2. StoreFacts(Entries(s.stored), w.key, s.remote, s.recv, theirs)
    BY <1>3, <1>6 DEF RecipientFacts, StoreFacts
  <2>3. QED
    BY <1>3, <1>6, <2>1, <2>2 DEF RecipientFacts
<1>15. /\ t.remote[2] \in Nat /\ t.remote[2] < s.key[2]
       /\ t.remote # NoKey => /\ t.remote \in Pair /\ t.remote[1] = s.key[1]
                              /\ t.remote[2] = s.key[2] - 1
  <2>1. t.remote # NoKey => /\ t.remote \in Pair /\ t.remote[1] = s.key[1]
                            /\ t.remote[2] = s.key[2] - 1
    BY <1>3, <1>11 DEF RecipientFacts, AheadOf
  <2>2. t.remote[2] \in Nat /\ NoKey[2] = 0
    BY <1>11, PairFields
  <2>3. QED
    BY <1>7, <2>1, <2>2
<1>16. StoreFacts(Entries(w.stored), s.key, s.key, s.send, mine)
  <2>1. StoreFacts(Entries(w.stored), s.key, t.remote, t.recv, mine)
    <3>1. /\ StoreFacts(Entries(t.stored), s.key, t.remote, t.recv, mine)
          /\ \A o \in mine : o.key = t.remote => o.chain = t.recv
      BY <1>3 DEF RecipientFacts
    <3>2. CASE t.remote = NoKey
      BY <1>4, <1>5, <3>1, <3>2
    <3>3. CASE t.remote # NoKey
      <4>1. StoreFacts(Entries(t.stored) \cup new, s.key, t.remote, t.recv, mine)
        BY <1>15, <3>1, <3>3, StoreGrows
      <4> HIDE DEF new
      <4>2. QED
        BY <1>4, <1>5, <4>1, StoreShrinks
    <3>4. QED
      BY <3>2, <3>3
  <2>2. ASSUME NEW e \in Entries(w.stored) PROVE e.key[2] =< s.key[2] /\ e.key # s.key
    <3>1. e.key[2] =< t.remote[2]
      BY <2>1 DEF StoreFacts
    <3>2. e.key[2] \in Nat
      BY <1>4, StateFields, EntryFields, PairFields
    <3>3. QED
      BY <1>7, <1>15, <3>1, <3>2
  <2>3. QED
    BY <2>1, <2>2 DEF StoreFacts
<1>17. ASSUME NEW o \in mine, Past(w, o) PROVE Accounted(w, o, got)
  <2>1. /\ o \in MessageType /\ o.key \in Pair /\ o.key[2] \in Nat /\ o.n \in Nat
        /\ o.key[1] = s.key[1]
        /\ o.key[2] = s.key[2] - 1 => o.n < s.prev
        /\ o.key = t.remote => o.chain = t.recv
    BY <1>2, <1>3, MessageFields, PairFields DEF SenderFacts, RecipientFacts
  <2>2. o.key[2] < s.key[2]
    BY <1>4, <1>17, <2>1 DEF Past
  <2>3. t.remote # NoKey
    BY <1>7, <2>1, <2>2 DEF AheadOf
  <2>4. CASE Past(t, o)
    <3>1. Accounted(t, o, got)
      BY <1>3, <2>4 DEF RecipientFacts
    <3>2. QED
      BY <1>4, <1>5, <3>1, AccountedKept
  <2>5. CASE ~Past(t, o)
    <3>1. ~(o.key[2] < t.remote[2])
      BY <2>3, <2>5 DEF Past
    <3>2. o.key[2] = t.remote[2]
      BY <1>7, <1>15, <2>1, <2>2, <2>3, <3>1
    <3>3. o.key = t.remote
      BY <1>15, <2>1, <2>3, <3>2, PairFields
    <3>4. ~(o.n < t.received) /\ o.n < m.prev
      BY <1>10, <1>15, <2>1, <2>3, <2>5, <3>3 DEF Past
    <3>5. o.n >= t.received
      BY <1>11, <2>1, <3>4
    <3> DEFINE e == [key |-> o.key, n |-> o.n, chain |-> t.recv]
    <3>6. e \in EntryType /\ e.key = o.key /\ e.n = o.n /\ e.chain = t.recv
      BY <1>11, <2>1 DEF EntryType
    <3> HIDE DEF e
    <3>7. e \in new
      BY <3>3, <3>4, <3>5, <3>6 DEF KeysOf
    <3>8. e \in Entries(w.stored) \/ e \in w.dropped
      BY <1>4, <1>5, <2>3, <3>7
    <3>9. QED
      BY <3>6, <3>8, FoundEntries DEF Accounted, Dropped
  <2>6. QED
    BY <2>4, <2>5
<1>18. RecipientFacts(s, w, mine, got)
  <2>1. w.remote = s.key /\ w.received = 0 /\ w.recv = s.send /\ s.key # NoKey
    BY <1>1, <1>4, <1>7, <1>10, PairFields
  <2>2. s.key[2] =< s.key[2] /\ 0 =< s.sent
    BY <1>7, <1>11
  <2>3. \A o \in mine : o.key = s.key => o.chain = s.send
    BY <1>3 DEF SenderFacts
  <2>4. QED
    BY <1>7, <1>16, <1>17, <2>1, <2>2, <2>3 DEF RecipientFacts
<1>19. AheadOf(w, s, theirs)
  <2>1. w.root = NextRoot(s.root, DH(w.key, s.key))
    BY <1>4, <1>8 DEF r1, r2
  <2>2. s.remote # NoKey /\ s.remote[2] = w.key[2] - 1
    BY <1>1, <1>7, PairFields DEF AheadOf
  <2>3. QED
    BY <1>4, <1>10, <2>1, <2>2 DEF AheadOf
<1>20. QED
  BY <1>3, <1>4, <1>10, <1>12, <1>13, <1>14, <1>18, <1>19 DEF Link, w

\* Who has not sent yet and reads the first message is ahead with its reply.
LEMMA RespondedLink ==
    ASSUME NEW s, NEW t, NEW mine, NEW theirs, NEW got, NEW m \in mine,
           Peers(s, t, mine, theirs), Link(s, t, mine, theirs, got),
           t.remote = NoKey, ~(t.sent > 0)
    PROVE  LET w == FirstResponse(t, m)
           IN /\ Peers(s, w, mine, theirs) /\ Link(s, w, mine, theirs, got)
              /\ w.remote = m.key /\ m.chain = t.recv /\ t.received = 0
<1> DEFINE w == FirstResponse(t, m)
           r == NextRoot(t.root, DH(FreshKey(t), m.key))
<1>1. /\ s \in StateType /\ t \in StateType /\ s.key \in Pair /\ t.key \in Pair
      /\ s.key[1] \in Device /\ t.key[1] \in Device
      /\ s.key[1] = Other(t.key[1]) /\ t.key[1] = Other(s.key[1])
  BY PeerTypes
<1>2. /\ m \in MessageType /\ mine \subseteq MessageType /\ theirs \subseteq MessageType
      /\ Sound(s) /\ Sound(t)
  BY DEF Peers
<1>3. /\ SenderFacts(s, mine) /\ SenderFacts(t, theirs)
      /\ RecipientFacts(s, t, mine, got) /\ RecipientFacts(t, s, theirs, got)
  BY DEF Link
<1>4. /\ w \in StateType
      /\ w.root = r /\ w.send = Chain(r, t.key[1]) /\ w.recv = t.recv
      /\ w.sent = 0 /\ w.received = t.received /\ w.prev = t.sent
      /\ w.key = FreshKey(t) /\ w.remote = m.key
      /\ w.stored = t.stored /\ w.dropped = t.dropped
  BY <1>1, <1>2, RespondedState
<1>5. Sound(w) /\ w.key[1] = t.key[1]
  BY <1>2, RespondedUses
<1>6. /\ w.key[2] = t.key[2] + 1 /\ t.key[2] \in Nat /\ t.key[2] >= 1
      /\ s.key[2] \in Nat /\ s.key[2] >= 1
  BY <1>1, <1>3, <1>4, FreshKeys DEF SenderFacts
<1> HIDE DEF w
<1>7. /\ t.sent \in Nat /\ s.sent \in Nat /\ m.n \in Nat /\ m.key \in Pair /\ m.key[2] \in Nat
      /\ s.key # NoKey
  BY <1>1, <1>2, <1>6, StateFields, MessageFields, PairFields
<1>8. Together(s, t)
  <2>1. ~AheadOf(s, t, mine)
    BY DEF AheadOf
  <2>2. ~AheadOf(t, s, theirs)
    BY <1>7 DEF AheadOf
  <2>3. QED
    BY <2>1, <2>2 DEF Link
<1>9. /\ s.root = t.root /\ t.recv = s.send /\ s.remote = NoKey
      /\ s.key[2] = 1 /\ t.key[2] = 1 /\ w.key[2] = 2
  BY <1>6, <1>8 DEF Together
<1>10. m.key = s.key /\ m.chain = s.send /\ m.n < s.sent
  <2>1. m.key[1] = s.key[1] /\ m.key[2] >= 1 /\ m.key[2] =< s.key[2]
    BY <1>3 DEF SenderFacts
  <2>2. m.key[2] = s.key[2]
    BY <1>7, <1>9, <2>1
  <2>3. m.key = s.key
    BY <1>1, <1>7, <2>1, <2>2, PairFields
  <2>4. QED
    BY <1>3, <2>3 DEF SenderFacts
<1>11. theirs = {}
  <2>1. ASSUME NEW o \in theirs PROVE FALSE
    <3>1. /\ o.key[1] = t.key[1] /\ o.key[2] >= 1 /\ o.key[2] =< t.key[2]
          /\ o.key = t.key => o.n < t.sent
      BY <1>3 DEF SenderFacts
    <3>2. o.key \in Pair /\ o.key[2] \in Nat /\ o.n \in Nat
      BY <1>2, MessageFields, PairFields
    <3>3. o.key[2] = t.key[2]
      BY <1>9, <3>1, <3>2
    <3>4. o.key = t.key
      BY <1>1, <3>1, <3>2, <3>3, PairFields
    <3>5. QED
      BY <1>7, <3>1, <3>2, <3>4
  <2>2. QED
    BY <2>1
<1>12. Peers(s, w, mine, theirs)
  BY <1>5 DEF Peers
<1>13. SenderFacts(w, theirs)
  BY <1>9, <1>11 DEF SenderFacts
<1>14. RecipientFacts(w, s, theirs, got)
  <2>1. Entries(s.stored) = {} /\ s.received = 0
    BY <1>3, <1>9 DEF RecipientFacts
  <2>2. s.remote # w.key
    BY <1>9, PairFields
  <2>3. StoreFacts(Entries(s.stored), w.key, s.remote, s.recv, theirs)
    BY <2>1 DEF StoreFacts
  <2>4. QED
    BY <1>9, <1>11, <2>1, <2>2, <2>3 DEF RecipientFacts
<1>15. Entries(t.stored) = {} /\ t.received = 0
  BY <1>3 DEF RecipientFacts
<1>16. RecipientFacts(s, w, mine, got)
  <2>1. ASSUME NEW o \in mine
        PROVE  (o.key = w.remote => o.chain = w.recv) /\ ~Past(w, o)
    <3>1. /\ o.key[2] \in Nat /\ o.n \in Nat /\ o.key[2] >= 1
          /\ o.key = s.key => o.chain = s.send
      BY <1>2, <1>3, MessageFields, PairFields DEF SenderFacts
    <3>2. ~Past(w, o)
      BY <1>4, <1>9, <1>10, <1>15, <3>1 DEF Past
    <3>3. QED
      BY <1>4, <1>9, <1>10, <3>1, <3>2
  <2>2. StoreFacts(Entries(w.stored), s.key, w.remote, w.recv, mine)
    BY <1>4, <1>15 DEF StoreFacts
  <2>3. s.key[2] =< s.key[2] /\ 0 =< s.sent
    BY <1>6, <1>7
  <2>4. QED
    BY <1>4, <1>6, <1>7, <1>10, <1>15, <2>1, <2>2, <2>3 DEF RecipientFacts
<1>17. AheadOf(w, s, theirs)
  <2>1. w.root = NextRoot(s.root, DH(w.key, s.key))
    BY <1>4, <1>9, <1>10
  <2>2. s.sent > 0
    BY <1>7, <1>10
  <2>3. QED
    BY <1>4, <1>9, <1>10, <1>11, <2>1, <2>2 DEF AheadOf
<1>18. QED
  BY <1>3, <1>4, <1>10, <1>9, <1>12, <1>13, <1>14, <1>15, <1>16, <1>17 DEF Link, w

LEMMA AdvancedMoves ==
    ASSUME NEW s \in StateType, NEW m \in MessageType, m.n >= s.received
    PROVE  Moves(s, Advanced(s, m), m)
<1> DEFINE t   == Advanced(s, m)
           new == KeysOf(m.key, s.recv, s.received, m.n)
<1>1. /\ t.root = s.root /\ t.send = s.send /\ t.recv = s.recv /\ t.sent = s.sent
      /\ t.prev = s.prev /\ t.key = s.key /\ t.remote = s.remote
      /\ t.received = m.n + 1
      /\ Entries(t.stored) \subseteq Entries(s.stored) \cup new
      /\ Entries(s.stored) \cup new \subseteq Entries(t.stored) \cup t.dropped
      /\ s.dropped \subseteq t.dropped
  BY AdvancedState
<1> HIDE DEF t
<1>2. QED
  BY <1>1 DEF Moves, SameChains, t

\* The first message read: its key, then the reply.
LEMMA RespondedMoves ==
    ASSUME NEW t \in StateType, NEW m \in MessageType, m.n >= t.received
    PROVE  Moves(FirstResponse(t, m), FirstResponse(Advanced(t, m), m), m)
<1> DEFINE a == Advanced(t, m)
           v == FirstResponse(t, m)
           w == FirstResponse(a, m)
           r == NextRoot(t.root, DH(FreshKey(t), m.key))
<1>1. a \in StateType /\ Moves(t, a, m)
  BY AdvancedState, AdvancedMoves
<1> HIDE DEF a
<1>2. /\ v.root = r /\ v.send = Chain(r, t.key[1]) /\ v.recv = t.recv
      /\ v.sent = 0 /\ v.received = t.received /\ v.prev = t.sent
      /\ v.key = FreshKey(t) /\ v.remote = m.key
      /\ v.stored = t.stored /\ v.dropped = t.dropped
  BY RespondedState
<1>3. a.root = t.root /\ a.key = t.key /\ a.sent = t.sent /\ a.recv = t.recv
  BY <1>1 DEF Moves, SameChains
<1>4. FreshKey(a) = FreshKey(t)
  BY <1>3 DEF FreshKey
<1> HIDE DEF r, v
<1>5. /\ w.root = r /\ w.send = Chain(r, t.key[1]) /\ w.recv = t.recv
      /\ w.sent = 0 /\ w.received = a.received /\ w.prev = t.sent
      /\ w.key = FreshKey(t) /\ w.remote = m.key
      /\ w.stored = a.stored /\ w.dropped = a.dropped
  BY <1>1, <1>3, <1>4, RespondedState DEF r
<1> HIDE DEF w
<1>6. QED
  BY <1>1, <1>2, <1>5 DEF Moves, SameChains, v, w, a

\* After a ratchet step that was not refused the message is on the new chain, which is empty.
LEMMA StepOutcome ==
    ASSUME NEW t \in StateType, NEW m \in MessageType, NEW intact \in BOOLEAN,
           ~StepTooFar(t, m)
    PROVE  LET w == RatchetStep(t, m)
               d == DecryptCurrent(w, m, intact)
           IN /\ w \in StateType /\ w.received = 0 /\ m.n >= w.received
              /\ d.state = Advanced(w, m) /\ d.result = Opens(w.recv, m, intact)
<1> DEFINE w == RatchetStep(t, m)
           d == DecryptCurrent(w, m, intact)
<1>1. w \in StateType /\ w.received = 0
  BY SteppedState
<1> HIDE DEF w
<1>2. m.n \in Nat /\ MaxSkip \in Nat
  BY MessageFields, RatchetConstants
<1>3. m.n >= w.received
  BY <1>1, <1>2
<1>4. ~TooFar(w, m.n)
  BY <1>1, <1>2 DEF TooFar, StepTooFar
<1>5. d.state = Advanced(w, m) /\ d.result = Opens(w.recv, m, intact)
  BY <1>1, <1>3, <1>4, CurrentChain
<1>6. QED
  BY <1>1, <1>3, <1>5 DEF w

\* Decrypting changes the state only if the message is read or fails to open.
LEMMA RefusalKeepsState ==
    ASSUME NEW t \in StateType, NEW m \in MessageType, NEW intact \in BOOLEAN
    PROVE  LET d == Decrypt(t, m, intact)
           IN /\ d.result \in {"read", "failed"} \/ d.state = t
              /\ d.result \in {"read", "failed", "expired", "too far"}
              /\ d.result = "read" => intact
<1> DEFINE d == Decrypt(t, m, intact)
           c == DecryptCurrent(t, m, intact)
<1>1. CASE Found(t.stored, m) # {}
  <2> DEFINE e == t.stored[First(t.stored, m)]
  <2>1. d.result = Opens(e.chain, m, intact)
    BY <1>1, StoredKeyCase
  <2> HIDE DEF d, e
  <2>2. QED
    BY <2>1, OpensMessage DEF d
<1>2. CASE Found(t.stored, m) = {} /\ NeedsStep(t, m) /\ StepTooFar(t, m)
  <2>1. d.state = t /\ d.result = "too far"
    BY <1>2, StepRefusedCase
  <2> HIDE DEF d
  <2>2. QED
    BY <2>1 DEF d
<1>3. CASE Found(t.stored, m) = {} /\ NeedsStep(t, m) /\ ~StepTooFar(t, m)
  <2> DEFINE w == RatchetStep(t, m)
  <2>1. d = DecryptCurrent(w, m, intact)
    BY <1>3, StepCase
  <2>2. DecryptCurrent(w, m, intact).result = Opens(w.recv, m, intact)
    BY <1>3, StepOutcome
  <2> HIDE DEF d, w
  <2>3. QED
    BY <2>1, <2>2, OpensMessage DEF d
<1>4. CASE Found(t.stored, m) = {} /\ ~NeedsStep(t, m)
  <2>1. \/ c.state = t /\ c.result \in {"expired", "too far"}
        \/ c.result = Opens(t.recv, m, intact)
    <3>1. /\ m.n < t.received => c.state = t /\ c.result = "expired"
          /\ m.n >= t.received /\ TooFar(t, m.n) => c.state = t /\ c.result = "too far"
          /\ m.n >= t.received /\ ~TooFar(t, m.n) => c.result = Opens(t.recv, m, intact)
      BY CurrentChain
    <3>2. m.n < t.received \/ m.n >= t.received
      BY MessageFields, StateFields
    <3> HIDE DEF c
    <3>3. QED
      BY <3>1, <3>2
  <2>2. CASE c.result = "read" /\ t.remote = NoKey
    <3>1. d.result = "read"
      BY <1>4, <2>2, FirstResponseCase
    <3> HIDE DEF c, d
    <3>2. intact
      BY <2>1, <2>2, OpensMessage
    <3>3. QED
      BY <3>1, <3>2 DEF d
  <2>3. CASE ~(c.result = "read" /\ t.remote = NoKey)
    <3>1. d = c
      BY <1>4, <2>3, CurrentChainCase
    <3> HIDE DEF c, d
    <3>2. QED
      BY <2>1, <3>1, OpensMessage DEF d
  <2>4. QED
    BY <2>2, <2>3
<1>5. QED
  BY <1>1, <1>2, <1>3, <1>4

\* A message of a generation before the one the recipient reads.
OfEarlier(t, m, got) ==
    /\ t.remote # NoKey /\ m.key[2] < t.remote[2] /\ Found(t.stored, m) = {}
    /\ m \in got \/ Dropped(t, m)

\* What becomes of a message that arrives undamaged.
Handled(s, t, d, mine, theirs, got, m) ==
    \/ d.result = "too far" /\ d.state = t
    \/ d.result = "expired" /\ d.state = t /\ (m \in got \/ Dropped(t, m))
    \/ d.result = "failed" /\ (Crossing(t, m) \/ OfEarlier(t, m, got))
    \/ d.result = "read" /\ Link(s, d.state, mine, theirs, got \cup {m})

\* ... when it is the recipient's first, or on its receiving chain.
LEMMA ExpectedMessage ==
    ASSUME NEW s, NEW t, NEW mine, NEW theirs, NEW got, NEW m \in mine,
           Peers(s, t, mine, theirs), Link(s, t, mine, theirs, got),
           Found(t.stored, m) = {}, ~NeedsStep(t, m)
    PROVE  Handled(s, t, Decrypt(t, m, TRUE), mine, theirs, got, m)
<1> DEFINE d == Decrypt(t, m, TRUE)
           c == DecryptCurrent(t, m, TRUE)
           a == Advanced(t, m)
           v == FirstResponse(t, m)
           w == FirstResponse(a, m)
<1>1. t \in StateType
  BY PeerTypes
<1>2. m \in MessageType /\ m.n \in Nat /\ t.received \in Nat /\ t.sent \in Nat
  BY <1>1, MessageFields, StateFields DEF Peers
<1>3. SenderFacts(s, mine) /\ RecipientFacts(s, t, mine, got)
  BY DEF Link
<1>4. /\ t.remote = NoKey => ~(t.sent > 0)
      /\ t.remote # NoKey => m.key = t.remote
  BY DEF NeedsStep
<1>5. t.remote = NoKey =>
         /\ Peers(s, v, mine, theirs) /\ Link(s, v, mine, theirs, got)
         /\ v.remote = m.key /\ m.chain = t.recv /\ t.received = 0
  BY <1>4, RespondedLink
<1>6. m.chain = t.recv
  BY <1>3, <1>4, <1>5 DEF RecipientFacts
<1>7. CASE m.n < t.received
  <2>1. c.state = t /\ c.result = "expired"
    BY <1>1, <1>2, <1>7, CurrentChain
  <2>2. d = c
    BY <2>1, CurrentChainCase
  <2>3. t.remote # NoKey
    BY <1>2, <1>5, <1>7
  <2>4. Accounted(t, m, got)
    BY <1>3, <1>4, <1>7, <2>3 DEF RecipientFacts, Past
  <2> HIDE DEF c, d
  <2>5. QED
    BY <2>1, <2>2, <2>4 DEF Handled, Accounted, d
<1>8. CASE m.n >= t.received /\ TooFar(t, m.n)
  <2>1. c.state = t /\ c.result = "too far"
    BY <1>1, <1>2, <1>8, CurrentChain
  <2>2. d = c
    BY <2>1, CurrentChainCase
  <2> HIDE DEF c, d
  <2>3. QED
    BY <2>1, <2>2 DEF Handled, d
<1>9. CASE m.n >= t.received /\ ~TooFar(t, m.n)
  <2>1. c.state = a /\ c.result = Opens(t.recv, m, TRUE)
    BY <1>1, <1>2, <1>9, CurrentChain
  <2>2. Opens(t.recv, m, TRUE) = "read"
    BY <1>6, OpensMessage
  <2>3. CASE t.remote = NoKey
    <3>1. d.state = FirstResponse(c.state, m) /\ d.result = "read"
      BY <2>1, <2>2, <2>3, FirstResponseCase
    <3>2. Moves(v, w, m)
      BY <1>1, <1>2, <1>9, RespondedMoves
    <3>3. v.received = t.received
      BY <1>1, <1>2, RespondedState
    <3> HIDE DEF v, w, c, d, a
    <3>4. Link(s, w, mine, theirs, got \cup {m})
      BY <1>5, <1>9, <2>3, <3>2, <3>3, MovedLink
    <3>5. d.state = w
      BY <2>1, <3>1 DEF w
    <3>6. QED
      BY <3>1, <3>4, <3>5 DEF Handled, d
  <2>4. CASE t.remote # NoKey
    <3>1. d = c
      BY <2>4, CurrentChainCase
    <3>2. Moves(t, a, m)
      BY <1>1, <1>2, <1>9, AdvancedMoves
    <3> HIDE DEF c, d, a
    <3>3. Link(s, a, mine, theirs, got \cup {m})
      BY <1>4, <1>9, <2>4, <3>2, MovedLink
    <3>4. QED
      BY <2>1, <2>2, <3>1, <3>3 DEF Handled, d
  <2>5. QED
    BY <2>3, <2>4
<1>10. m.n < t.received \/ m.n >= t.received
  BY <1>2
<1>11. QED
  BY <1>7, <1>8, <1>9, <1>10, Zenon

\* ... when it is of another generation than the recipient reads.
LEMMA OtherGeneration ==
    ASSUME NEW s, NEW t, NEW mine, NEW theirs, NEW got, NEW m \in mine,
           Peers(s, t, mine, theirs), Link(s, t, mine, theirs, got), NeedsStep(t, m)
    PROVE  \/ AheadOf(s, t, mine) /\ m.key = s.key
           \/ /\ Crossing(t, m) \/ (t.remote # NoKey /\ m.key[2] < t.remote[2])
              /\ Len(m.chain.root) =< Len(t.root)
<1>1. /\ s \in StateType /\ t \in StateType /\ s.key \in Pair /\ t.key \in Pair
  BY PeerTypes
<1>2. m \in MessageType /\ Sound(s) /\ Sound(t) /\ s.key[1] \in Device
  <2>1. s.key[1] \in Device
    BY PeerTypes
  <2>2. QED
    BY <2>1 DEF Peers
<1>3. SenderFacts(s, mine) /\ SenderFacts(t, theirs) /\ RecipientFacts(s, t, mine, got)
  BY DEF Link
<1>4. /\ m.key \in Pair /\ m.key[2] \in Nat /\ s.key[2] \in Nat /\ t.key[2] \in Nat
      /\ s.root \in Root /\ t.root \in Root
      /\ Len(s.root) \in Nat /\ Len(t.root) \in Nat /\ Len(m.chain.root) \in Nat
      /\ t.remote \in Pair \cup {NoKey}
  BY <1>1, <1>2, MessageFields, StateFields, PairFields
<1>5. /\ m.key[1] = s.key[1] /\ m.key[2] =< s.key[2]
      /\ m.key = s.key => m.chain = s.send
      /\ m.key # s.key => Len(m.chain.root) < Len(s.root)
      /\ s.key[2] >= 1
  BY <1>3 DEF SenderFacts
<1>6. CASE t.remote = NoKey
  <2>1. t.sent > 0 /\ s.key # NoKey
    BY <1>1, <1>5, <1>6, PairFields DEF NeedsStep
  <2>2. ~AheadOf(t, s, theirs)
    BY <1>6, <2>1 DEF AheadOf
  <2>3. CASE AheadOf(s, t, mine)
    BY <1>6, <2>3 DEF AheadOf
  <2>4. CASE Together(s, t)
    <3>1. s.key[2] = 1 /\ s.root = t.root
      BY <2>4 DEF Together
    <3>2. m.key[2] >= 1
      BY <1>3 DEF SenderFacts
    <3>3. m.key[2] = s.key[2]
      BY <1>4, <1>5, <3>1, <3>2
    <3>4. m.key = s.key
      BY <1>1, <1>4, <1>5, <3>3, PairFields
    <3>5. m.chain.root = s.root
      BY <1>2, <1>4, <1>5, <3>4, ChainFields DEF Sound
    <3>6. Crossing(t, m)
      BY <1>6, <2>1, <3>1, <3>5 DEF Crossing
    <3>7. QED
      BY <1>4, <3>1, <3>5, <3>6
  <2>5. QED
    BY <2>2, <2>3, <2>4 DEF Link
<1>7. CASE t.remote # NoKey
  <2>1. /\ t.remote \in Pair /\ t.remote[1] = s.key[1] /\ t.remote[2] =< s.key[2]
        /\ t.remote # m.key /\ t.remote[2] \in Nat
    BY <1>3, <1>4, <1>7, PairFields DEF RecipientFacts, NeedsStep
  <2>2. m.key[2] # t.remote[2]
    BY <1>4, <1>5, <2>1, PairFields
  <2>3. CASE m.key[2] < t.remote[2]
    <3>1. m.key # s.key
      BY <1>4, <2>1, <2>3
    <3>2. Len(m.chain.root) < Len(s.root)
      BY <1>5, <3>1
    <3>3. Len(s.root) =< Len(t.root) + 1
      <4>1. CASE Together(s, t)
        BY <1>7, <4>1 DEF Together
      <4>2. CASE AheadOf(s, t, mine)
        <5>1. s.root = NextRoot(t.root, DH(s.key, t.key))
          BY <4>2 DEF AheadOf
        <5>2. Len(NextRoot(t.root, DH(s.key, t.key))) = Len(t.root) + 1
          BY <1>1, <1>4, NextRootIsLonger
        <5>3. QED
          BY <1>4, <5>1, <5>2
      <4>3. CASE AheadOf(t, s, theirs)
        <5>1. Len(t.root) = Len(s.root) + 1
          BY <1>1, <1>4, <4>3, NextRootIsLonger DEF AheadOf
        <5>2. QED
          BY <1>4, <5>1
      <4>4. QED
        BY <4>1, <4>2, <4>3 DEF Link
    <3>4. Len(m.chain.root) =< Len(t.root)
      BY <1>4, <3>2, <3>3
    <3>5. QED
      BY <1>7, <2>3, <3>4
  <2>4. CASE m.key[2] > t.remote[2]
    <3>1. ~Together(s, t)
      BY <1>7 DEF Together
    <3>2. ~AheadOf(t, s, theirs)
      BY <1>4, <1>5, <2>4 DEF AheadOf
    <3>3. AheadOf(s, t, mine)
      BY <3>1, <3>2 DEF Link
    <3>4. t.remote[2] = s.key[2] - 1
      BY <1>7, <3>3 DEF AheadOf
    <3>5. m.key[2] = s.key[2]
      BY <1>4, <1>5, <2>1, <2>4, <3>4
    <3>6. m.key = s.key
      BY <1>1, <1>4, <1>5, <3>5, PairFields
    <3>7. QED
      BY <3>3, <3>6
  <2>5. QED
    BY <1>4, <2>1, <2>2, <2>3, <2>4
<1>8. QED
  BY <1>6, <1>7

LEMMA MessageHandled ==
    ASSUME NEW s, NEW t, NEW mine, NEW theirs, NEW got, NEW m \in mine,
           Peers(s, t, mine, theirs), Link(s, t, mine, theirs, got)
    PROVE  Handled(s, t, Decrypt(t, m, TRUE), mine, theirs, got, m)
<1> DEFINE d == Decrypt(t, m, TRUE)
           w == RatchetStep(t, m)
           a == Advanced(w, m)
<1>1. t \in StateType /\ m \in MessageType /\ Sound(t) /\ TRUE \in BOOLEAN
  <2>1. t \in StateType
    BY PeerTypes
  <2>2. QED
    BY <2>1 DEF Peers
<1>2. CASE Found(t.stored, m) # {}
  <2> DEFINE e == t.stored[First(t.stored, m)]
             b == Taken(t, m)
  <2>1. d.state = b /\ d.result = Opens(e.chain, m, TRUE)
    BY <1>1, <1>2, StoredKeyCase
  <2>2. e.chain = m.chain /\ Link(s, b, mine, theirs, got \cup {m})
    BY <1>2, TakenLink
  <2>3. Opens(e.chain, m, TRUE) = "read"
    BY <2>2, OpensMessage
  <2> HIDE DEF d, e, b
  <2>4. QED
    BY <2>1, <2>2, <2>3 DEF Handled, d
<1>3. CASE Found(t.stored, m) = {} /\ ~NeedsStep(t, m)
  BY <1>3, ExpectedMessage
<1>4. CASE Found(t.stored, m) = {} /\ NeedsStep(t, m) /\ StepTooFar(t, m)
  <2>1. d.state = t /\ d.result = "too far"
    BY <1>1, <1>4, StepRefusedCase
  <2> HIDE DEF d
  <2>2. QED
    BY <2>1 DEF Handled, d
<1>5. CASE Found(t.stored, m) = {} /\ NeedsStep(t, m) /\ ~StepTooFar(t, m)
  <2>1. d = DecryptCurrent(w, m, TRUE)
    BY <1>1, <1>5, StepCase
  <2>2. /\ w \in StateType /\ w.received = 0 /\ m.n >= w.received
        /\ DecryptCurrent(w, m, TRUE).state = a
        /\ DecryptCurrent(w, m, TRUE).result = Opens(w.recv, m, TRUE)
    BY <1>1, <1>5, StepOutcome
  <2>3. CASE AheadOf(s, t, mine) /\ m.key = s.key
    <3>1. /\ Peers(s, w, mine, theirs) /\ Link(s, w, mine, theirs, got)
          /\ w.remote = m.key /\ w.recv = m.chain
      BY <2>3, SteppedLink
    <3> HIDE DEF w
    <3>2. Moves(w, a, m)
      BY <1>1, <2>2, AdvancedMoves
    <3>3. Opens(w.recv, m, TRUE) = "read"
      BY <3>1, OpensMessage
    <3> HIDE DEF a, d
    <3>4. Link(s, a, mine, theirs, got \cup {m})
      BY <2>2, <3>1, <3>2, MovedLink
    <3>5. QED
      BY <2>1, <2>2, <3>3, <3>4 DEF Handled, d
  <2>4. CASE /\ Crossing(t, m) \/ (t.remote # NoKey /\ m.key[2] < t.remote[2])
             /\ Len(m.chain.root) =< Len(t.root)
    <3> DEFINE r1 == NextRoot(t.root, DH(t.key, m.key))
    <3>1. w.recv = Chain(r1, Other(t.key[1])) /\ r1 \in Root /\ Len(r1) = Len(t.root) + 1
      BY <1>1, SteppedState
    <3>2. t.key[1] \in Device /\ Other(t.key[1]) \in Device /\ Len(t.root) \in Nat
      BY <1>1, FreshKeys, OtherDevice, StateFields
    <3> HIDE DEF r1, w
    <3>3. w.recv.root = r1 /\ Len(m.chain.root) \in Nat
      BY <1>1, <3>1, <3>2, ChainFields, MessageFields
    <3>4. w.recv # m.chain
      BY <2>4, <3>1, <3>2, <3>3
    <3>5. Opens(w.recv, m, TRUE) = "failed"
      BY <3>4, OpensMessage
    <3>6. t.remote # NoKey /\ m.key[2] < t.remote[2] => m \in got \/ Dropped(t, m)
      BY <1>5 DEF Link, RecipientFacts, Past, Accounted
    <3>7. Crossing(t, m) \/ OfEarlier(t, m, got)
      BY <1>5, <2>4, <3>6 DEF OfEarlier
    <3> HIDE DEF d, a
    <3>8. QED
      BY <2>1, <2>2, <3>5, <3>7 DEF Handled, d
  <2>5. QED
    BY <1>5, <2>3, <2>4, OtherGeneration
<1>6. QED
  BY <1>2, <1>3, <1>4, <1>5, Zenon

\* A device sends the next message of its chain.
LEMMA SentLink ==
    ASSUME NEW s, NEW t, NEW w, NEW mine, NEW theirs, NEW got, NEW m \in MessageType,
           Peers(s, t, mine, theirs), Link(s, t, mine, theirs, got),
           m.key = s.key, m.n = s.sent, m.prev = s.prev, m.chain = s.send,
           w.root = s.root, w.send = s.send, w.recv = s.recv, w.sent = s.sent + 1,
           w.received = s.received, w.prev = s.prev, w.key = s.key, w.remote = s.remote,
           w.stored = s.stored, w.dropped = s.dropped
    PROVE  Link(w, t, mine \cup {m}, theirs, got)
<1> DEFINE now == mine \cup {m}
<1>1. /\ s \in StateType /\ t \in StateType /\ s.key \in Pair /\ t.key \in Pair
      /\ mine \subseteq MessageType
  <2>1. s \in StateType /\ t \in StateType /\ s.key \in Pair /\ t.key \in Pair
    BY PeerTypes
  <2>2. QED
    BY <2>1 DEF Peers
<1>2. /\ SenderFacts(s, mine) /\ SenderFacts(t, theirs)
      /\ RecipientFacts(s, t, mine, got) /\ RecipientFacts(t, s, theirs, got)
  BY DEF Link
<1>3. /\ s.sent \in Nat /\ s.key[2] \in Nat /\ s.key[2] >= 1 /\ t.received \in Nat
      /\ t.remote \in Pair \cup {NoKey} /\ t.remote[2] \in Nat /\ NoKey[2] = 0 /\ s.key # NoKey
  BY <1>1, <1>2, StateFields, PairFields DEF SenderFacts
<1>4. SenderFacts(w, now)
  <2>1. ASSUME NEW o \in now
        PROVE  /\ o.key[1] = w.key[1] /\ o.key[2] >= 1 /\ o.key[2] =< w.key[2]
               /\ o.key = w.key => o.chain = w.send /\ o.n < w.sent /\ o.prev = w.prev
               /\ o.key[2] = w.key[2] - 1 => o.n < w.prev
               /\ o.key # w.key => Len(o.chain.root) < Len(w.root)
    <3>1. CASE o = m
      BY <1>3, <3>1
    <3>2. CASE o \in mine
      <4>1. o.n \in Nat
        BY <1>1, <3>2, MessageFields
      <4>2. /\ o.key[1] = s.key[1] /\ o.key[2] >= 1 /\ o.key[2] =< s.key[2]
            /\ o.key = s.key => o.chain = s.send /\ o.n < s.sent /\ o.prev = s.prev
            /\ o.key[2] = s.key[2] - 1 => o.n < s.prev
            /\ o.key # s.key => Len(o.chain.root) < Len(s.root)
        BY <1>2, <3>2 DEF SenderFacts
      <4>3. o.key = s.key => o.n < s.sent + 1
        BY <1>3, <4>1, <4>2
      <4>4. QED
        BY <4>2, <4>3
    <3>3. QED
      BY <3>1, <3>2
  <2>2. \A o \in mine : o.key = s.key => o.chain = s.send
    BY <1>2 DEF SenderFacts
  <2>3. \A o, p \in now : o.key = p.key => o.chain = p.chain
    BY <1>2, <2>2 DEF SenderFacts
  <2>4. QED
    BY <1>3, <2>1, <2>3 DEF SenderFacts
<1>5. RecipientFacts(t, w, theirs, got)
  BY <1>2 DEF RecipientFacts, Past, Accounted, Dropped
<1>6. ASSUME t.remote = s.key PROVE t.recv = s.send
  <2>1. ~Together(s, t) /\ ~AheadOf(s, t, mine)
    BY <1>3, <1>6 DEF Together, AheadOf
  <2>2. QED
    BY <2>1 DEF Link, AheadOf
<1>7. RecipientFacts(w, t, now, got)
  <2>1. ASSUME NEW e \in Entries(t.stored), e.key = s.key PROVE e.chain = s.send
    <3>1. /\ e.key[2] =< t.remote[2] /\ t.remote # NoKey
          /\ e.key = t.remote => e.chain = t.recv
      BY <1>2 DEF RecipientFacts, StoreFacts
    <3>2. t.remote \in Pair /\ t.remote[1] = s.key[1] /\ t.remote[2] =< s.key[2]
      BY <1>2, <1>3, <3>1 DEF RecipientFacts
    <3>3. t.remote[2] = s.key[2]
      BY <1>3, <2>1, <3>1, <3>2
    <3>4. t.remote = s.key
      BY <1>1, <3>2, <3>3, PairFields
    <3>5. QED
      BY <1>6, <2>1, <3>1, <3>4
  <2>2. StoreFacts(Entries(t.stored), s.key, t.remote, t.recv, mine)
    BY <1>2 DEF RecipientFacts
  <2>3. StoreFacts(Entries(t.stored), w.key, t.remote, t.recv, now)
    BY <2>1, <2>2 DEF StoreFacts
  <2>4. m.key = t.remote => m.chain = t.recv
    BY <1>6
  <2>5. ~Past(t, m)
    BY <1>2, <1>3 DEF RecipientFacts, Past
  <2>6. t.remote = s.key => t.received =< s.sent + 1
    BY <1>2, <1>3 DEF RecipientFacts
  <2>7. QED
    BY <1>2, <2>3, <2>4, <2>5, <2>6 DEF RecipientFacts
<1>8. Together(s, t) => Together(w, t)
  BY DEF Together
<1>9. AheadOf(s, t, mine) => AheadOf(w, t, now)
  BY DEF AheadOf
<1>10. AheadOf(t, s, theirs) => AheadOf(t, w, theirs)
  BY <1>3 DEF AheadOf
<1>11. QED
  BY <1>2, <1>4, <1>5, <1>7, <1>8, <1>9, <1>10 DEF Link

\* The two devices and their messages satisfy what the lemmas on peers assume.
LEMMA PeersOfDevices ==
    ASSUME UsedOnceInv, NEW u \in Device
    PROVE  Peers(ratchet[u], ratchet[Other(u)], SentBy(u), SentBy(Other(u)))
<1>1. Other(u) \in Device
  BY OtherDevice
<1>2. /\ Sound(ratchet[u]) /\ Sound(ratchet[Other(u)])
      /\ ratchet[u].key[1] = u /\ ratchet[Other(u)].key[1] = Other(u)
      /\ sentMessages \subseteq MessageType
  BY <1>1 DEF UsedOnceInv, SoundInv
<1>3. \A m, o \in sentMessages : m.chain = o.chain /\ m.n = o.n => m = o
  BY DEF UsedOnceInv, MessageKeyUsedOnce
<1>4. QED
  BY <1>2, <1>3 DEF Peers, SentBy

LEMMA ReadableInit == RatchetInit => ReadableInv
<1> SUFFICES ASSUME RatchetInit PROVE ReadableInv
  OBVIOUS
<1>1. PICK r \in Root : ratchet = [u \in Device |-> InitChains(u, r)]
  BY AgreedStates
<1>2. sentMessages = {} /\ refused = {} /\ delivered = {}
  BY DEF RatchetInit
<1>3. ASSUME NEW u \in Device
      PROVE  Link(ratchet[u], ratchet[Other(u)], SentBy(u), SentBy(Other(u)), delivered)
  <2> DEFINE s == ratchet[u]
             t == ratchet[Other(u)]
  <2>1. Other(u) \in Device /\ Other(Other(u)) = u
    BY OtherDevice
  <2>2. s = InitChains(u, r) /\ t = InitChains(Other(u), r)
    BY <1>1, <2>1
  <2>3. /\ s.root = r /\ s.send = Chain(r, u) /\ s.recv = Chain(r, Other(u))
        /\ s.received = 0 /\ s.key = <<u, 1>> /\ s.remote = NoKey /\ s.stored = <<>>
    BY <2>2, InitialState
  <2>4. /\ t.root = r /\ t.send = Chain(r, Other(u)) /\ t.recv = Chain(r, u)
        /\ t.received = 0 /\ t.key = <<Other(u), 1>> /\ t.remote = NoKey /\ t.stored = <<>>
    BY <2>1, <2>2, InitialState
  <2>5. SentBy(u) = {} /\ SentBy(Other(u)) = {}
    BY <1>2 DEF SentBy
  <2>6. s.key # NoKey /\ t.key # NoKey /\ s.key[2] = 1 /\ t.key[2] = 1
    BY <2>3, <2>4 DEF NoKey
  <2>7. Entries(s.stored) = {} /\ Entries(t.stored) = {}
    BY <2>3, <2>4 DEF Entries
  <2> HIDE DEF s, t
  <2>8. SenderFacts(s, {}) /\ SenderFacts(t, {})
    BY <2>6 DEF SenderFacts
  <2>9. RecipientFacts(s, t, {}, delivered) /\ RecipientFacts(t, s, {}, delivered)
    BY <2>3, <2>4, <2>6, <2>7 DEF RecipientFacts, StoreFacts
  <2>10. Together(s, t)
    BY <2>3, <2>4, <2>6 DEF Together
  <2>11. QED
    BY <2>5, <2>8, <2>9, <2>10 DEF Link, s, t
<1>4. QED
  BY <1>2, <1>3 DEF ReadableInv, LinkInv

LEMMA ReadableEncrypt ==
    ASSUME UsedOnceInv, ReadableInv, NEW u \in Device, RatchetEncrypt(u)
    PROVE  ReadableInv'
<1> DEFINE v == Other(u)
           s == ratchet[u]
           t == ratchet[v]
           m == Message(Cardinality(sentMessages), s)
           w == [s EXCEPT !.sent = NextCounter(s)]
<1>1. /\ sentMessages' = sentMessages \cup {m} /\ ratchet' = [ratchet EXCEPT ![u] = w]
      /\ delivered' = delivered /\ refused' = refused /\ spoiled' = spoiled
  BY DEF RatchetEncrypt
<1>2. CASE spoiled
  BY <1>1, <1>2 DEF ReadableInv
<1>3. CASE ~spoiled
  <2>1. refused = {} /\ LinkInv
    BY <1>3 DEF ReadableInv
  <2>2. v \in Device /\ v # u /\ Other(v) = u /\ Device = {u, v}
    BY OtherDevice DEF Device
  <2>3. Peers(s, t, SentBy(u), SentBy(v)) /\ Link(s, t, SentBy(u), SentBy(v), delivered)
    BY <2>1, PeersOfDevices DEF LinkInv
  <2>4. SoundInv
    BY DEF UsedOnceInv
  <2>5. /\ m \in MessageType /\ m.by = u /\ m.key = s.key /\ m.n = s.sent
        /\ m.prev = s.prev /\ m.chain = s.send
        /\ w.root = s.root /\ w.send = s.send /\ w.recv = s.recv /\ w.sent = s.sent + 1
        /\ w.received = s.received /\ w.prev = s.prev /\ w.key = s.key /\ w.remote = s.remote
        /\ w.stored = s.stored /\ w.dropped = s.dropped
    BY <2>4, SentMessage
  <2>6. ratchet'[u] = w /\ ratchet'[v] = t
    BY <1>1, <2>2, <2>4 DEF SoundInv
  <2> HIDE DEF v, s, t, m, w
  <2>7. Link(w, t, SentBy(u) \cup {m}, SentBy(v), delivered)
    BY <2>3, <2>5, SentLink
  <2>8. SentBy(u)' = SentBy(u) \cup {m} /\ SentBy(v)' = SentBy(v)
    BY <1>1, <2>2, <2>5 DEF SentBy
  <2>9. Link(ratchet'[u], ratchet'[v], SentBy(u)', SentBy(v)', delivered')
    BY <1>1, <2>6, <2>7, <2>8
  <2>10. Link(ratchet'[v], ratchet'[u], SentBy(v)', SentBy(u)', delivered')
    BY <2>9, LinkSymmetry
  <2>11. LinkInv'
    <3>1. ASSUME NEW x \in Device
          PROVE  Link(ratchet'[x], ratchet'[Other(x)], SentBy(x)', SentBy(Other(x))', delivered')
      <4>1. CASE x = u
        BY <2>9, <4>1 DEF v
      <4>2. CASE x = v
        BY <2>2, <2>10, <4>2
      <4>3. QED
        BY <2>2, <4>1, <4>2
    <3>2. QED
      BY <3>1 DEF LinkInv
  <2>12. QED
    BY <1>1, <2>1, <2>11 DEF ReadableInv
<1>4. QED
  BY <1>2, <1>3

\* The history of a delivery: what is refused without a reason, and what spoils a state.
LEMMA DeliveryHistory ==
    ASSUME NEW m, NEW intact \in BOOLEAN, RatchetDecrypt(m, intact), ~spoiled', refused = {}
    PROVE  LET t == ratchet[Other(m.by)]
               d == Decrypt(t, m, intact)
           IN /\ ~spoiled
              /\ d.result = "failed" /\ (~intact \/ Crossing(t, m) \/ Late(t, m)) => ~inPlace
              /\ \/ ~intact \/ m \in delivered \/ Crossing(t, m) \/ Dropped(t, m)
                 \/ ~(d.result \in {"failed", "expired"})
                 => refused' = {}
<1> DEFINE t == ratchet[Other(m.by)]
           d == Decrypt(t, m, intact)
           new == intact /\ m \notin delivered
           odd == Crossing(t, m) \/ Dropped(t, m)
           bad == new /\ ~odd /\ d.result \in {"failed", "expired"}
<1>1. /\ refused' = refused \cup {o \in {m} : bad}
      /\ spoiled' = (\/ spoiled
                     \/ /\ inPlace /\ d.result = "failed"
                        /\ ~intact \/ Crossing(t, m) \/ Late(t, m))
  BY Zenon DEF RatchetDecrypt
<1>2. /\ ~spoiled
      /\ d.result = "failed" /\ (~intact \/ Crossing(t, m) \/ Late(t, m)) => ~inPlace
  BY <1>1, Zenon
<1>3. \/ ~intact \/ m \in delivered \/ Crossing(t, m) \/ Dropped(t, m)
      \/ ~(d.result \in {"failed", "expired"})
      => ~bad
  BY Zenon
<1> HIDE DEF bad
<1>4. ~bad => refused' = {}
  BY <1>1
<1> HIDE DEF t, d
<1>5. QED
  BY <1>2, <1>3, <1>4, Zenon DEF t, d

LEMMA ReadableDecrypt ==
    ASSUME UsedOnceInv, ReadableInv, NEW m \in sentMessages, NEW intact \in BOOLEAN,
           RatchetDecrypt(m, intact)
    PROVE  ReadableInv'
<1> DEFINE v == m.by
           u == Other(v)
           s == ratchet[v]
           t == ratchet[u]
           d == Decrypt(t, m, intact)
           mine == SentBy(v)
           theirs == SentBy(u)
<1>1. CASE spoiled'
  BY <1>1 DEF ReadableInv
<1>2. CASE ~spoiled'
  <2>0. SoundInv
    BY DEF UsedOnceInv
  <2>1. ~spoiled
    BY <1>2, Zenon DEF RatchetDecrypt
  <2>2. refused = {} /\ LinkInv
    BY <2>1 DEF ReadableInv
  <2>3. m \in MessageType /\ v \in Device /\ ratchet \in [Device -> StateType]
    BY <2>0, MessageFields DEF SoundInv
  <2>4. u \in Device /\ u # v /\ Other(u) = v /\ Device = {u, v}
    BY <2>3, OtherDevice DEF Device
  <2>5. Peers(s, t, mine, theirs) /\ Link(s, t, mine, theirs, delivered) /\ m \in mine
    BY <2>2, <2>3, PeersOfDevices DEF LinkInv, SentBy
  <2>6. t \in StateType
    BY <2>3, <2>4
  <2>7. /\ \E x : /\ \/ (inPlace \/ d.result = "read") /\ x = d.state
                     \/ ~(inPlace \/ d.result = "read") /\ x = t
                  /\ ratchet' = [ratchet EXCEPT ![u] = x]
        /\ sentMessages' = sentMessages
        /\ delivered' = IF intact /\ d.result # "too far" THEN delivered \cup {m}
                        ELSE delivered
    BY <2>0, DeliveredState
  <2>8. /\ d.result = "failed" /\ (~intact \/ Crossing(t, m) \/ Late(t, m)) => ~inPlace
        /\ \/ ~intact \/ m \in delivered \/ Crossing(t, m) \/ Dropped(t, m)
           \/ ~(d.result \in {"failed", "expired"})
           => refused' = {}
    BY <1>2, <2>2, DeliveryHistory
  <2>9. /\ d.result \in {"read", "failed"} \/ d.state = t
        /\ d.result \in {"read", "failed", "expired", "too far"}
        /\ d.result = "read" => intact
    BY <2>3, <2>6, RefusalKeepsState
  <2>10. intact => Handled(s, t, d, mine, theirs, delivered, m)
    <3>1. CASE intact
      <4>1. intact = TRUE
        BY <3>1
      <4>2. QED
        BY <2>5, <4>1, MessageHandled
    <3>2. QED
      BY <3>1
  <2> HIDE DEF v, u, s, t, d, mine, theirs
  <2>11. PICK x : /\ \/ (inPlace \/ d.result = "read") /\ x = d.state
                     \/ ~(inPlace \/ d.result = "read") /\ x = t
                  /\ ratchet' = [ratchet EXCEPT ![u] = x]
    BY <2>7
  <2>12. ratchet'[u] = x /\ ratchet'[v] = s
    BY <2>3, <2>4, <2>11 DEF s
  <2>13. delivered \subseteq delivered'
    BY <2>7
  <2>14. OfEarlier(t, m, delivered) => Late(t, m) /\ (m \in delivered \/ Dropped(t, m))
    BY DEF OfEarlier, Late
  <2>15. refused' = {}
    BY <2>8, <2>9, <2>10, <2>14 DEF Handled
  <2>16. Link(s, x, mine, theirs, delivered')
    <3>1. CASE x = t
      BY <2>5, <2>13, <3>1, LinkMonotone
    <3>2. CASE x # t
      <4>1. d.result = "read" \/ (inPlace /\ d.result = "failed")
        BY <2>9, <2>11, <3>2
      <4>2. ~(inPlace /\ d.result = "failed")
        <5>1. ~(inPlace /\ d.result = "failed" /\ ~intact)
          BY <2>8
        <5>2. ~(inPlace /\ d.result = "failed" /\ intact)
          BY <2>8, <2>10, <2>14 DEF Handled
        <5>3. QED
          BY <5>1, <5>2
      <4>3. d.result = "read" /\ intact /\ x = d.state
        BY <2>9, <2>11, <4>1, <4>2
      <4>4. Link(s, d.state, mine, theirs, delivered \cup {m})
        BY <2>10, <4>3 DEF Handled
      <4>5. delivered' = delivered \cup {m}
        BY <2>7, <4>3
      <4>6. QED
        BY <4>3, <4>4, <4>5
    <3>3. QED
      BY <3>1, <3>2
  <2>17. SentBy(v)' = mine /\ SentBy(u)' = theirs
    BY <2>7 DEF SentBy, mine, theirs, v, u
  <2>18. Link(ratchet'[v], ratchet'[u], SentBy(v)', SentBy(u)', delivered')
    BY <2>12, <2>16, <2>17
  <2>19. Link(ratchet'[u], ratchet'[v], SentBy(u)', SentBy(v)', delivered')
    BY <2>18, LinkSymmetry
  <2>20. ASSUME NEW y \in Device
         PROVE  Link(ratchet'[y], ratchet'[Other(y)], SentBy(y)', SentBy(Other(y))', delivered')
    <3>1. CASE y = u
      BY <2>4, <2>19, <3>1
    <3>2. CASE y = v
      BY <2>18, <3>2 DEF u
    <3>3. QED
      BY <2>4, <3>1, <3>2
  <2>21. LinkInv'
    BY <2>20 DEF LinkInv
  <2>22. QED
    BY <2>15, <2>21 DEF ReadableInv
<1>3. QED
  BY <1>1, <1>2

LEMMA ReadableStep ==
    UsedOnceInv /\ ReadableInv /\ [RatchetNext]_ratchetVars => ReadableInv'
<1> SUFFICES ASSUME UsedOnceInv, ReadableInv, [RatchetNext]_ratchetVars PROVE ReadableInv'
  OBVIOUS
<1>1. ASSUME NEW u \in Device, RatchetEncrypt(u) PROVE ReadableInv'
  BY <1>1, ReadableEncrypt
<1>2. ASSUME NEW m \in sentMessages, NEW intact \in BOOLEAN, RatchetDecrypt(m, intact)
      PROVE  ReadableInv'
  BY <1>2, ReadableDecrypt
<1>3. CASE UNCHANGED ratchetVars
  BY <1>3 DEF ratchetVars, ReadableInv, LinkInv, SentBy
<1>4. QED
  BY <1>1, <1>2, <1>3 DEF RatchetNext

\* Every message is read when it arrives first, in whatever order, unless it is too far
\* ahead, its key was dropped, both sides had sent first, or the state was spoiled before.
THEOREM MessagesReadable == RatchetSpec => []EveryMessageReadable
<1>1. ReadableInv => EveryMessageReadable
  BY DEF ReadableInv, EveryMessageReadable
<1>2. QED
  BY UsedOnceInit, UsedOnceStep, ReadableInit, ReadableStep, <1>1, PTL DEF RatchetSpec
-----------------------------------------------------------------------------
(* The bounds of the counters and of the store.                            *)

\* An index of the store for each name, so that there are as many names as entries.
LEMMA NamesOfStore ==
    ASSUME NEW q \in Seq(EntryType),
           \A i, j \in DOMAIN q : q[i].key = q[j].key /\ q[i].n = q[j].n => i = j
    PROVE  Cardinality(KeyNames(q)) = Len(q)
<1> DEFINE S == KeyNames(q)
           f == [i \in 1..Len(q) |-> <<q[i].key, q[i].n>>]
<1>1. DOMAIN q = 1..Len(q) /\ Len(q) \in Nat
  OBVIOUS
<1>2. f \in [1..Len(q) -> S]
  BY <1>1 DEF KeyNames
<1>3. ASSUME NEW i \in 1..Len(q), NEW j \in 1..Len(q), f[i] = f[j] PROVE i = j
  BY <1>1, <1>3
<1>4. ASSUME NEW y \in S PROVE \E i \in 1..Len(q) : f[i] = y
  BY <1>1, <1>4 DEF KeyNames
<1> HIDE DEF S, f
<1>5. f \in Bijection(1..Len(q), S)
  BY <1>2, <1>3, <1>4, Fun_IsBij
<1>6. ExistsBijection(1..Len(q), S)
  BY <1>5, Fun_ExistsBij
<1>7. QED
  BY <1>1, <1>6, FS_CountingElements DEF S

\* What decrypting with the receiving chain does to the counters.
LEMMA CurrentCounters ==
    ASSUME NEW s \in StateType, NEW m \in MessageType, NEW intact \in BOOLEAN
    PROVE  LET t == DecryptCurrent(s, m, intact).state
           IN /\ t \in StateType /\ t.sent = s.sent /\ t.key = s.key
              /\ t.received \in {s.received, m.n + 1}
<1> DEFINE t == DecryptCurrent(s, m, intact).state
           a == Advanced(s, m)
<1>1. m.n \in Nat /\ s.received \in Nat
  BY MessageFields, StateFields
<1>2. m.n >= s.received => /\ a \in StateType /\ a.sent = s.sent /\ a.key = s.key
                           /\ a.received = m.n + 1
  BY AdvancedState
<1>3. /\ m.n < s.received => t = s
      /\ m.n >= s.received /\ TooFar(s, m.n) => t = s
      /\ m.n >= s.received /\ ~TooFar(s, m.n) => t = a
  BY CurrentChain
<1> HIDE DEF t, a
<1>4. CASE t = s
  BY <1>4 DEF t
<1>5. CASE m.n >= s.received /\ t = a
  BY <1>2, <1>5 DEF t
<1>6. QED
  BY <1>1, <1>3, <1>4, <1>5

\* Decrypting sets a counter to the one after the message, sets it to zero or leaves it,
\* and takes at most one new key pair.
LEMMA DecryptCounters ==
    ASSUME NEW s \in StateType, NEW m \in MessageType, NEW intact \in BOOLEAN
    PROVE  LET t == Decrypt(s, m, intact).state
           IN /\ t.received \in {0, s.received, m.n + 1} /\ t.sent \in {0, s.sent}
              /\ t.key \in {s.key, FreshKey(s)}
<1> DEFINE d == Decrypt(s, m, intact)
           t == d.state
           c == DecryptCurrent(s, m, intact)
<1>1. CASE Found(s.stored, m) # {}
  <2>1. t = Taken(s, m)
    BY <1>1, StoredKeyCase
  <2>2. Taken(s, m).received = s.received /\ Taken(s, m).sent = s.sent /\ Taken(s, m).key = s.key
    BY <1>1, TakenState
  <2> HIDE DEF d
  <2>3. QED
    BY <2>1, <2>2 DEF d
<1>2. CASE Found(s.stored, m) = {} /\ NeedsStep(s, m) /\ StepTooFar(s, m)
  <2>1. t = s
    BY <1>2, StepRefusedCase
  <2> HIDE DEF d
  <2>2. QED
    BY <2>1 DEF d
<1>3. CASE Found(s.stored, m) = {} /\ NeedsStep(s, m) /\ ~StepTooFar(s, m)
  <2> DEFINE r == RatchetStep(s, m)
  <2>1. d = DecryptCurrent(r, m, intact)
    BY <1>3, StepCase
  <2>2. r \in StateType /\ r.sent = 0 /\ r.received = 0 /\ r.key = FreshKey(s)
    BY SteppedState
  <2> HIDE DEF r, d
  <2>3. t.sent = 0 /\ t.key = FreshKey(s) /\ t.received \in {0, m.n + 1}
    BY <2>1, <2>2, CurrentCounters
  <2>4. QED
    BY <2>3 DEF d
<1>4. CASE Found(s.stored, m) = {} /\ ~NeedsStep(s, m)
  <2>1. /\ c.state \in StateType /\ c.state.sent = s.sent /\ c.state.key = s.key
        /\ c.state.received \in {s.received, m.n + 1}
    BY CurrentCounters
  <2>2. CASE c.result = "read" /\ s.remote = NoKey
    <3> DEFINE r == FirstResponse(c.state, m)
    <3>1. t = r
      BY <1>4, <2>2, FirstResponseCase
    <3>2. FreshKey(c.state) = FreshKey(s)
      BY <2>1 DEF FreshKey
    <3> HIDE DEF c, d
    <3>3. r.sent = 0 /\ r.received = c.state.received /\ r.key = FreshKey(c.state)
      BY <2>1, RespondedState
    <3> HIDE DEF r
    <3>4. QED
      BY <2>1, <3>1, <3>2, <3>3 DEF d
  <2>3. CASE ~(c.result = "read" /\ s.remote = NoKey)
    <3>1. d = c
      BY <1>4, <2>3, CurrentChainCase
    <3> HIDE DEF c, d
    <3>2. QED
      BY <2>1, <3>1 DEF d
  <2>4. QED
    BY <2>2, <2>3
<1>5. QED
  BY <1>1, <1>2, <1>3, <1>4

\* Messages are numbered in the order they are sent, which bounds every counter.
CountsInv ==
    /\ Cardinality(sentMessages) =< MaxMessages
    /\ \A m \in sentMessages : m.id < Cardinality(sentMessages) /\ m.n < MaxMessages
    /\ \A u \in Device : /\ ratchet[u].sent =< Cardinality(sentMessages)
                         /\ ratchet[u].received =< MaxMessages
                         /\ ratchet[u].key[2] \in 1..MaxPairs

LEMMA CountsInit == RatchetInit => CountsInv
<1> SUFFICES ASSUME RatchetInit PROVE CountsInv
  OBVIOUS
<1>1. PICK r \in Root : ratchet = [u \in Device |-> InitChains(u, r)]
  BY AgreedStates
<1>2. sentMessages = {} /\ Cardinality(sentMessages) = 0
  BY FS_EmptySet DEF RatchetInit
<1>3. ASSUME NEW u \in Device
      PROVE  ratchet[u].sent = 0 /\ ratchet[u].received = 0 /\ ratchet[u].key[2] = 1
  <2>1. ratchet[u] = InitChains(u, r)
    BY <1>1
  <2>2. /\ InitChains(u, r).sent = 0 /\ InitChains(u, r).received = 0
        /\ InitChains(u, r).key = <<u, 1>>
    BY InitialState
  <2>3. QED
    BY <2>1, <2>2
<1>4. MaxMessages \in Nat /\ 1 \in 1..MaxPairs
  BY RatchetAssumption DEF RatchetAssumption
<1>5. QED
  BY <1>2, <1>3, <1>4 DEF CountsInv

LEMMA CountsEncrypt ==
    ASSUME SoundInv, CountsInv, NEW u \in Device, RatchetEncrypt(u)
    PROVE  CountsInv'
<1> DEFINE s == ratchet[u]
           c == Cardinality(sentMessages)
           m == Message(c, s)
           t == [s EXCEPT !.sent = NextCounter(s)]
<1>1. /\ m \in MessageType /\ m.n = s.sent /\ m.id = c
      /\ t.sent = s.sent + 1 /\ t.received = s.received /\ t.key = s.key
  BY SentMessage
<1>2. s \in StateType /\ s.sent \in Nat
  BY StateFields DEF SoundInv
<1>3. /\ c < MaxMessages /\ sentMessages' = sentMessages \cup {m}
      /\ ratchet' = [ratchet EXCEPT ![u] = t]
  <2>1. ratchet' = [ratchet EXCEPT ![u].sent = NextCounter(ratchet[u])]
    BY DEF RatchetEncrypt
  <2>2. QED
    BY <2>1 DEF RatchetEncrypt
<1>4. c \in Nat /\ MaxMessages \in Nat /\ IsFiniteSet(sentMessages)
  BY FS_CardinalityType, RatchetConstants DEF SoundInv
<1>5. s.sent =< c /\ s.received =< MaxMessages /\ s.key[2] \in 1..MaxPairs
  BY DEF CountsInv
<1> HIDE DEF s, m, t
<1>6. m \notin sentMessages
  BY <1>1, <1>4 DEF CountsInv
<1>7. Cardinality(sentMessages') = c + 1
  BY <1>3, <1>4, <1>6, FS_AddElement
<1>8. ASSUME NEW v \in Device
      PROVE  /\ ratchet'[v].sent =< c + 1 /\ ratchet'[v].received =< MaxMessages
             /\ ratchet'[v].key[2] \in 1..MaxPairs
  <2>1. CASE v = u
    <3>1. ratchet'[v] = t
      BY <1>3, <2>1 DEF SoundInv
    <3>2. QED
      BY <1>1, <1>2, <1>4, <1>5, <3>1
  <2>2. CASE v # u
    <3>1. ratchet'[v] = ratchet[v]
      BY <1>3, <2>2 DEF SoundInv
    <3>2. ratchet[v].sent \in Nat
      BY StateFields DEF SoundInv
    <3>3. QED
      BY <1>4, <3>1, <3>2 DEF CountsInv
  <2>3. QED
    BY <2>1, <2>2
<1>9. ASSUME NEW o \in sentMessages' PROVE o.id < c + 1 /\ o.n < MaxMessages
  <2>1. CASE o = m
    BY <1>1, <1>2, <1>3, <1>4, <1>5, <2>1
  <2>2. CASE o \in sentMessages
    <3>1. o.id \in Nat
      BY <2>2, MessageFields DEF SoundInv
    <3>2. QED
      BY <1>4, <2>2, <3>1 DEF CountsInv
  <2>3. QED
    BY <1>3, <2>1, <2>2
<1>10. c + 1 =< MaxMessages
  BY <1>3, <1>4
<1>11. QED
  BY <1>7, <1>8, <1>9, <1>10 DEF CountsInv

LEMMA CountsDecrypt ==
    ASSUME SoundInv, CountsInv, NEW m \in sentMessages, NEW intact \in BOOLEAN,
           RatchetDecrypt(m, intact)
    PROVE  CountsInv'
<1> DEFINE u == Other(m.by)
           s == ratchet[u]
           d == Decrypt(s, m, intact)
<1>1. /\ u \in Device /\ Sound(s) /\ m \in MessageType
      /\ \E t : /\ \/ (inPlace \/ d.result = "read") /\ t = d.state
                   \/ ~(inPlace \/ d.result = "read") /\ t = s
                /\ ratchet' = [ratchet EXCEPT ![u] = t]
      /\ d.state.key[2] =< MaxPairs
      /\ sentMessages' = sentMessages
  BY DeliveredState
<1>2. s \in StateType /\ m.n \in Nat
  BY <1>1, MessageFields DEF Sound
<1>3. /\ d.state.received \in {0, s.received, m.n + 1} /\ d.state.sent \in {0, s.sent}
      /\ d.state.key \in {s.key, FreshKey(s)}
  BY <1>1, <1>2, DecryptCounters
<1>4. FreshKey(s)[2] = s.key[2] + 1 /\ s.key[2] \in Nat
  BY <1>2, FreshKeys
<1>5. /\ s.sent =< Cardinality(sentMessages) /\ s.received =< MaxMessages
      /\ s.key[2] \in 1..MaxPairs /\ m.n < MaxMessages
  BY <1>1 DEF CountsInv
<1>6. Cardinality(sentMessages) \in Nat /\ MaxMessages \in Nat /\ MaxPairs \in Nat
  BY FS_CardinalityType, RatchetConstants DEF SoundInv
<1> HIDE DEF d, s, u
<1>7. /\ d.state.sent =< Cardinality(sentMessages) /\ d.state.received =< MaxMessages
      /\ d.state.key[2] \in 1..MaxPairs
  <2>1. d.state.sent =< Cardinality(sentMessages)
    BY <1>3, <1>5, <1>6
  <2>2. d.state.received =< MaxMessages
    BY <1>2, <1>3, <1>5, <1>6
  <2>3. d.state.key[2] \in {s.key[2], s.key[2] + 1}
    BY <1>3, <1>4
  <2>4. d.state.key[2] \in 1..MaxPairs
    BY <1>1, <1>4, <1>5, <1>6, <2>3
  <2>5. QED
    BY <2>1, <2>2, <2>4
<1>8. PICK t : (t = d.state \/ t = s) /\ ratchet' = [ratchet EXCEPT ![u] = t]
  BY <1>1
<1>9. ASSUME NEW v \in Device
      PROVE  /\ ratchet'[v].sent =< Cardinality(sentMessages)
             /\ ratchet'[v].received =< MaxMessages /\ ratchet'[v].key[2] \in 1..MaxPairs
  <2>1. CASE v = u
    <3>1. ratchet'[v] = t
      BY <1>8, <2>1 DEF SoundInv
    <3>2. QED
      BY <1>5, <1>7, <1>8, <3>1
  <2>2. CASE v # u
    BY <1>8, <2>2 DEF SoundInv, CountsInv
  <2>3. QED
    BY <2>1, <2>2
<1>10. QED
  BY <1>1, <1>9 DEF CountsInv

LEMMA CountsStep == SoundInv /\ CountsInv /\ [RatchetNext]_ratchetVars => CountsInv'
<1> SUFFICES ASSUME SoundInv, CountsInv, [RatchetNext]_ratchetVars PROVE CountsInv'
  OBVIOUS
<1>1. ASSUME NEW u \in Device, RatchetEncrypt(u) PROVE CountsInv'
  BY <1>1, CountsEncrypt
<1>2. ASSUME NEW m \in sentMessages, NEW intact \in BOOLEAN, RatchetDecrypt(m, intact)
      PROVE  CountsInv'
  BY <1>2, CountsDecrypt
<1>3. CASE UNCHANGED ratchetVars
  BY <1>3 DEF ratchetVars, CountsInv
<1>4. QED
  BY <1>1, <1>2, <1>3 DEF RatchetNext

\* The store never exceeds its limit, and holds no key twice as long as no state is
\* spoiled; the counters stay within their bounds.
THEOREM RatchetTyped == RatchetSpec => []RatchetTypeOK
<1>1. UsedOnceInv /\ ReadableInv /\ CountsInv => RatchetTypeOK
  <2> SUFFICES ASSUME UsedOnceInv, ReadableInv, CountsInv, NEW u \in Device
               PROVE  /\ Len(ratchet[u].stored) =< MaxStored
                      /\ \/ spoiled
                         \/ Cardinality(KeyNames(ratchet[u].stored)) = Len(ratchet[u].stored)
                      /\ ratchet[u].key[1] = u /\ ratchet[u].key[2] \in 1..MaxPairs
                      /\ ratchet[u].sent \in 0..MaxMessages
                      /\ ratchet[u].received \in 0..MaxMessages + MaxSkip
    BY DEF RatchetTypeOK
  <2> DEFINE s == ratchet[u]
             q == s.stored
  <2>1. /\ Sound(s) /\ s.key[1] = u /\ s \in StateType
    BY DEF UsedOnceInv, SoundInv, Sound
  <2>2. s.sent \in Nat /\ s.received \in Nat /\ q \in Seq(EntryType)
    BY <2>1, StateFields
  <2>3. /\ Cardinality(sentMessages) \in Nat /\ MaxMessages \in Nat /\ MaxSkip \in Nat
    BY FS_CardinalityType, RatchetConstants DEF UsedOnceInv, SoundInv
  <2>4. /\ s.key[2] \in 1..MaxPairs /\ s.sent =< Cardinality(sentMessages)
        /\ Cardinality(sentMessages) =< MaxMessages /\ s.received =< MaxMessages
    BY DEF CountsInv
  <2> HIDE DEF s
  <2>5. s.sent \in 0..MaxMessages /\ s.received \in 0..MaxMessages + MaxSkip
    BY <2>2, <2>3, <2>4
  <2>6. Len(q) =< MaxStored /\ Distinct(q)
    BY <2>1 DEF Sound, WellStored
  <2>7. ASSUME ~spoiled PROVE Cardinality(KeyNames(q)) = Len(q)
    <3>1. Other(u) \in Device /\ Other(Other(u)) = u
      BY OtherDevice
    <3> DEFINE t == ratchet[Other(u)]
    <3>2. Link(t, ratchet[Other(Other(u))], SentBy(Other(u)), SentBy(Other(Other(u))), delivered)
      BY <2>7, <3>1 DEF ReadableInv, LinkInv
    <3>3. \A e, f \in Entries(q) : e.key = f.key => e.chain = f.chain
      <4>1. Link(t, s, SentBy(Other(u)), SentBy(Other(Other(u))), delivered)
        BY <3>1, <3>2 DEF s
      <4> HIDE DEF t
      <4>2. RecipientFacts(t, s, SentBy(Other(u)), delivered)
        BY <4>1 DEF Link
      <4>3. StoreFacts(Entries(q), t.key, s.remote, s.recv, SentBy(Other(u)))
        BY <4>2 DEF RecipientFacts
      <4>4. QED
        BY <4>3 DEF StoreFacts
    <3>4. ASSUME NEW i \in DOMAIN q, NEW j \in DOMAIN q, q[i].key = q[j].key, q[i].n = q[j].n
          PROVE  i = j
      <4>1. q[i] \in Entries(q) /\ q[j] \in Entries(q)
        BY DEF Entries
      <4>2. q[i].chain = q[j].chain
        BY <3>3, <3>4, <4>1
      <4>3. QED
        BY <2>6, <3>4, <4>2, Zenon DEF Distinct
    <3> HIDE DEF q
    <3>5. QED
      BY <2>2, <3>4, NamesOfStore
  <2>8. spoiled \/ Cardinality(KeyNames(q)) = Len(q)
    BY <2>7
  <2>9. QED
    BY <2>1, <2>4, <2>5, <2>6, <2>8 DEF s
<1>2. UsedOnceInv => SoundInv
  BY DEF UsedOnceInv
<1>3. QED
  BY UsedOnceInit, UsedOnceStep, ReadableInit, ReadableStep, CountsInit, CountsStep, <1>1, <1>2,
     PTL DEF RatchetSpec
=============================================================================
