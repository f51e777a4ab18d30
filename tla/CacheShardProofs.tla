--------------------------- MODULE CacheShardProofs ---------------------------
(* Proofs about CacheShard: the list and the map agree after every step,    *)
(* and a shard implements FrontlineCache.                                  *)
EXTENDS CacheShard, FiniteSetTheorems, TLAPS

-------------------------------------------------------------------------------
(* Sequences of nodes.                                                     *)

(* When a key has one node, the place of the key is the place of the node. *)
LEMMA PlaceOfKey ==
    ASSUME NEW s, \A i, j \in DOMAIN s : s[i].key = s[j].key => i = j,
           NEW n \in DOMAIN s
    PROVE  (CHOOSE i \in DOMAIN s : s[i].key = s[n].key) = n
OBVIOUS

(* RemoveAt closes the gap. *)
LEMMA RemoveAtClosesGap ==
    ASSUME NEW S, NEW s \in Seq(S), NEW n \in 1 .. Len(s)
    PROVE  /\ RemoveAt(s, n) \in Seq(S)
           /\ Len(RemoveAt(s, n)) = Len(s) - 1
           /\ \A i \in 1 .. Len(s) - 1 : RemoveAt(s, n)[i] = s[IF i < n THEN i ELSE i + 1]
<1> DEFINE before == SubSeq(s, 1, n - 1)
           after == SubSeq(s, n + 1, Len(s))
<1>1. /\ before \in Seq(S)
      /\ Len(before) = n - 1
      /\ \A i \in 1 .. n - 1 : before[i] = s[i]
    OBVIOUS
<1>2. /\ after \in Seq(S)
      /\ Len(after) = Len(s) - n
      /\ \A i \in 1 .. Len(s) - n : after[i] = s[n + i]
    OBVIOUS
<1> HIDE DEF before, after
<1>3. before \o after \in Seq(S) /\ Len(before \o after) = Len(s) - 1
    BY <1>1, <1>2
<1>4. ASSUME NEW i \in 1 .. Len(s) - 1
      PROVE  (before \o after)[i] = s[IF i < n THEN i ELSE i + 1]
    <2>1. (before \o after)[i] = IF i <= Len(before) THEN before[i] ELSE after[i - Len(before)]
        BY <1>1, <1>2
    <2>2. CASE i < n
        BY <1>1, <2>1, <2>2
    <2>3. CASE ~ (i < n)
        <3>1. i - (n - 1) \in 1 .. Len(s) - n /\ n + (i - (n - 1)) = i + 1
            BY <2>3
        <3>2. (before \o after)[i] = after[i - (n - 1)]
            BY <1>1, <2>1, <2>3
        <3>3. after[i - (n - 1)] = s[n + (i - (n - 1))]
            BY <1>2, <3>1
        <3> QED
            BY <2>3, <3>1, <3>2, <3>3
    <2> QED
        BY <2>2, <2>3
<1> QED
    BY <1>3, <1>4 DEF RemoveAt, before, after

(* A node put in front moves the others by one. *)
LEMMA PutInFront ==
    ASSUME NEW S, NEW s \in Seq(S), NEW e \in S
    PROVE  /\ <<e>> \o s \in Seq(S)
           /\ Len(<<e>> \o s) = Len(s) + 1
           /\ (<<e>> \o s)[1] = e
           /\ \A i \in 2 .. Len(s) + 1 : (<<e>> \o s)[i] = s[i - 1]
OBVIOUS

(* Taking the first or the last node away is removing it at its place. *)
LEMMA EndsAreRemovals ==
    ASSUME NEW S, NEW s \in Seq(S), s # <<>>
    PROVE  /\ Len(s) \in 1 .. Len(s)
           /\ 1 \in 1 .. Len(s)
           /\ Tail(s) = RemoveAt(s, 1)
           /\ Front(s) = RemoveAt(s, Len(s))
<1>1. Len(s) \in Nat \ {0}
    OBVIOUS
<1>2. Tail(s) \in Seq(S) /\ Len(Tail(s)) = Len(s) - 1 /\ \A i \in 1 .. Len(s) - 1 : Tail(s)[i] = s[i + 1]
    OBVIOUS
<1>3. /\ Front(s) \in Seq(S)
      /\ Len(Front(s)) = Len(s) - 1
      /\ \A i \in 1 .. Len(s) - 1 : Front(s)[i] = s[i]
    <2>1. ASSUME NEW n \in 1 .. Len(s)
          PROVE  SubSeq(s, 1, n - 1) \in Seq(S) /\ Len(SubSeq(s, 1, n - 1)) = n - 1
        OBVIOUS
    <2>2. \A i \in 1 .. Len(s) - 1 : SubSeq(s, 1, Len(s) - 1)[i] = s[i]
        BY <1>1
    <2>3. Len(s) \in 1 .. Len(s)
        BY <1>1
    <2> QED
        BY <2>1, <2>2, <2>3 DEF Front
<1>4. ASSUME NEW t \in Seq(S), NEW u \in Seq(S), Len(t) = Len(u),
             \A i \in 1 .. Len(t) : t[i] = u[i]
      PROVE  t = u
    BY <1>4
<1>5. Tail(s) = RemoveAt(s, 1)
    <2>1. 1 \in 1 .. Len(s)
        BY <1>1
    <2>2. /\ RemoveAt(s, 1) \in Seq(S)
          /\ Len(RemoveAt(s, 1)) = Len(s) - 1
          /\ \A i \in 1 .. Len(s) - 1 : RemoveAt(s, 1)[i] = s[i + 1]
        BY <2>1, RemoveAtClosesGap
    <2> QED
        BY <1>2, <1>4, <2>2
<1>6. Front(s) = RemoveAt(s, Len(s))
    <2>1. Len(s) \in 1 .. Len(s)
        BY <1>1
    <2>2. /\ RemoveAt(s, Len(s)) \in Seq(S)
          /\ Len(RemoveAt(s, Len(s))) = Len(s) - 1
          /\ \A i \in 1 .. Len(s) - 1 : RemoveAt(s, Len(s))[i] = s[i]
        BY <1>1, <2>1, RemoveAtClosesGap
    <2> QED
        BY <1>3, <1>4, <2>2
<1> QED
    BY <1>1, <1>5, <1>6

-------------------------------------------------------------------------------
(* Lists of nodes as look-ups of keys.                                     *)

KeysOf(s) == {s[i].key : i \in DOMAIN s}
OneNodeEach(s) == \A i, j \in DOMAIN s : s[i].key = s[j].key => i = j

(* A list in which every key has at most one node. *)
Lists == {s \in Seq(Puts) : OneNodeEach(s)}

(* What a list holds for a key. *)
LookUp(s, k) ==
    IF k \in KeysOf(s) THEN s[CHOOSE i \in DOMAIN s : s[i].key = k].content ELSE None

(* A node is found under its key. *)
LEMMA NodeIsFound ==
    ASSUME NEW s \in Lists, NEW n \in DOMAIN s
    PROVE  LookUp(s, s[n].key) = s[n].content
BY PlaceOfKey DEF Lists, OneNodeEach, LookUp, KeysOf

(* Two lists hold the same for a key if a node of it is in both or none. *)
LEMMA SameLookUp ==
    ASSUME NEW s \in Lists, NEW t \in Lists, NEW k,
           k \in KeysOf(s) <=> k \in KeysOf(t),
           \A i \in DOMAIN s : s[i].key = k => \E j \in DOMAIN t : t[j] = s[i]
    PROVE  LookUp(s, k) = LookUp(t, k)
<1>1. CASE k \in KeysOf(s)
    <2>1. PICK i \in DOMAIN s : s[i].key = k
        BY <1>1 DEF KeysOf
    <2>2. PICK j \in DOMAIN t : t[j] = s[i]
        BY <2>1
    <2> QED
        BY <2>1, <2>2, NodeIsFound
<1> QED
    BY <1>1 DEF LookUp

(* Removing a node loses its key and nothing else. *)
LEMMA RemoveNode ==
    ASSUME NEW s \in Lists, NEW n \in 1 .. Len(s)
    PROVE  /\ RemoveAt(s, n) \in Lists
           /\ KeysOf(RemoveAt(s, n)) = KeysOf(s) \ {s[n].key}
           /\ \A k : k # s[n].key => LookUp(RemoveAt(s, n), k) = LookUp(s, k)
<1> DEFINE t == RemoveAt(s, n)
           Old(i) == IF i < n THEN i ELSE i + 1
           New(i) == IF i < n THEN i ELSE i - 1
<1>1. s \in Seq(Puts) /\ OneNodeEach(s) /\ DOMAIN s = 1 .. Len(s) /\ Len(s) \in Nat
    BY DEF Lists
<1>2. t \in Seq(Puts) /\ DOMAIN t = 1 .. Len(s) - 1 /\ \A i \in DOMAIN t : t[i] = s[Old(i)]
    <2>1. t \in Seq(Puts) /\ Len(t) = Len(s) - 1
        BY <1>1, RemoveAtClosesGap
    <2>2. \A i \in 1 .. Len(s) - 1 : t[i] = s[Old(i)]
        BY <1>1, RemoveAtClosesGap
    <2>3. DOMAIN t = 1 .. Len(s) - 1
        BY <2>1
    <2> QED
        BY <2>1, <2>2, <2>3
<1> HIDE DEF t
<1>3. \A i \in DOMAIN t : Old(i) \in DOMAIN s /\ Old(i) # n
    BY <1>1, <1>2
<1>4. ASSUME NEW i \in DOMAIN s, i # n PROVE New(i) \in DOMAIN t /\ t[New(i)] = s[i]
    <2>1. New(i) \in DOMAIN t /\ Old(New(i)) = i
        BY <1>1, <1>2, <1>4
    <2> QED
        BY <1>2, <2>1
<1>5. \A i, j \in DOMAIN t : Old(i) = Old(j) => i = j
    BY <1>2
<1> HIDE DEF Old, New
<1>6. t \in Lists
    BY <1>1, <1>2, <1>3, <1>5 DEF Lists, OneNodeEach
<1>7. KeysOf(t) = KeysOf(s) \ {s[n].key}
    <2>1. ASSUME NEW k \in KeysOf(t) PROVE k \in KeysOf(s) \ {s[n].key}
        BY <1>1, <1>2, <1>3 DEF KeysOf, OneNodeEach
    <2>2. ASSUME NEW k \in KeysOf(s) \ {s[n].key} PROVE k \in KeysOf(t)
        <3>1. PICK i \in DOMAIN s : s[i].key = k
            BY DEF KeysOf
        <3>2. i # n
            BY <3>1
        <3> QED
            BY <1>4, <3>1, <3>2 DEF KeysOf
    <2> QED
        BY <2>1, <2>2
<1>8. ASSUME NEW k, k # s[n].key PROVE LookUp(t, k) = LookUp(s, k)
    <2>1. \A i \in DOMAIN s : s[i].key = k => \E j \in DOMAIN t : t[j] = s[i]
        BY <1>4, <1>8
    <2> QED
        BY <1>6, <1>7, <1>8, <2>1, SameLookUp
<1> QED
    BY <1>6, <1>7, <1>8 DEF t

(* A node of a new key put in front adds its key and changes no other. *)
LEMMA AddNode ==
    ASSUME NEW s \in Lists, NEW e \in Puts, e.key \notin KeysOf(s)
    PROVE  /\ <<e>> \o s \in Lists
           /\ KeysOf(<<e>> \o s) = KeysOf(s) \cup {e.key}
           /\ LookUp(<<e>> \o s, e.key) = e.content
           /\ \A k : k # e.key => LookUp(<<e>> \o s, k) = LookUp(s, k)
<1> DEFINE t == <<e>> \o s
<1>1. s \in Seq(Puts) /\ OneNodeEach(s) /\ DOMAIN s = 1 .. Len(s) /\ Len(s) \in Nat
    BY DEF Lists
<1>2. /\ t \in Seq(Puts)
      /\ DOMAIN t = 1 .. Len(s) + 1
      /\ t[1] = e
      /\ \A i \in 2 .. Len(s) + 1 : t[i] = s[i - 1]
    BY <1>1, PutInFront
<1> HIDE DEF t
<1>3. \A i \in DOMAIN t : i # 1 => i - 1 \in DOMAIN s /\ t[i] = s[i - 1]
    BY <1>1, <1>2
<1>4. \A i \in DOMAIN s : i + 1 \in DOMAIN t /\ t[i + 1] = s[i]
    <2> SUFFICES ASSUME NEW i \in DOMAIN s PROVE i + 1 \in DOMAIN t /\ t[i + 1] = s[i]
        OBVIOUS
    <2>1. i + 1 \in DOMAIN t /\ i + 1 # 1 /\ (i + 1) - 1 = i
        BY <1>1, <1>2
    <2> QED
        BY <1>3, <2>1
<1>5. 1 \in DOMAIN t
    BY <1>1, <1>2
<1>6. OneNodeEach(t)
    <2> SUFFICES ASSUME NEW i \in DOMAIN t, NEW j \in DOMAIN t, t[i].key = t[j].key PROVE i = j
        BY DEF OneNodeEach
    <2>1. \A m \in DOMAIN t : m # 1 => t[m].key # e.key
        BY <1>3 DEF KeysOf
    <2>2. CASE i = 1 \/ j = 1
        BY <1>2, <2>1, <2>2
    <2>3. CASE i # 1 /\ j # 1
        <3>1. i - 1 = j - 1
            BY <1>1, <1>3, <2>3 DEF OneNodeEach
        <3>2. i \in Int /\ j \in Int
            BY <1>1, <1>2
        <3> QED
            BY <3>1, <3>2
    <2> QED
        BY <2>2, <2>3
<1>7. t \in Lists
    BY <1>2, <1>6 DEF Lists
<1>8. KeysOf(t) = KeysOf(s) \cup {e.key}
    <2>1. ASSUME NEW k \in KeysOf(t) PROVE k \in KeysOf(s) \cup {e.key}
        <3>1. PICK i \in DOMAIN t : t[i].key = k
            BY DEF KeysOf
        <3> QED
            BY <1>2, <1>3, <3>1 DEF KeysOf
    <2>2. ASSUME NEW k \in KeysOf(s) PROVE k \in KeysOf(t)
        <3>1. PICK i \in DOMAIN s : s[i].key = k
            BY DEF KeysOf
        <3>2. i + 1 \in DOMAIN t /\ t[i + 1].key = k
            BY <1>4, <3>1
        <3> QED
            BY <3>2 DEF KeysOf
    <2>3. e.key \in KeysOf(t)
        BY <1>2, <1>5 DEF KeysOf
    <2> QED
        BY <2>1, <2>2, <2>3
<1>9. LookUp(t, e.key) = e.content
    BY <1>2, <1>5, <1>7, NodeIsFound
<1>10. ASSUME NEW k, k # e.key PROVE LookUp(t, k) = LookUp(s, k)
    <2>1. \A i \in DOMAIN s : s[i].key = k => \E j \in DOMAIN t : t[j] = s[i]
        BY <1>4
    <2> QED
        BY <1>7, <1>8, <1>10, <2>1, SameLookUp
<1> QED
    BY <1>7, <1>8, <1>9, <1>10 DEF t

-------------------------------------------------------------------------------
(* The steps of a shard.                                                   *)

(* The inductive invariant: the types hold and the map agrees with the      *)
(* list.                                                                   *)
ShardInv == TypeOK /\ MapAgreesWithList

(* The invariant in terms of lists. *)
LEMMA ShardIsList ==
    ShardInv <=> /\ lru \in Lists
                 /\ mapped = KeysOf(lru) /\ mapped \in SUBSET Keys
                 /\ currentSize \in 0 .. Modulus - 1
                 /\ holder \in Puts \cup {None}
BY DEF ShardInv, TypeOK, MapAgreesWithList, Lists, KeysOf, OneNodeEach

(* The same after a step. *)
LEMMA ShardIsListNext ==
    ShardInv' <=> /\ lru' \in Lists
                  /\ mapped' = KeysOf(lru') /\ mapped' \in SUBSET Keys
                  /\ currentSize' \in 0 .. Modulus - 1
                  /\ holder' \in Puts \cup {None}
BY DEF ShardInv, TypeOK, MapAgreesWithList, Lists, KeysOf, OneNodeEach

(* The count is an unsigned number whatever is added or subtracted. *)
LEMMA CountIsUnsigned ==
    /\ \A n \in Int : n % Modulus \in 0 .. Modulus - 1
    /\ \A put \in Puts : Size(put) \in Nat
<1>1. Modulus \in Nat /\ Modulus > 0
    BY ModulusAssumption, SizesAssumption
<1> QED
    BY <1>1, SizeOfAssumption DEF Puts, Size

(* The map leads to a node of the key. *)
LEMMA MapLeadsToNode ==
    ASSUME ShardInv, NEW k \in mapped
    PROVE  /\ PositionOf(k) \in 1 .. Len(lru)
           /\ lru[PositionOf(k)].key = k
           /\ NodeOf(k) \in Puts
           /\ NodeOf(k).content = LookUp(lru, k)
<1>1. lru \in Seq(Puts) /\ mapped = KeysOf(lru) /\ DOMAIN lru = 1 .. Len(lru)
    BY ShardIsList DEF Lists
<1>2. PositionOf(k) \in DOMAIN lru /\ lru[PositionOf(k)].key = k
    BY <1>1 DEF PositionOf, KeysOf
<1> QED
    BY <1>1, <1>2 DEF NodeOf, LookUp, PositionOf

(* Overwriting the front gives its key the new content. *)
LEMMA OverwriteStep ==
    ASSUME ShardInv, OverwriteFront
    PROVE  /\ ShardInv'
           /\ LookUp(lru', holder.key) = holder.content
           /\ \A k : k # holder.key => LookUp(lru', k) = LookUp(lru, k)
<1>1. lru \in Lists /\ lru \in Seq(Puts) /\ lru # <<>> /\ lru[1].key = holder.key /\ holder \in Puts
    BY ShardIsList DEF OverwriteFront, AtFront, Lists
<1> DEFINE rest == RemoveAt(lru, 1)
<1>2. lru' = <<holder>> \o rest
    BY <1>1, EndsAreRemovals DEF OverwriteFront
<1>3. /\ rest \in Lists
      /\ KeysOf(rest) = KeysOf(lru) \ {holder.key}
      /\ \A k : k # holder.key => LookUp(rest, k) = LookUp(lru, k)
    BY <1>1, EndsAreRemovals, RemoveNode
<1> HIDE DEF rest
<1>4. /\ lru' \in Lists
      /\ KeysOf(lru') = KeysOf(lru) \cup {holder.key}
      /\ LookUp(lru', holder.key) = holder.content
      /\ \A k : k # holder.key => LookUp(lru', k) = LookUp(rest, k)
    BY <1>1, <1>2, <1>3, AddNode
<1>5. ShardInv'
    BY <1>4, ShardIsList, ShardIsListNext DEF OverwriteFront
<1> QED
    BY <1>3, <1>4, <1>5

(* Erasing the older node of a key loses the key and no other. *)
LEMMA EraseStep ==
    ASSUME ShardInv, EraseOlder
    PROVE  /\ ShardInv'
           /\ LookUp(lru', holder.key) = None
           /\ \A k : k # holder.key => LookUp(lru', k) = LookUp(lru, k)
<1> DEFINE n == PositionOf(holder.key)
<1>1. lru \in Lists /\ n \in 1 .. Len(lru) /\ lru[n].key = holder.key /\ NodeOf(holder.key) \in Puts
    BY ShardIsList, MapLeadsToNode DEF EraseOlder
<1>2. lru' = RemoveAt(lru, n)
    BY DEF EraseOlder, Without
<1> HIDE DEF n
<1>3. /\ lru' \in Lists
      /\ KeysOf(lru') = KeysOf(lru) \ {holder.key}
      /\ \A k : k # holder.key => LookUp(lru', k) = LookUp(lru, k)
    BY <1>1, <1>2, RemoveNode
<1>4. currentSize' \in 0 .. Modulus - 1
    <2>1. currentSize - Size(NodeOf(holder.key)) \in Int
        BY <1>1, CountIsUnsigned, ShardIsList
    <2> QED
        BY <2>1, CountIsUnsigned DEF EraseOlder
<1>5. ShardInv'
    BY <1>3, <1>4, ShardIsList, ShardIsListNext DEF EraseOlder
<1> QED
    BY <1>3, <1>5 DEF LookUp

(* An eviction loses the key of the last node and no other. *)
LEMMA EvictStep ==
    ASSUME ShardInv, EvictOldest
    PROVE  /\ ShardInv'
           /\ Last(lru).key \in Keys
           /\ LookUp(lru', Last(lru).key) = None
           /\ \A k : k # Last(lru).key => LookUp(lru', k) = LookUp(lru, k)
<1>1. lru \in Lists /\ lru \in Seq(Puts) /\ lru # <<>>
    BY ShardIsList DEF EvictOldest, MustEvict, Lists
<1>2. Len(lru) \in 1 .. Len(lru) /\ lru' = RemoveAt(lru, Len(lru))
    BY <1>1, EndsAreRemovals DEF EvictOldest
<1>3. Last(lru) = lru[Len(lru)] /\ Last(lru) \in Puts
    BY <1>1, <1>2 DEF Last
<1>4. /\ lru' \in Lists
      /\ KeysOf(lru') = KeysOf(lru) \ {Last(lru).key}
      /\ \A k : k # Last(lru).key => LookUp(lru', k) = LookUp(lru, k)
    BY <1>1, <1>2, <1>3, RemoveNode
<1>5. currentSize' \in 0 .. Modulus - 1
    <2>1. Size(Last(lru)) \in Nat
        BY <1>3, CountIsUnsigned
    <2>2. currentSize \in Int
        BY ShardIsList
    <2>3. currentSize - Size(Last(lru)) \in Int
        BY <2>1, <2>2
    <2> QED
        BY <2>3, CountIsUnsigned DEF EvictOldest
<1>6. ShardInv'
    BY <1>4, <1>5, ShardIsList, ShardIsListNext DEF EvictOldest
<1> QED
    BY <1>3, <1>4, <1>6 DEF LookUp, Puts

(* An insertion gives its key the new content. *)
LEMMA InsertStep ==
    ASSUME ShardInv, InsertAtFront
    PROVE  /\ ShardInv'
           /\ LookUp(lru', holder.key) = holder.content
           /\ \A k : k # holder.key => LookUp(lru', k) = LookUp(lru, k)
<1>1. lru \in Lists /\ holder \in Puts /\ holder.key \notin KeysOf(lru)
    BY ShardIsList DEF InsertAtFront
<1>2. /\ lru' \in Lists
      /\ KeysOf(lru') = KeysOf(lru) \cup {holder.key}
      /\ LookUp(lru', holder.key) = holder.content
      /\ \A k : k # holder.key => LookUp(lru', k) = LookUp(lru, k)
    BY <1>1, AddNode DEF InsertAtFront
<1>3. currentSize' \in 0 .. Modulus - 1
    <2>1. currentSize + Size(holder) \in Int
        BY <1>1, CountIsUnsigned, ShardIsList
    <2> QED
        BY <2>1, CountIsUnsigned DEF InsertAtFront
<1>4. ShardInv'
    BY <1>1, <1>2, <1>3, ShardIsList, ShardIsListNext DEF InsertAtFront, Puts
<1> QED
    BY <1>2, <1>4

(* A get moves a node and changes no content. *)
LEMMA GetStep ==
    ASSUME ShardInv, NEW g \in Keys, Get(g)
    PROVE  ShardInv' /\ \A k : LookUp(lru', k) = LookUp(lru, k)
<1> DEFINE n == PositionOf(g)
           rest == RemoveAt(lru, n)
           node == NodeOf(g)
<1>1. /\ lru \in Lists
      /\ n \in 1 .. Len(lru) /\ lru[n].key = g
      /\ node \in Puts /\ node.key = g /\ node.content = LookUp(lru, g)
    BY ShardIsList, MapLeadsToNode DEF Get, NodeOf
<1>2. lru' = <<node>> \o rest
    BY DEF Get, Without
<1> HIDE DEF n, node
<1>3. /\ rest \in Lists
      /\ KeysOf(rest) = KeysOf(lru) \ {g}
      /\ \A k : k # g => LookUp(rest, k) = LookUp(lru, k)
    BY <1>1, RemoveNode
<1> HIDE DEF rest
<1>4. /\ lru' \in Lists
      /\ KeysOf(lru') = KeysOf(lru) \cup {g}
      /\ LookUp(lru', g) = node.content
      /\ \A k : k # g => LookUp(lru', k) = LookUp(rest, k)
    BY <1>1, <1>2, <1>3, AddNode
<1>5. ShardInv'
    BY <1>4, ShardIsList, ShardIsListNext DEF Get
<1> QED
    BY <1>1, <1>3, <1>4, <1>5

-------------------------------------------------------------------------------
(* The invariant.                                                          *)

(* The list and the map agree whatever is put, got and evicted: the         *)
(* inductive invariant of cache_shard::put and cache_shard::get.           *)
THEOREM ShardInvariant == Spec => []ShardInv
<1>1. Init => ShardInv
    BY ModulusAssumption, SizesAssumption DEF Init, ShardInv, TypeOK, MapAgreesWithList
<1>2. ShardInv /\ [Next]_vars => ShardInv'
    <2> SUFFICES ASSUME ShardInv, [Next]_vars PROVE ShardInv'
        OBVIOUS
    <2>1. CASE \E put \in Puts : LockForPut(put)
        BY <2>1, ShardIsList, ShardIsListNext DEF LockForPut
    <2>2. CASE \E k \in Keys : Get(k)
        BY <2>2, GetStep
    <2>3. CASE UNCHANGED vars
        BY <2>3, ShardIsList, ShardIsListNext DEF vars
    <2> QED
        BY <2>1, <2>2, <2>3, OverwriteStep, EraseStep, EvictStep, InsertStep DEF Next
<1> QED
    BY <1>1, <1>2, PTL DEF Spec

(* The variables keep their types; the count never leaves the unsigned      *)
(* numbers of cache_shard::current_cache_shard_size_bytes_.                *)
THEOREM TypeCorrect == Spec => []TypeOK
BY ShardInvariant, PTL DEF ShardInv

(* Every key of lru_cache_map_ has exactly one node in the list and every   *)
(* node its key in the map, after every put, get and eviction.             *)
THEOREM MapCorrect == Spec => []MapAgreesWithList
BY ShardInvariant, PTL DEF ShardInv

-------------------------------------------------------------------------------
(* The refinement.                                                         *)

(* What a get would find is what the list holds. *)
LEMMA CachedIsLookUp ==
    ASSUME ShardInv
    PROVE  Cached = [k \in Keys |-> LookUp(lru, k)]
BY ShardIsList DEF Cached, LookUp, NodeOf, PositionOf

(* The same after a step. *)
LEMMA CachedIsLookUpNext ==
    ASSUME ShardInv'
    PROVE  Cached' = [k \in Keys |-> LookUp(lru', k)]
BY ShardIsListNext DEF Cached, LookUp, NodeOf, PositionOf

(* A change of what one key holds is a put or an eviction of the abstract    *)
(* cache.                                                                  *)
LEMMA ChangeOfOneKey ==
    ASSUME ShardInv, ShardInv', NEW key \in Keys, NEW content,
           LookUp(lru', key) = content,
           \A k : k # key => LookUp(lru', k) = LookUp(lru, k)
    PROVE  Cached' = [Cached EXCEPT ![key] = content]
BY CachedIsLookUp, CachedIsLookUpNext

(* Every step of a shard is a step of the abstract cache or changes none of  *)
(* its variables.                                                          *)
LEMMA AbstractStep ==
    ASSUME ShardInv, ShardInv', [Next]_vars
    PROVE  [Abstract!Next]_<<Cached, holder>>
<1>1. ASSUME NEW put \in Puts, LockForPut(put) PROVE Abstract!Next
    <2>1. Cached' = Cached
        BY <1>1 DEF LockForPut, Cached, NodeOf, PositionOf
    <2> QED
        BY <1>1, <2>1 DEF LockForPut, Abstract!Next, Abstract!BeginPut, Abstract!Entries, Puts
<1>2. CASE OverwriteFront \/ InsertAtFront
    <2>1. holder # None /\ holder' = None /\ holder.key \in Keys
        BY <1>2, ShardIsList DEF OverwriteFront, InsertAtFront, Puts
    <2>2. Cached' = [Cached EXCEPT ![holder.key] = holder.content]
        BY <1>2, <2>1, OverwriteStep, InsertStep, ChangeOfOneKey
    <2> QED
        BY <2>1, <2>2 DEF Abstract!Next, Abstract!EndPut, Abstract!Put
<1>3. CASE EraseOlder
    <2>1. holder' = holder /\ holder.key \in Keys
        BY <1>3, ShardIsList DEF EraseOlder, Puts
    <2>2. Cached' = [Cached EXCEPT ![holder.key] = None]
        BY <1>3, <2>1, EraseStep, ChangeOfOneKey
    <2> QED
        BY <2>1, <2>2 DEF Abstract!Next, Abstract!Evict
<1>4. CASE EvictOldest
    <2>1. holder' = holder /\ Last(lru).key \in Keys
        BY <1>4, EvictStep DEF EvictOldest
    <2>2. Cached' = [Cached EXCEPT ![Last(lru).key] = None]
        BY <1>4, <2>1, EvictStep, ChangeOfOneKey
    <2> QED
        BY <2>1, <2>2 DEF Abstract!Next, Abstract!Evict
<1>5. ASSUME NEW g \in Keys, Get(g) PROVE UNCHANGED <<Cached, holder>>
    BY <1>5, GetStep, CachedIsLookUp, CachedIsLookUpNext DEF Get
<1>6. CASE UNCHANGED vars
    BY <1>6 DEF vars, Cached, NodeOf, PositionOf
<1> QED
    BY <1>1, <1>2, <1>3, <1>4, <1>5, <1>6 DEF Next

(* A shard with its list, its map and its byte count implements             *)
(* FrontlineCache: what a get finds is what the last accepted put of the    *)
(* key gave, or nothing.                                                   *)
THEOREM CacheCorrect == Spec => ImplementsFrontlineCache
<1>1. Init => Abstract!Init
    BY DEF Init, Abstract!Init, Cached
<1>2. ShardInv /\ ShardInv' /\ [Next]_vars => [Abstract!Next]_<<Cached, holder>>
    BY AbstractStep
<1> QED
    BY <1>1, <1>2, ShardInvariant, PTL DEF Spec, ImplementsFrontlineCache, Abstract!Spec

-------------------------------------------------------------------------------
(* The bytes of a shard.                                                   *)

(* A number is a multiple of the modulus and its remainder. *)
LEMMA Division ==
    ASSUME NEW M \in Int, M > 0, NEW a \in Int
    PROVE  a \div M \in Int /\ a % M \in 0 .. M - 1 /\ a = M * (a \div M) + (a % M)
<1>1. a \div M \in Int
    BY SMT
<1>2. a % M \in 0 .. M - 1
    BY SMT
<1>3. a = M * (a \div M) + (a % M)
    BY SMT
<1> QED
    BY <1>1, <1>2, <1>3

(* The remainder is the only number in range that differs by a multiple. *)
LEMMA RemainderIsUnique ==
    ASSUME NEW M \in Int, M > 0, NEW a \in Int, NEW q \in Int, NEW r \in 0 .. M - 1, a = M * q + r
    PROVE  a % M = r
BY SMT

(* A remainder does not depend on multiples of the modulus. *)
LEMMA RemainderOfDifference ==
    ASSUME NEW M \in Int, M > 0, NEW a \in Int, NEW b \in Int
    PROVE  ((a % M) - b) % M = (a - b) % M
<1> DEFINE q == a \div M
           x == (a % M) - b
           p == x \div M
<1>1. q \in Int /\ x \in Int /\ a = M * q + (a % M)
    BY Division
<1>2. p \in Int /\ x % M \in 0 .. M - 1 /\ x = M * p + (x % M)
    BY <1>1, Division
<1>3. M * (q + p) = M * q + M * p
    BY <1>1, <1>2
<1>4. a - b = M * (q + p) + (x % M)
    <2>1. M * q \in Int /\ M * p \in Int /\ a % M \in Int /\ x % M \in Int
        BY <1>1, <1>2, Division
    <2>2. a - b = M * q + ((a % M) - b)
        BY <1>1, <2>1
    <2> HIDE DEF q, p
    <2> QED
        BY <1>2, <1>3, <2>1, <2>2
<1>5. (a - b) % M = x % M
    <2>1. q + p \in Int /\ a - b \in Int
        BY <1>1, <1>2
    <2> HIDE DEF q, p, x
    <2> QED
        BY <1>2, <1>4, <2>1, RemainderIsUnique
<1> QED
    BY <1>5

-------------------------------------------------------------------------------
(* Counting the bytes of a list.                                           *)

BytesOf(s) == UNION {BytesUnder(s[i].key, s[i].content) : i \in DOMAIN s}

(* The bytes a list holds for a key, and their number. *)
Own(s, k) == IF k \in KeysOf(s) THEN BytesUnder(k, LookUp(s, k)) ELSE {}
OwnSize(s, k) == IF k \in KeysOf(s) THEN SizeOf[LookUp(s, k)] ELSE 0

(* What a list holds for a key is data, and has a size. *)
LEMMA OwnSizeIsNatural ==
    ASSUME NEW s \in Lists, NEW k \in KeysOf(s)
    PROVE  LookUp(s, k) \in Data /\ SizeOf[LookUp(s, k)] \in Nat
<1>1. PICK i \in DOMAIN s : s[i].key = k
    BY DEF KeysOf
<1>2. LookUp(s, k) = s[i].content /\ s[i] \in Puts
    BY <1>1, NodeIsFound DEF Lists
<1> QED
    BY <1>2, SizeOfAssumption DEF Puts

(* The bytes of a key are as many as its data has. *)
LEMMA OwnIsCounted ==
    ASSUME NEW s \in Lists, NEW k
    PROVE  IsFiniteSet(Own(s, k)) /\ Cardinality(Own(s, k)) = OwnSize(s, k) /\ OwnSize(s, k) \in Nat
<1>1. CASE k \in KeysOf(s)
    <2> DEFINE n == SizeOf[LookUp(s, k)]
    <2>1. n \in Nat
        BY <1>1, OwnSizeIsNatural
    <2> HIDE DEF n
    <2>2. IsFiniteSet(1 .. n) /\ Cardinality(1 .. n) = n
        BY <2>1, FS_Interval
    <2>3. IsFiniteSet({k}) /\ Cardinality({k}) = 1
        BY FS_Singleton
    <2>4. IsFiniteSet({k} \X (1 .. n)) /\ Cardinality({k} \X (1 .. n)) = 1 * n
      <3>1. IsFiniteSet({k} \X (1 .. n)) /\ Cardinality({k} \X (1 .. n)) = Cardinality({k}) * Cardinality(1 .. n)
        BY <2>2, <2>3, FS_Product, Zenon
      <3> QED
        BY <2>2, <2>3, <3>1
    <2>5. Own(s, k) = {k} \X (1 .. n) /\ OwnSize(s, k) = n
        BY <1>1 DEF Own, OwnSize, BytesUnder, n
    <2> QED
        BY <2>1, <2>4, <2>5
<1>2. CASE k \notin KeysOf(s)
    BY <1>2, FS_EmptySet DEF Own, OwnSize
<1> QED
    BY <1>1, <1>2

(* The bytes of a list are the bytes of its keys. *)
LEMMA BytesAreLookedUp ==
    ASSUME NEW s \in Lists
    PROVE  \A b : b \in BytesOf(s) <=> \E k \in KeysOf(s) : b \in Own(s, k)
<1>1. ASSUME NEW i \in DOMAIN s
      PROVE  s[i].key \in KeysOf(s) /\ BytesUnder(s[i].key, s[i].content) = Own(s, s[i].key)
    BY <1>1, NodeIsFound DEF KeysOf, Own
<1>2. ASSUME NEW k \in KeysOf(s) PROVE \E i \in DOMAIN s : s[i].key = k
    BY DEF KeysOf
<1> QED
    BY <1>1, <1>2 DEF BytesOf

(* Bytes are told apart by their key. *)
LEMMA OwnBytesAreApart ==
    ASSUME NEW s, NEW t, NEW j, NEW k, j # k
    PROVE  Own(s, j) \cap Own(t, k) = {}
BY DEF Own, BytesUnder

(* When two lists differ in one key, so do their numbers of bytes. *)
LEMMA CountOfOneKey ==
    ASSUME NEW s \in Lists, NEW t \in Lists, NEW key,
           \A k : k # key => (k \in KeysOf(s) <=> k \in KeysOf(t)) /\ LookUp(s, k) = LookUp(t, k),
           IsFiniteSet(BytesOf(s))
    PROVE  /\ IsFiniteSet(BytesOf(t))
           /\ Cardinality(BytesOf(s)) \in Nat
           /\ Cardinality(BytesOf(t)) = (Cardinality(BytesOf(s)) - OwnSize(s, key)) + OwnSize(t, key)
<1> DEFINE rest == BytesOf(s) \ Own(s, key)
<1>1. \A k : k # key => Own(s, k) = Own(t, k)
    BY DEF Own
<1>2. Own(s, key) \subseteq BytesOf(s) /\ Own(t, key) \subseteq BytesOf(t)
    BY BytesAreLookedUp DEF Own
<1>3. rest = BytesOf(t) \ Own(t, key)
    <2>1. ASSUME NEW b \in BytesOf(s), b \notin Own(s, key)
          PROVE  b \in BytesOf(t) /\ b \notin Own(t, key)
        <3>1. PICK k \in KeysOf(s) : b \in Own(s, k)
            BY BytesAreLookedUp
        <3>2. k # key /\ k \in KeysOf(t) /\ b \in Own(t, k)
            BY <1>1, <2>1, <3>1
        <3> QED
            BY <3>2, BytesAreLookedUp, OwnBytesAreApart
    <2>2. ASSUME NEW b \in BytesOf(t), b \notin Own(t, key)
          PROVE  b \in BytesOf(s) /\ b \notin Own(s, key)
        <3>1. PICK k \in KeysOf(t) : b \in Own(t, k)
            BY BytesAreLookedUp
        <3>2. k # key /\ k \in KeysOf(s) /\ b \in Own(s, k)
            BY <1>1, <2>2, <3>1
        <3> QED
            BY <3>2, BytesAreLookedUp, OwnBytesAreApart
    <2> QED
        BY <2>1, <2>2
<1>4. IsFiniteSet(Own(s, key)) /\ Cardinality(Own(s, key)) = OwnSize(s, key) /\ OwnSize(s, key) \in Nat
    BY OwnIsCounted
<1>5. IsFiniteSet(Own(t, key)) /\ Cardinality(Own(t, key)) = OwnSize(t, key) /\ OwnSize(t, key) \in Nat
    BY OwnIsCounted
<1> HIDE DEF rest
<1>6. IsFiniteSet(rest) /\ Cardinality(rest) \in Nat
    BY FS_Subset, FS_CardinalityType DEF rest
<1>7. Cardinality(BytesOf(s)) = Cardinality(rest) + OwnSize(s, key)
    <2>1. BytesOf(s) = rest \cup Own(s, key) /\ rest \cap Own(s, key) = {}
        BY <1>2 DEF rest
    <2>2. Cardinality(rest \cup Own(s, key)) = Cardinality(rest) + Cardinality(Own(s, key)) - Cardinality({})
        BY <1>4, <1>6, <2>1, FS_Union
    <2> QED
        BY <1>4, <1>6, <2>1, <2>2, FS_EmptySet
<1>8. /\ IsFiniteSet(BytesOf(t))
      /\ Cardinality(BytesOf(t)) = Cardinality(rest) + OwnSize(t, key)
    <2>1. BytesOf(t) = rest \cup Own(t, key) /\ rest \cap Own(t, key) = {}
        BY <1>2, <1>3
    <2>2. /\ IsFiniteSet(rest \cup Own(t, key))
          /\ Cardinality(rest \cup Own(t, key)) = Cardinality(rest) + Cardinality(Own(t, key)) - Cardinality({})
        BY <1>5, <1>6, <2>1, FS_Union
    <2> QED
        BY <1>5, <1>6, <2>1, <2>2, FS_EmptySet
<1> QED
    BY <1>4, <1>5, <1>6, <1>7, <1>8

-------------------------------------------------------------------------------
(* The steps of a shard, in bytes.                                         *)

(* A step that changes what one key holds changes the bytes by its data. *)
LEMMA BytesOfStep ==
    ASSUME ShardInv, ShardInv', IsFiniteSet(Bytes), NEW key,
           \A k : k # key => (k \in mapped <=> k \in mapped') /\ LookUp(lru', k) = LookUp(lru, k)
    PROVE  /\ IsFiniteSet(Bytes')
           /\ TotalSize \in Nat
           /\ TotalSize' = (TotalSize - OwnSize(lru, key)) + OwnSize(lru', key)
<1>1. lru \in Lists /\ lru' \in Lists /\ mapped = KeysOf(lru) /\ mapped' = KeysOf(lru')
    BY ShardIsList, ShardIsListNext
<1>2. Bytes = BytesOf(lru) /\ Bytes' = BytesOf(lru')
    BY DEF Bytes, BytesOf, BytesUnder
<1> QED
    BY <1>1, <1>2, CountOfOneKey DEF TotalSize

(* Overwriting the front leaves the number of bytes finite. *)
LEMMA OverwriteBytes ==
    ASSUME ShardInv, IsFiniteSet(Bytes), OverwriteFront
    PROVE  IsFiniteSet(Bytes')
<1>1. mapped' = mapped
    BY DEF OverwriteFront
<1> QED
    BY <1>1, OverwriteStep, BytesOfStep

(* Erasing the older node of a key takes its bytes away. *)
LEMMA EraseBytes ==
    ASSUME ShardInv, IsFiniteSet(Bytes), EraseOlder
    PROVE  /\ IsFiniteSet(Bytes')
           /\ TotalSize \in Nat /\ Size(NodeOf(holder.key)) \in Nat
           /\ TotalSize' = TotalSize - Size(NodeOf(holder.key))
<1> DEFINE key == holder.key
           size == Size(NodeOf(key))
<1>1. ShardInv' /\ mapped' = mapped \ {key} /\ key \in mapped
    BY EraseStep DEF EraseOlder
<1>2. /\ IsFiniteSet(Bytes')
      /\ TotalSize \in Nat
      /\ TotalSize' = (TotalSize - OwnSize(lru, key)) + OwnSize(lru', key)
    BY <1>1, EraseStep, BytesOfStep
<1>3. OwnSize(lru', key) = 0
    BY <1>1, ShardIsListNext DEF OwnSize
<1>4. OwnSize(lru, key) = size /\ size \in Nat
    BY <1>1, ShardIsList, MapLeadsToNode, CountIsUnsigned DEF OwnSize, Size
<1> HIDE DEF key, size
<1>5. TotalSize' = TotalSize - size
    BY <1>2, <1>3, <1>4
<1> QED
    BY <1>2, <1>4, <1>5 DEF key, size

(* An eviction takes the bytes of the last node away. *)
LEMMA EvictBytes ==
    ASSUME ShardInv, IsFiniteSet(Bytes), EvictOldest
    PROVE  /\ IsFiniteSet(Bytes')
           /\ TotalSize \in Nat /\ Size(Last(lru)) \in Nat
           /\ TotalSize' = TotalSize - Size(Last(lru))
<1> DEFINE key == Last(lru).key
           size == Size(Last(lru))
<1>1. /\ lru \in Lists /\ mapped = KeysOf(lru)
      /\ Len(lru) \in DOMAIN lru
      /\ Last(lru) = lru[Len(lru)] /\ Last(lru) \in Puts
    BY ShardIsList DEF EvictOldest, MustEvict, Lists, Last
<1>2. ShardInv' /\ mapped' = mapped \ {key} /\ key \in mapped
    BY <1>1, EvictStep DEF EvictOldest, KeysOf
<1>3. /\ IsFiniteSet(Bytes')
      /\ TotalSize \in Nat
      /\ TotalSize' = (TotalSize - OwnSize(lru, key)) + OwnSize(lru', key)
    BY <1>2, EvictStep, BytesOfStep
<1>4. OwnSize(lru', key) = 0
    BY <1>2, ShardIsListNext DEF OwnSize
<1>5. OwnSize(lru, key) = size /\ size \in Nat
    BY <1>1, <1>2, NodeIsFound, CountIsUnsigned DEF OwnSize, Size
<1> HIDE DEF key, size
<1>6. TotalSize' = TotalSize - size
    BY <1>3, <1>4, <1>5
<1> QED
    BY <1>3, <1>5, <1>6 DEF key, size

(* An insertion adds the bytes of its data. *)
LEMMA InsertBytes ==
    ASSUME ShardInv, IsFiniteSet(Bytes), InsertAtFront
    PROVE  /\ IsFiniteSet(Bytes')
           /\ TotalSize \in Nat /\ Size(holder) \in Nat
           /\ TotalSize' = TotalSize + Size(holder)
<1> DEFINE key == holder.key
           size == Size(holder)
<1>1. ShardInv' /\ mapped' = mapped \cup {key} /\ key \notin mapped /\ holder \in Puts
    BY InsertStep, ShardIsList DEF InsertAtFront
<1>2. /\ IsFiniteSet(Bytes')
      /\ TotalSize \in Nat
      /\ TotalSize' = (TotalSize - OwnSize(lru, key)) + OwnSize(lru', key)
    BY <1>1, InsertStep, BytesOfStep
<1>3. OwnSize(lru, key) = 0
    BY <1>1, ShardIsList DEF OwnSize
<1>4. OwnSize(lru', key) = size /\ size \in Nat
    BY <1>1, InsertStep, ShardIsListNext, CountIsUnsigned DEF OwnSize, Size
<1> HIDE DEF key, size
<1>5. TotalSize' = TotalSize + size
    BY <1>2, <1>3, <1>4
<1> QED
    BY <1>2, <1>4, <1>5 DEF key, size

(* Locking the mutex and a get leave the bytes as they are. *)
LEMMA OtherBytes ==
    ASSUME ShardInv, IsFiniteSet(Bytes),
           (\E put \in Puts : LockForPut(put)) \/ (\E k \in Keys : Get(k)) \/ UNCHANGED vars
    PROVE  IsFiniteSet(Bytes') /\ TotalSize' = TotalSize
<1>1. ASSUME UNCHANGED lru PROVE Bytes' = Bytes
    BY <1>1 DEF Bytes, BytesUnder
<1>2. ASSUME NEW g \in Keys, Get(g) PROVE IsFiniteSet(Bytes') /\ TotalSize' = TotalSize
    <2>1. ShardInv' /\ mapped' = mapped /\ g \in mapped
        BY <1>2, GetStep DEF Get
    <2>2. /\ IsFiniteSet(Bytes')
          /\ TotalSize \in Nat
          /\ TotalSize' = (TotalSize - OwnSize(lru, g)) + OwnSize(lru', g)
        BY <1>2, <2>1, GetStep, BytesOfStep
    <2>3. OwnSize(lru', g) = OwnSize(lru, g) /\ OwnSize(lru, g) \in Nat
        BY <1>2, <2>1, GetStep, ShardIsList, ShardIsListNext, OwnIsCounted DEF OwnSize
    <2> QED
        BY <2>2, <2>3
<1>3. CASE \E put \in Puts : LockForPut(put)
    BY <1>1, <1>3 DEF LockForPut, TotalSize
<1>4. CASE UNCHANGED vars
    BY <1>1, <1>4 DEF vars, TotalSize
<1> QED
    BY <1>2, <1>3, <1>4

-------------------------------------------------------------------------------
(* The byte count.                                                         *)

(* No node is larger than an object may be, nor is the put under the mutex. *)
ObjectsAreAccepted ==
    /\ \A k \in mapped : SizeOf[LookUp(lru, k)] <= MaxObjectSize
    /\ holder # None => Size(holder) <= MaxObjectSize

(* A count beyond the maximum is left behind by one object alone.  Between  *)
(* the erasure of an older node and the insertion the count may be beyond   *)
(* the maximum with any number of nodes.                                   *)
CountIsBounded ==
    currentSize > MaxShardSize /\ (holder = None \/ holder.key \in mapped) => Len(lru) <= 1

(* The inductive invariant of the bytes.                                   *)
SizeInv ==
    /\ ShardInv
    /\ IsFiniteSet(Bytes)
    /\ ObjectsAreAccepted
    /\ CountIsBounded

(* Accepted objects stay accepted while a step only moves and drops nodes. *)
LEMMA NodesStayAccepted ==
    ASSUME ShardInv, ShardInv', ObjectsAreAccepted,
           \A k \in mapped' : k \in mapped /\ LookUp(lru', k) = LookUp(lru, k),
           holder' = holder \/ holder' = None
    PROVE  ObjectsAreAccepted'
<1>1. \A k \in mapped' : SizeOf[LookUp(lru', k)] <= MaxObjectSize
    BY DEF ObjectsAreAccepted
<1>2. holder' # None => Size(holder') <= MaxObjectSize
    BY DEF ObjectsAreAccepted
<1> QED
    BY <1>1, <1>2 DEF ObjectsAreAccepted, Size

(* A step that gives its key the content of the put keeps objects accepted. *)
LEMMA PutIsAccepted ==
    ASSUME ShardInv, ShardInv', ObjectsAreAccepted, holder # None, holder' = None,
           mapped' = mapped \cup {holder.key},
           LookUp(lru', holder.key) = holder.content,
           \A k : k # holder.key => LookUp(lru', k) = LookUp(lru, k)
    PROVE  ObjectsAreAccepted'
<1>1. \A k \in mapped' : SizeOf[LookUp(lru', k)] <= MaxObjectSize
    BY DEF ObjectsAreAccepted, Size
<1> QED
    BY <1>1 DEF ObjectsAreAccepted

(* The length of the list after each step that keeps or adds a key. *)
LEMMA LengthOfStep ==
    ASSUME ShardInv
    PROVE  /\ OverwriteFront => Len(lru') = Len(lru)
           /\ InsertAtFront => Len(lru') = Len(lru) + 1
           /\ \A k \in Keys : Get(k) => Len(lru') = Len(lru)
<1>1. lru \in Seq(Puts) /\ Len(lru) \in Nat
    BY ShardIsList DEF Lists
<1>2. ASSUME OverwriteFront PROVE Len(lru') = Len(lru)
    <2>1. lru # <<>> /\ lru' = <<holder>> \o Tail(lru) /\ holder \in Puts
        BY <1>2, ShardIsList DEF OverwriteFront, AtFront
    <2>2. Tail(lru) \in Seq(Puts) /\ Len(Tail(lru)) = Len(lru) - 1
        BY <1>1, <2>1
    <2> QED
        BY <1>1, <2>1, <2>2, PutInFront
<1>3. ASSUME InsertAtFront PROVE Len(lru') = Len(lru) + 1
    BY <1>1, <1>3, ShardIsList, PutInFront DEF InsertAtFront
<1>4. ASSUME NEW k \in Keys, Get(k) PROVE Len(lru') = Len(lru)
    <2>1. PositionOf(k) \in 1 .. Len(lru) /\ NodeOf(k) \in Puts /\ lru' = <<NodeOf(k)>> \o Without(k)
        BY <1>4, MapLeadsToNode DEF Get
    <2>2. Without(k) \in Seq(Puts) /\ Len(Without(k)) = Len(lru) - 1
        BY <1>1, <2>1, RemoveAtClosesGap DEF Without
    <2> QED
        BY <1>1, <2>1, <2>2, PutInFront
<1> QED
    BY <1>2, <1>3, <1>4

(* Every step keeps the inductive invariant of the bytes. *)
LEMMA SizeStep ==
    ASSUME SizeInv, [Next]_vars
    PROVE  SizeInv'
<1> USE DEF SizeInv
<1>1. ASSUME NEW put \in Puts, LockForPut(put) PROVE SizeInv'
    <2>1. ShardInv' /\ UNCHANGED <<lru, mapped, currentSize>> /\ holder = None /\ holder' = put
        BY <1>1, ShardIsList, ShardIsListNext DEF LockForPut
    <2>2. IsFiniteSet(Bytes')
        BY <1>1, OtherBytes
    <2>3. ObjectsAreAccepted'
        BY <1>1, <2>1 DEF ObjectsAreAccepted, LookUp, KeysOf, LockForPut, Size
    <2>4. CountIsBounded'
        BY <2>1 DEF CountIsBounded
    <2> QED
        BY <2>1, <2>2, <2>3, <2>4
<1>2. CASE OverwriteFront
    <2>1. ShardInv' /\ IsFiniteSet(Bytes')
        BY <1>2, OverwriteStep, OverwriteBytes
    <2>2. ObjectsAreAccepted'
        BY <1>2, <2>1, OverwriteStep, PutIsAccepted DEF OverwriteFront
    <2>3. CountIsBounded'
        BY <1>2, LengthOfStep DEF CountIsBounded, OverwriteFront
    <2> QED
        BY <2>1, <2>2, <2>3
<1>3. CASE EraseOlder
    <2>1. ShardInv' /\ IsFiniteSet(Bytes') /\ mapped' = mapped \ {holder.key} /\ holder' = holder /\ holder # None
        BY <1>3, EraseStep, EraseBytes DEF EraseOlder
    <2>2. ObjectsAreAccepted'
        BY <1>3, <2>1, EraseStep, NodesStayAccepted
    <2>3. CountIsBounded'
        BY <2>1 DEF CountIsBounded
    <2> QED
        BY <2>1, <2>2, <2>3
<1>4. CASE EvictOldest
    <2>1. /\ ShardInv' /\ IsFiniteSet(Bytes')
          /\ mapped' = mapped \ {Last(lru).key}
          /\ holder' = holder /\ holder # None /\ holder.key \notin mapped
        BY <1>4, EvictStep, EvictBytes DEF EvictOldest
    <2>2. ObjectsAreAccepted'
        BY <1>4, <2>1, EvictStep, NodesStayAccepted
    <2>3. CountIsBounded'
        BY <2>1 DEF CountIsBounded
    <2> QED
        BY <2>1, <2>2, <2>3
<1>5. CASE InsertAtFront
    <2>1. ShardInv' /\ IsFiniteSet(Bytes') /\ Len(lru') = Len(lru) + 1
        BY <1>5, InsertStep, InsertBytes, LengthOfStep
    <2>2. ObjectsAreAccepted'
        BY <1>5, <2>1, InsertStep, PutIsAccepted DEF InsertAtFront
    <2>3. CountIsBounded'
        <3>1. SUFFICES ASSUME currentSize' > MaxShardSize PROVE Len(lru') <= 1
            BY DEF CountIsBounded
        <3>2. lru = <<>>
            BY <1>5, <3>1 DEF InsertAtFront, MustEvict
        <3>3. Len(lru) = 0
            BY <3>2
        <3>4. Len(lru') = 1
            BY <2>1, <3>3
        <3> QED
            BY <3>4
    <2> QED
        BY <2>1, <2>2, <2>3
<1>6. ASSUME NEW k \in Keys, Get(k) PROVE SizeInv'
    <2>1. /\ ShardInv' /\ IsFiniteSet(Bytes') /\ Len(lru') = Len(lru)
          /\ mapped' = mapped /\ holder' = holder /\ currentSize' = currentSize
        BY <1>6, GetStep, OtherBytes, LengthOfStep DEF Get
    <2>2. ObjectsAreAccepted'
        BY <1>6, <2>1, GetStep, NodesStayAccepted
    <2>3. CountIsBounded'
        BY <2>1 DEF CountIsBounded
    <2> QED
        BY <2>1, <2>2, <2>3
<1>7. CASE UNCHANGED vars
    <2>1. IsFiniteSet(Bytes')
        BY <1>7, OtherBytes
    <2> QED
        BY <1>7, <2>1, ShardIsList, ShardIsListNext DEF vars, ObjectsAreAccepted, CountIsBounded, LookUp, KeysOf, Size
<1> QED
    BY <1>1, <1>2, <1>3, <1>4, <1>5, <1>6, <1>7 DEF Next

(* Nodes stay within the limit of an object and a count beyond the maximum  *)
(* belongs to one object alone: the inductive invariant of the bytes that   *)
(* cache_shard::put keeps.                                                 *)
THEOREM SizeInvariant == Spec => []SizeInv
<1>1. Init => SizeInv
    <2> SUFFICES ASSUME Init PROVE SizeInv
        OBVIOUS
    <2>1. ShardInv
        BY ModulusAssumption, SizesAssumption DEF Init, ShardInv, TypeOK, MapAgreesWithList
    <2>2. Bytes = {}
        BY DEF Init, Bytes
    <2>3. ObjectsAreAccepted
        BY DEF Init, ObjectsAreAccepted
    <2>4. CountIsBounded
        <3>1. ~ (0 > MaxShardSize)
            BY SizesAssumption
        <3> QED
            BY <3>1 DEF Init, CountIsBounded
    <2> QED
        BY <2>1, <2>2, <2>3, <2>4, FS_EmptySet DEF SizeInv
<1>2. SizeInv /\ [Next]_vars => SizeInv'
    BY SizeStep
<1> QED
    BY <1>1, <1>2, PTL DEF Spec

(* Whenever cache_shard::put and get have left the mutex and the count is   *)
(* exact, the shard is within its maximum or holds a single object, and     *)
(* that object is no larger than an object may be.  The eviction loop is    *)
(* enough for this whatever the count has been before.                     *)
THEOREM ShardFits == Spec => []FitsWhileAccountIsExact
<1>1. SizeInv => FitsWhileAccountIsExact
    <2> SUFFICES ASSUME SizeInv, holder = None, currentSize = TotalSize, ~ (TotalSize <= MaxShardSize)
                 PROVE  Len(lru) = 1 /\ TotalSize <= MaxObjectSize
        BY DEF FitsWhileAccountIsExact, AccountIsExact
    <2>1. /\ lru \in Lists /\ lru \in Seq(Puts) /\ Len(lru) \in Nat /\ DOMAIN lru = 1 .. Len(lru)
          /\ mapped = KeysOf(lru)
          /\ currentSize \in Int
        BY ShardIsList DEF SizeInv, Lists
    <2>2. Len(lru) <= 1
        BY <2>1, SizesAssumption DEF SizeInv, CountIsBounded
    <2>3. Len(lru) # 0
        <3>1. SUFFICES ASSUME Len(lru) = 0 PROVE FALSE
            OBVIOUS
        <3>2. Bytes = {}
            BY <2>1, <3>1 DEF Bytes
        <3> QED
            BY <3>2, FS_EmptySet, SizesAssumption DEF TotalSize
    <2>4. Len(lru) = 1 /\ DOMAIN lru = {1}
        BY <2>1, <2>2, <2>3
    <2> DEFINE key == lru[1].key
    <2>5. mapped = {key}
        BY <2>1, <2>4 DEF KeysOf
    <2>6. Bytes = Own(lru, key)
        <3>1. Bytes = BytesOf(lru)
            BY DEF Bytes, BytesOf
        <3>2. \A b : b \in BytesOf(lru) <=> \E k \in KeysOf(lru) : b \in Own(lru, k)
            BY <2>1, BytesAreLookedUp
        <3>3. \A b : b \in BytesOf(lru) <=> b \in Own(lru, key)
            BY <2>1, <2>5, <3>2
        <3> QED
            BY <3>1, <3>3
    <2>7. TotalSize = SizeOf[LookUp(lru, key)]
        BY <2>1, <2>5, <2>6, OwnIsCounted DEF TotalSize, OwnSize
    <2> QED
        BY <2>4, <2>5, <2>7 DEF SizeInv, ObjectsAreAccepted
<1> QED
    BY <1>1, SizeInvariant, PTL

(* The difference of the count and the bytes is kept, modulo the word, by   *)
(* a step that adds the same number to both or takes it from both.         *)
LEMMA DifferenceIsKept ==
    ASSUME NEW c \in Int, NEW total \in Int, NEW d \in Int
    PROVE  (((c + d) % Modulus) - (total + d)) % Modulus = (c - total) % Modulus
<1>1. Modulus \in Int /\ Modulus > 0
    BY ModulusAssumption, SizesAssumption
<1> DEFINE a == c + d
           b == total + d
<1>2. a \in Int /\ b \in Int /\ a - b = c - total
    OBVIOUS
<1> HIDE DEF a, b
<1>3. ((a % Modulus) - b) % Modulus = (a - b) % Modulus
    BY <1>1, <1>2, RemainderOfDifference
<1> QED
    BY <1>2, <1>3 DEF a, b

(* The byte count parts from the bytes in the list in one branch of         *)
(* cache_shard::put only, the one that overwrites the most recent object;   *)
(* the erasure of an older node, the evictions and the insertion account    *)
(* for exactly what they do.                                               *)
THEOREM OverwritesAloneMiscount == Spec => OnlyOverwritesMiscount
<1>1. SizeInv /\ [Next]_vars
          => [(currentSize - TotalSize) % Modulus # (currentSize' - TotalSize') % Modulus
              => OverwriteFront]_vars
    <2> SUFFICES ASSUME SizeInv, [Next]_vars, ~ OverwriteFront
                 PROVE  (currentSize - TotalSize) % Modulus = (currentSize' - TotalSize') % Modulus
        OBVIOUS
    <2>1. ShardInv /\ IsFiniteSet(Bytes) /\ currentSize \in Int
        BY ShardIsList DEF SizeInv
    <2>2. CASE (\E put \in Puts : LockForPut(put)) \/ (\E k \in Keys : Get(k)) \/ UNCHANGED vars
        <3>1. currentSize' = currentSize
            BY <2>2 DEF LockForPut, Get, vars
        <3> QED
            BY <2>1, <2>2, <3>1, OtherBytes
    <2>3. CASE EraseOlder
        <3> DEFINE size == Size(NodeOf(holder.key))
        <3>1. TotalSize \in Nat /\ size \in Nat /\ TotalSize' = TotalSize - size
            BY <2>1, <2>3, EraseBytes
        <3>2. currentSize' = (currentSize - size) % Modulus
            BY <2>3 DEF EraseOlder
        <3> HIDE DEF size
        <3>3. /\ - size \in Int
              /\ currentSize - size = currentSize + (- size)
              /\ TotalSize - size = TotalSize + (- size)
            BY <2>1, <3>1
        <3>4. (((currentSize + (- size)) % Modulus) - (TotalSize + (- size))) % Modulus
                  = (currentSize - TotalSize) % Modulus
            BY <2>1, <3>1, <3>3, DifferenceIsKept
        <3> QED
            BY <3>1, <3>2, <3>3, <3>4
    <2>4. CASE EvictOldest
        <3> DEFINE size == Size(Last(lru))
        <3>1. TotalSize \in Nat /\ size \in Nat /\ TotalSize' = TotalSize - size
            BY <2>1, <2>4, EvictBytes
        <3>2. currentSize' = (currentSize - size) % Modulus
            BY <2>4 DEF EvictOldest
        <3> HIDE DEF size
        <3>3. /\ - size \in Int
              /\ currentSize - size = currentSize + (- size)
              /\ TotalSize - size = TotalSize + (- size)
            BY <2>1, <3>1
        <3>4. (((currentSize + (- size)) % Modulus) - (TotalSize + (- size))) % Modulus
                  = (currentSize - TotalSize) % Modulus
            BY <2>1, <3>1, <3>3, DifferenceIsKept
        <3> QED
            BY <3>1, <3>2, <3>3, <3>4
    <2>5. CASE InsertAtFront
        <3> DEFINE size == Size(holder)
        <3>1. TotalSize \in Nat /\ size \in Nat /\ TotalSize' = TotalSize + size
            BY <2>1, <2>5, InsertBytes
        <3>2. currentSize' = (currentSize + size) % Modulus
            BY <2>5 DEF InsertAtFront
        <3> HIDE DEF size
        <3>3. (((currentSize + size) % Modulus) - (TotalSize + size)) % Modulus
                  = (currentSize - TotalSize) % Modulus
            BY <2>1, <3>1, DifferenceIsKept
        <3> QED
            BY <3>1, <3>2, <3>3
    <2> QED
        BY <2>2, <2>3, <2>4, <2>5 DEF Next
<1> QED
    BY <1>1, SizeInvariant, PTL DEF Spec, OnlyOverwritesMiscount
===============================================================================
