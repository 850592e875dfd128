---------------------- MODULE ReferenceDecoding_proofs ----------------------
(***************************************************************************)
(* Whatever the caches of the reference decoder have kept or lost, and     *)
(* wherever a read fails, a state is that of its text computed at once;    *)
(* the caches are exact, and layer_balanced takes no layer below its       *)
(* share: for any depth, tokens, routes, scores, sizes and capacities.     *)
(*                                                                         *)
(* Two invariants.  CacheInv: a cache holds under a key what the artifacts *)
(* hold there, counts its bytes and ranks its keys by use; so a layer      *)
(* object computes with the right weights (LayerOK), from whichever cache  *)
(* they came.  StateInv: a pass follows its text; it is kept because the   *)
(* values of a text do not depend on the tokens after it (WholePrefix),    *)
(* and because either form of attention over the keys of a whole text sees *)
(* just the earlier keys that the scores select (AttendedKeys).            *)
(*                                                                         *)
(* What recursive functions compute (the rounds that make room, the        *)
(* experts of a stage, the layers of a text) is proved by induction on the *)
(* round, with the set of rounds for which it holds (UpTo).                *)
(***************************************************************************)
EXTENDS ReferenceDecoding, FiniteSetTheorems, SequenceTheorems, WellFoundedInduction, TLAPS

\* What is proved of sums of bytes.
Sizes == INSTANCE ExpertBytes_proofs WITH Keys <- Names, Bytes <- Size, MaxBytes <- MaxSize

-----------------------------------------------------------------------------
(* Numbers and bytes                                                       *)

\* What holds of 0 and is handed on from each number to the next holds of all
\* numbers up to n.
LEMMA UpTo ==
  ASSUME NEW n \in Nat, NEW P, 0 \in P,
         \A i \in Nat : i < n /\ i \in P => i + 1 \in P
  PROVE  \A i \in 0..n : i \in P
<1> DEFINE R == {p \in Nat \X Nat : p[1] < p[2]}
           T == {i \in 0..n : i \notin P}
<1> SUFFICES ASSUME T # {} PROVE FALSE
  OBVIOUS
<1>1. IsWellFoundedOn(R, Nat)
  BY NatLessThanWellFounded DEF OpToRel
<1>2. PICK i \in T : \A j \in T : ~(<<j, i>> \in R)
  <2>1. T \subseteq Nat
    OBVIOUS
  <2> HIDE DEF R, T
  <2> QED
    BY <1>1, <2>1, WFMin
<1>3. i \in Nat /\ i <= n /\ i # 0 /\ i \notin P
  OBVIOUS
<1>4. i - 1 \in Nat /\ i - 1 < n /\ i - 1 < i /\ (i - 1) + 1 = i
  BY <1>3
<1>5. i - 1 \notin T
  BY <1>2, <1>3, <1>4
<1>6. i - 1 \in P
  BY <1>3, <1>4, <1>5
<1> QED
  BY <1>3, <1>4, <1>6

\* The bytes of a set of names are those of the shared definition.
LEMMA SameBytes ==
  ASSUME NEW S
  PROVE  Charged(S) = Sizes!Charged(S) /\ (IsFiniteSet(S) <=> Sizes!IsFiniteSet(S))
<1>1. \A T : Cardinality(T) = Sizes!Cardinality(T)
  BY DEF Cardinality, Sizes!Cardinality
<1> QED
  BY <1>1 DEF Charged, Sizes!Charged, Occupied, Sizes!Occupied, IsFiniteSet, Sizes!IsFiniteSet

LEMMA SizesOK == Sizes!IsFiniteSet(Names) /\ MaxSize \in Nat /\ Size \in [Names -> 1..MaxSize]
BY ReferenceExpertsAssumption, SameBytes

\* What a set of names is charged, and what one name less or more changes.
LEMMA BytesOf ==
  ASSUME NEW S \in SUBSET Names
  PROVE  Charged(S) \in Nat /\ Charged({}) = 0
  BY SameBytes, SizesOK, Sizes!ChargedType, Sizes!ChargedNothing

LEMMA BytesLess ==
  ASSUME NEW S \in SUBSET Names, NEW k \in S
  PROVE  Charged(S \ {k}) = Charged(S) - Size[k] /\ Size[k] \in Nat
<1>1. Charged(S \ {k}) = Charged(S) - Charged({k})
  BY SameBytes, SizesOK, Sizes!ChargedRemove
<1>2. Charged({k}) = Size[k]
  BY SameBytes, SizesOK, Sizes!ChargedOne
<1>3. Size[k] \in Nat
  BY SizesOK
<1> QED
  BY <1>1, <1>2, <1>3

LEMMA BytesMore ==
  ASSUME NEW S \in SUBSET Names, NEW k \in Names, k \notin S
  PROVE  Charged(S \cup {k}) = Charged(S) + Size[k] /\ Size[k] \in Nat
<1>1. Charged(S \cup {k}) = Charged(S) + Size[k]
  BY SameBytes, SizesOK, Sizes!ChargedAdd
<1>2. Size[k] \in Nat
  BY SizesOK
<1> QED
  BY <1>1, <1>2

-----------------------------------------------------------------------------
(* The operations of a cache                                               *)

IsCache(c) == \E v, o, b, g : c = [value |-> v, older |-> o, bytes |-> b, protected |-> g]

\* The entries are ranked by their use.
Ordered(c) ==
    LET Before(x, y) == <<x, y>> \in c.older IN
    /\ c.older \subseteq Kept(c) \X Kept(c)
    /\ \A x, y \in Kept(c) : x # y <=> Before(x, y) \/ Before(y, x)
    /\ \A x, y, z \in Kept(c) : Before(x, y) /\ Before(y, z) => Before(x, z)

\* A cache with what was stored under its keys, whatever room it takes.
Sound(c) ==
    /\ IsCache(c) /\ Kept(c) \subseteq Names /\ Ordered(c)
    /\ c.bytes = Charged(Kept(c))
    /\ \A k \in Kept(c) : c.value[k] = Stored(k)

\* What taking an entry out changes.
LEMMA PopFields ==
  ASSUME NEW c, NEW k
  PROVE  LET d == Pop(c, k) IN
         /\ IsCache(d) /\ Kept(d) = Kept(c) \ {k} /\ d.protected = c.protected
         /\ \A x \in Kept(d) : d.value[x] = c.value[x]
         /\ d.older = {p \in c.older : p[1] # k /\ p[2] # k}
         /\ d.bytes = IF Holds(c, k) THEN c.bytes - Size[k] ELSE c.bytes
BY DEF Pop, Restrict, IsCache, Kept

\* What adding an entry changes.
LEMMA AddFields ==
  ASSUME NEW c, NEW k, NEW w
  PROVE  LET d == Add(c, k, w) IN
         /\ IsCache(d) /\ Kept(d) = Kept(c) \cup {k} /\ d.protected = c.protected
         /\ \A x \in Kept(d) : d.value[x] = IF x = k THEN w ELSE c.value[x]
         /\ d.older = c.older \cup (Kept(c) \X {k})
         /\ d.bytes = c.bytes + Size[k]
BY DEF Add, IsCache, Kept

\* An eviction takes the entry out.
LEMMA EvictFields ==
  ASSUME NEW c, NEW k
  PROVE  /\ IsCache(EvictOne(c, k)) /\ Kept(EvictOne(c, k)) = Kept(Pop(c, k))
         /\ EvictOne(c, k).value = Pop(c, k).value /\ EvictOne(c, k).older = Pop(c, k).older
         /\ EvictOne(c, k).bytes = Pop(c, k).bytes
<1>1. PICK v, o, b, g : Pop(c, k) = [value |-> v, older |-> o, bytes |-> b, protected |-> g]
  BY PopFields DEF IsCache
<1>2. EvictOne(c, k) = [[value |-> v, older |-> o, bytes |-> b, protected |-> g]
                          EXCEPT !.protected[k[1]] = @ \ {k}]
  BY <1>1, Zenon DEF EvictOne
<1>3. @ = [value |-> v, older |-> o, bytes |-> b, protected |-> [g EXCEPT ![k[1]] = @ \ {k}]]
  OBVIOUS
<1>4. /\ EvictOne(c, k).value = v /\ EvictOne(c, k).older = o /\ EvictOne(c, k).bytes = b
      /\ IsCache(EvictOne(c, k))
  BY <1>2, <1>3 DEF IsCache
<1> QED
  BY <1>1, <1>4 DEF Kept

\* It is no longer protected.
LEMMA EvictGuards ==
  ASSUME NEW c, NEW k
  PROVE  EvictOne(c, k).protected = [c.protected EXCEPT ![k[1]] = @ \ {k}]
<1>1. PICK v, o, b, g : Pop(c, k) = [value |-> v, older |-> o, bytes |-> b, protected |-> g]
  BY PopFields DEF IsCache
<1>2. EvictOne(c, k) = [[value |-> v, older |-> o, bytes |-> b, protected |-> g]
                          EXCEPT !.protected[k[1]] = @ \ {k}]
  BY <1>1, Zenon DEF EvictOne
<1>3. @ = [value |-> v, older |-> o, bytes |-> b, protected |-> [g EXCEPT ![k[1]] = @ \ {k}]]
  OBVIOUS
<1>4. g = c.protected
  BY <1>1, PopFields
<1> QED
  BY <1>2, <1>3, <1>4

\* Without an entry, a sound cache is sound and no larger.
LEMMA PopSound ==
  ASSUME NEW c, Sound(c), NEW k
  PROVE  Sound(Pop(c, k)) /\ Pop(c, k).bytes <= c.bytes
<1> DEFINE d == Pop(c, k)
<1>1. /\ IsCache(d) /\ Kept(d) = Kept(c) \ {k}
      /\ \A x \in Kept(d) : d.value[x] = c.value[x]
      /\ d.older = {p \in c.older : p[1] # k /\ p[2] # k}
      /\ d.bytes = IF Holds(c, k) THEN c.bytes - Size[k] ELSE c.bytes
  BY PopFields DEF Sound
<1> HIDE DEF d
<1>2. Ordered(d)
  BY <1>1 DEF Sound, Ordered
<1>3. Kept(c) \in SUBSET Names /\ Charged(Kept(c)) \in Nat /\ c.bytes = Charged(Kept(c))
  BY BytesOf DEF Sound
<1>4. d.bytes = Charged(Kept(d)) /\ d.bytes <= c.bytes
  <2>1. CASE k \in Kept(c)
    <3>1. Charged(Kept(c) \ {k}) = Charged(Kept(c)) - Size[k] /\ Size[k] \in Nat
      BY <2>1, <1>3, BytesLess
    <3>2. d.bytes = c.bytes - Size[k]
      BY <2>1, <1>1 DEF Holds
    <3> QED
      BY <3>1, <3>2, <1>1, <1>3
  <2>2. CASE k \notin Kept(c)
    <3>1. Kept(d) = Kept(c)
      BY <2>2, <1>1
    <3>2. d.bytes = c.bytes
      BY <2>2, <1>1 DEF Holds
    <3> QED
      BY <3>1, <3>2, <1>3
  <2> QED
    BY <2>1, <2>2
<1> QED
  BY <1>1, <1>2, <1>4 DEF Sound, d

\* With the entry of another name, a sound cache is sound.
LEMMA AddSound ==
  ASSUME NEW c, Sound(c), NEW k \in Names, k \notin Kept(c)
  PROVE  Sound(Add(c, k, Stored(k))) /\ Size[k] \in Nat
<1> DEFINE d == Add(c, k, Stored(k))
<1>1. /\ IsCache(d) /\ Kept(d) = Kept(c) \cup {k}
      /\ \A x \in Kept(d) : d.value[x] = IF x = k THEN Stored(k) ELSE c.value[x]
      /\ d.older = c.older \cup (Kept(c) \X {k})
      /\ d.bytes = c.bytes + Size[k]
  BY AddFields DEF Sound
<1> HIDE DEF d
<1>2. Ordered(d)
  <2>1. d.older \subseteq Kept(d) \X Kept(d)
    BY <1>1 DEF Sound, Ordered
  <2>2. \A x, y : <<x, y>> \in d.older <=> <<x, y>> \in c.older \/ (x \in Kept(c) /\ y = k)
    BY <1>1
  <2>3. \A x, y : <<x, y>> \in c.older => x \in Kept(c) /\ y \in Kept(c)
    BY DEF Sound, Ordered
  <2>4. /\ \A x, y \in Kept(c) : x # y <=> <<x, y>> \in c.older \/ <<y, x>> \in c.older
        /\ \A x, y, z \in Kept(c) : <<x, y>> \in c.older /\ <<y, z>> \in c.older
                                      => <<x, z>> \in c.older
    BY DEF Sound, Ordered
  <2>5. \A x, y \in Kept(d) : x # y <=> <<x, y>> \in d.older \/ <<y, x>> \in d.older
    BY <1>1, <2>2, <2>3, <2>4
  <2>6. \A x, y, z \in Kept(d) : <<x, y>> \in d.older /\ <<y, z>> \in d.older
                                      => <<x, z>> \in d.older
    BY <1>1, <2>2, <2>3, <2>4
  <2> QED
    BY <2>1, <2>5, <2>6 DEF Ordered
<1>3. d.bytes = Charged(Kept(d)) /\ Size[k] \in Nat
  BY <1>1, BytesMore DEF Sound
<1> QED
  BY <1>1, <1>2, <1>3 DEF Sound, d

\* A lookup changes the order of use alone.
LEMMA GetSound ==
  ASSUME NEW c, Sound(c), NEW k
  PROVE  LET d == Get(c, k) IN
         Sound(d) /\ Kept(d) = Kept(c) /\ d.bytes = c.bytes /\ d.protected = c.protected
<1>1. CASE ~Holds(c, k)
  BY <1>1 DEF Get
<1>2. CASE Holds(c, k)
  <2> DEFINE p == Pop(c, k)  d == Add(p, k, Stored(k))
  <2>1. Get(c, k) = d /\ k \in Kept(c) /\ k \in Names
    BY <1>2 DEF Get, Holds, Sound
  <2>2. Sound(p) /\ k \notin Kept(p) /\ Kept(p) = Kept(c) \ {k} /\ p.protected = c.protected
        /\ p.bytes = c.bytes - Size[k]
    BY <1>2, PopSound, PopFields DEF Sound
  <2>3. Kept(c) \in SUBSET Names /\ Charged(Kept(c)) \in Nat /\ c.bytes = Charged(Kept(c))
    BY BytesOf DEF Sound
  <2> HIDE DEF p
  <2>4. Sound(d) /\ Size[k] \in Nat
    BY <2>1, <2>2, AddSound
  <2>5. Kept(d) = Kept(p) \cup {k} /\ d.protected = p.protected /\ d.bytes = p.bytes + Size[k]
    BY <2>2, AddFields DEF Sound
  <2> HIDE DEF d
  <2>6. d.bytes = c.bytes
    BY <2>2, <2>3, <2>4, <2>5
  <2> QED
    BY <2>1, <2>2, <2>4, <2>5, <2>6
<1> QED
  BY <1>1, <1>2

-----------------------------------------------------------------------------
(* Making room                                                             *)

\* The entry that goes is one of those that may.
LEMMA OldestIn ==
  ASSUME NEW c, Sound(c), NEW S \in SUBSET Kept(c), S # {}
  PROVE  Oldest(c, S) \in S
<1> DEFINE Earlier(x) == {y \in S : <<y, x>> \in c.older}
           Ranks == {Cardinality(Earlier(x)) : x \in S}
           R == {p \in Nat \X Nat : p[1] < p[2]}
<1>1. IsFiniteSet(S)
  BY ReferenceExpertsAssumption, FS_Subset DEF Sound
<1>2. ASSUME NEW x \in S PROVE IsFiniteSet(Earlier(x)) /\ Cardinality(Earlier(x)) \in Nat
  <2>1. Earlier(x) \in SUBSET S
    OBVIOUS
  <2> HIDE DEF Earlier
  <2> QED
    BY <1>1, <2>1, FS_Subset, FS_CardinalityType
<1>3. Ranks \subseteq Nat /\ Ranks # {}
  BY <1>2
<1>4. PICK i \in Ranks : \A j \in Ranks : ~(<<j, i>> \in R)
  <2>1. IsWellFoundedOn(R, Nat)
    BY NatLessThanWellFounded DEF OpToRel
  <2> HIDE DEF R, Ranks
  <2> QED
    BY <1>3, <2>1, WFMin
<1>5. PICK x \in S : i = Cardinality(Earlier(x))
  OBVIOUS
<1>6. ASSUME NEW y \in S, <<y, x>> \in c.older PROVE FALSE
  <2>1. /\ \A z \in S : <<z, y>> \in c.older => <<z, x>> \in c.older
        /\ <<y, y>> \notin c.older
    BY <1>6 DEF Sound, Ordered
  <2>2. Earlier(y) \in SUBSET Earlier(x) /\ y \in Earlier(x) /\ y \notin Earlier(y)
    BY <1>6, <2>1
  <2>3. Cardinality(Earlier(y)) < Cardinality(Earlier(x))
    <3>1. IsFiniteSet(Earlier(x)) /\ Cardinality(Earlier(x)) \in Nat /\ Cardinality(Earlier(y)) \in Nat
      BY <1>2
    <3> HIDE DEF Earlier
    <3> QED
      BY <2>2, <3>1, FS_Subset
  <2>4. Cardinality(Earlier(y)) \in Ranks
    OBVIOUS
  <2>5. Cardinality(Earlier(y)) \in Nat /\ Cardinality(Earlier(x)) \in Nat
    BY <1>2
  <2> HIDE DEF Earlier, Ranks
  <2> QED
    BY <1>4, <1>5, <2>3, <2>4, <2>5
<1>7. \A y \in S \ {x} : <<x, y>> \in c.older
  BY <1>6 DEF Sound, Ordered
<1> QED
  BY <1>7 DEF Oldest

\* A put makes room in rounds.
LEMMA RoomRounds ==
  ASSUME NEW c, NEW size, NEW capacity, NEW balanced, Cardinality(Kept(c)) \in Nat
  PROVE  \E h : /\ h[0] = c
                /\ \A n \in 0..Cardinality(Kept(c)) :
                      n # 0 => h[n] = MakeRoom(h[n - 1], size, capacity, balanced)
                /\ Room(c, size, capacity, balanced) = h[Cardinality(Kept(c))]
<1> DEFINE N == Cardinality(Kept(c))
           Rounds(h, m) == h = [n \in 0..m |-> IF n = 0 THEN c
                                  ELSE MakeRoom(h[n - 1], size, capacity, balanced)]
           P == {m \in Nat : \E h : Rounds(h, m)}
<1>1. 0 \in P
  <2>1. Rounds([n \in 0..0 |-> c], 0)
    OBVIOUS
  <2> QED
    BY <2>1
<1>2. ASSUME NEW m \in Nat, m \in P PROVE m + 1 \in P
  <2>1. PICK h : Rounds(h, m)
    BY <1>2
  <2> DEFINE g == [n \in 0..(m + 1) |->
                     IF n <= m THEN h[n] ELSE MakeRoom(h[m], size, capacity, balanced)]
  <2>2. \A n \in 0..(m + 1) :
           g[n] = IF n = 0 THEN c ELSE MakeRoom(g[n - 1], size, capacity, balanced)
    BY <2>1
  <2>3. Rounds(g, m + 1)
    BY <2>2
  <2> HIDE DEF Rounds, g
  <2>4. \E f : Rounds(f, m + 1)
    BY <2>3
  <2> QED
    BY <2>4
<1>3. N \in P
  <2> HIDE DEF P
  <2> QED
    BY <1>1, <1>2, UpTo
<1> DEFINE round == CHOOSE h : Rounds(h, N)
<1>4. Rounds(round, N)
  BY <1>3
<1>5. Room(c, size, capacity, balanced) = round[N]
  BY DEF Room
<1> HIDE DEF round
<1>6. round[0] = c
  BY <1>4
<1>7. \A n \in 0..N : n # 0 => round[n] = MakeRoom(round[n - 1], size, capacity, balanced)
  BY <1>4
<1> QED
  BY <1>5, <1>6, <1>7, Zenon

\* A sound cache has finitely many entries, of each layer.
LEMMA FinitelyMany ==
  ASSUME NEW c, Sound(c)
  PROVE  /\ IsFiniteSet(Kept(c)) /\ Cardinality(Kept(c)) \in Nat
         /\ \A l : IsFiniteSet(OfLayer(c, l)) /\ Cardinality(OfLayer(c, l)) \in Nat
<1>1. IsFiniteSet(Kept(c))
  BY ReferenceExpertsAssumption, FS_Subset DEF Sound
<1>2. ASSUME NEW l PROVE IsFiniteSet(OfLayer(c, l))
  <2>1. OfLayer(c, l) \in SUBSET Kept(c)
    BY DEF OfLayer
  <2> QED
    BY <1>1, <2>1, FS_Subset
<1> QED
  BY <1>1, <1>2, FS_CardinalityType

\* Without an evicted entry, a sound cache is sound.
LEMMA EvictSound ==
  ASSUME NEW c, Sound(c), NEW k \in Kept(c)
  PROVE  /\ Sound(EvictOne(c, k)) /\ Kept(EvictOne(c, k)) = Kept(c) \ {k}
         /\ Cardinality(Kept(EvictOne(c, k))) = Cardinality(Kept(c)) - 1
<1> DEFINE p == Pop(c, k)  d == EvictOne(c, k)
<1>1. Sound(p) /\ Kept(p) = Kept(c) \ {k}
  BY PopSound, PopFields
<1>2. IsCache(d) /\ Kept(d) = Kept(p) /\ d.value = p.value /\ d.older = p.older /\ d.bytes = p.bytes
  BY EvictFields
<1> HIDE DEF p, d
<1>3. Sound(d)
  BY <1>1, <1>2 DEF Sound, Ordered
<1>4. Cardinality(Kept(c) \ {k}) = Cardinality(Kept(c)) - 1
  BY FinitelyMany, FS_RemoveElement
<1> QED
  BY <1>1, <1>2, <1>3, <1>4 DEF d

\* A round changes nothing, if there is room or nothing may go, or evicts one.
LEMMA OneRound ==
  ASSUME NEW c, Sound(c), NEW size, NEW capacity, NEW balanced
  PROVE  \/ /\ MakeRoom(c, size, capacity, balanced) = c
            /\ c.bytes + size <= capacity \/ Victims(c, balanced) = {}
         \/ \E k \in Victims(c, balanced) :
               k \in Kept(c) /\ MakeRoom(c, size, capacity, balanced) = EvictOne(c, k)
<1>1. CASE c.bytes + size <= capacity \/ Victims(c, balanced) = {}
  BY <1>1 DEF MakeRoom
<1>2. CASE ~(c.bytes + size <= capacity \/ Victims(c, balanced) = {})
  <2>1. Victims(c, balanced) \in SUBSET Kept(c) /\ Victims(c, balanced) # {}
    BY <1>2 DEF Victims, Evictable
  <2>2. Oldest(c, Victims(c, balanced)) \in Victims(c, balanced)
    BY <2>1, OldestIn
  <2> QED
    BY <1>2, <2>1, <2>2 DEF MakeRoom
<1> QED
  BY <1>1, <1>2

Unguarded(c) == c.protected = [l \in Layers |-> {}]

\* The rounds of an LRU cache end with enough room.
LEMMA LruRoom ==
  ASSUME NEW c, Sound(c), NEW size \in Nat, NEW capacity \in Nat, size <= capacity
  PROVE  LET d == Room(c, size, capacity, FALSE) IN
         /\ Sound(d) /\ Kept(d) \subseteq Kept(c) /\ d.bytes + size <= capacity
         /\ Unguarded(c) => Unguarded(d)
<1> DEFINE N == Cardinality(Kept(c))
<1>1. N \in Nat
  BY FinitelyMany
<1>2. PICK h : /\ h[0] = c
               /\ \A n \in 0..N : n # 0 => h[n] = MakeRoom(h[n - 1], size, capacity, FALSE)
               /\ Room(c, size, capacity, FALSE) = h[N]
  <2>1. \A balanced : \E h :
               /\ h[0] = c
               /\ \A n \in 0..N : n # 0 => h[n] = MakeRoom(h[n - 1], size, capacity, balanced)
               /\ Room(c, size, capacity, balanced) = h[N]
    BY <1>1, RoomRounds
  <2> QED
    BY <2>1
<1> DEFINE Fits(d) == d.bytes + size <= capacity
           Good(d, n) == /\ Sound(d) /\ Kept(d) \subseteq Kept(c)
                         /\ Fits(d) \/ Cardinality(Kept(d)) + n <= N
                         /\ Unguarded(c) => Unguarded(d)
           P == {n \in Nat : Good(h[n], n)}
<1>3. 0 \in P
  BY <1>1, <1>2
<1>4. ASSUME NEW n \in Nat, n < N, n \in P PROVE n + 1 \in P
  <2> DEFINE d == h[n]  e == h[n + 1]
  <2>1. n + 1 \in 0..N /\ n + 1 # 0 /\ (n + 1) - 1 = n
    BY <1>1, <1>4
  <2>2. e = MakeRoom(d, size, capacity, FALSE)
    BY <1>2, <2>1, Zenon
  <2>3. Good(d, n)
    BY <1>4
  <2> HIDE DEF d, e
  <2>4. d.bytes = Charged(Kept(d)) /\ Charged(Kept(d)) \in Nat /\ Cardinality(Kept(d)) \in Nat
    BY <2>3, BytesOf, FinitelyMany DEF Sound
  <2>5. ASSUME e = d, Fits(d) \/ Kept(d) = {} PROVE Good(e, n + 1)
    <3>1. Fits(d)
      <4>1. Charged({}) = 0
        BY BytesOf
      <4> QED
        BY <4>1, <2>4, <2>5
    <3> QED
      BY <2>3, <2>5, <3>1
  <2>6. ASSUME NEW k \in Kept(d), e = EvictOne(d, k) PROVE Good(e, n + 1)
    <3>1. /\ Sound(e) /\ Kept(e) = Kept(d) \ {k}
          /\ Cardinality(Kept(e)) = Cardinality(Kept(d)) - 1
      BY <2>3, <2>6, EvictSound
    <3>2. e.protected = [d.protected EXCEPT ![k[1]] = @ \ {k}] /\ e.bytes = Pop(d, k).bytes
      BY <2>6, EvictFields, EvictGuards
    <3>3. Unguarded(d) => Unguarded(e)
      BY <3>2 DEF Unguarded
    <3>4. CASE Fits(d)
      <4>1. e.bytes <= d.bytes
        BY <2>3, <3>2, PopSound
      <4>2. e.bytes = Charged(Kept(e)) /\ Charged(Kept(e)) \in Nat
        BY <3>1, BytesOf DEF Sound
      <4>3. Fits(e)
        BY <3>4, <4>1, <4>2, <2>4
      <4> QED
        BY <2>3, <3>1, <3>3, <4>3
    <3>5. CASE Cardinality(Kept(d)) + n <= N
      <4>1. Cardinality(Kept(e)) + (n + 1) <= N
        BY <3>5, <1>1, <2>4, <3>1
      <4> QED
        BY <2>3, <3>1, <3>3, <4>1
    <3> QED
      BY <2>3, <3>4, <3>5
  <2> HIDE DEF Good
  <2>7. Good(e, n + 1)
    <3>1. Victims(d, FALSE) = Kept(d) /\ Sound(d)
      BY <2>3 DEF Victims, Good
    <3>2. \/ e = d /\ (Fits(d) \/ Kept(d) = {})
          \/ \E k \in Kept(d) : e = EvictOne(d, k)
      BY <2>2, <3>1, OneRound, Zenon
    <3> QED
      BY <2>5, <2>6, <3>2
  <2> QED
    BY <2>7 DEF e
<1>5. N \in P
  <2> HIDE DEF P
  <2> QED
    BY <1>1, <1>3, <1>4, UpTo
<1> DEFINE d == h[N]
<1>6. Good(d, N)
  BY <1>5
<1> HIDE DEF d
<1>7. d.bytes = Charged(Kept(d)) /\ Charged(Kept(d)) \in Nat /\ Cardinality(Kept(d)) \in Nat
  BY <1>6, BytesOf, FinitelyMany DEF Sound
<1>8. Fits(d)
  <2>1. CASE Cardinality(Kept(d)) + N <= N
    <3>1. Kept(d) = {}
      BY <1>1, <1>6, <1>7, <2>1, FinitelyMany, FS_EmptySet
    <3> QED
      BY <3>1, <1>7, BytesOf
  <2> QED
    BY <1>6, <2>1
<1>9. Room(c, size, capacity, FALSE) = d
  BY <1>2 DEF d
<1> QED
  BY <1>6, <1>8, <1>9, Zenon

\* A put into an LRU cache leaves it within its capacity.
LEMMA LruPutSound ==
  ASSUME NEW c, Sound(c), NEW capacity \in Nat, c.bytes <= capacity, NEW k \in Names
  PROVE  LET d == LruPut(c, k, Stored(k), capacity) IN
         /\ Sound(d) /\ d.bytes <= capacity /\ Kept(d) \subseteq Kept(c) \cup {k}
         /\ Unguarded(c) => Unguarded(d)
<1>1. CASE Size[k] > capacity
  BY <1>1 DEF LruPut
<1>2. CASE ~(Size[k] > capacity)
  <2> DEFINE p == Pop(c, k)  r == Room(p, Size[k], capacity, FALSE)  d == Add(r, k, Stored(k))
  <2>1. Size[k] \in Nat /\ Size[k] <= capacity
    BY <1>2, SizesOK
  <2>2. Sound(p) /\ Kept(p) = Kept(c) \ {k} /\ p.protected = c.protected
    BY PopSound, PopFields
  <2>3. /\ Sound(r) /\ Kept(r) \subseteq Kept(p) /\ r.bytes + Size[k] <= capacity
        /\ Unguarded(p) => Unguarded(r)
    <3> HIDE DEF p
    <3> QED
      BY <2>1, <2>2, LruRoom
  <2> HIDE DEF p, r
  <2>4. k \notin Kept(r)
    BY <2>2, <2>3
  <2>5. Sound(d)
    BY <2>3, <2>4, AddSound
  <2>6. Kept(d) = Kept(r) \cup {k} /\ d.protected = r.protected /\ d.bytes = r.bytes + Size[k]
    BY AddFields
  <2>7. LruPut(c, k, Stored(k), capacity) = d
    BY <1>2 DEF LruPut, p, r
  <2> HIDE DEF d
  <2>8. d.bytes <= capacity /\ Kept(d) \subseteq Kept(c) \cup {k}
    BY <2>2, <2>3, <2>6
  <2>9. Unguarded(c) => Unguarded(d)
    BY <2>2, <2>3, <2>6 DEF Unguarded
  <2> QED
    BY <2>5, <2>7, <2>8, <2>9, Zenon
<1> QED
  BY <1>1, <1>2, Zenon

\* What is protected is of the layer that protects it.
GuardsOK(c) ==
    /\ Kept(c) \subseteq Keys
    /\ c.protected \in [Layers -> SUBSET Keys]
    /\ \A l \in Layers : \A x \in c.protected[l] : x[1] = l

\* From c to d no protected entry was lost, and no layer fell below its share.
Spares(c, d) ==
    /\ Kept(d) \subseteq Kept(c) /\ d.protected = c.protected
    /\ \A l \in Layers : c.protected[l] \cap Kept(c) \subseteq Kept(d)
    /\ \A l \in Layers : \A m \in 0..Protected :
          Cardinality(OfLayer(c, l)) >= m => Cardinality(OfLayer(d, l)) >= m

LEMMA SparesOn ==
  ASSUME NEW c, NEW d, NEW e, Spares(c, d), Spares(d, e)
  PROVE  Spares(c, e)
<1>1. \A l \in Layers : c.protected[l] \cap Kept(c) \subseteq Kept(e)
  BY DEF Spares
<1>2. \A l \in Layers : \A m \in 0..Protected :
          Cardinality(OfLayer(c, l)) >= m => Cardinality(OfLayer(e, l)) >= m
  BY DEF Spares
<1> QED
  BY <1>1, <1>2 DEF Spares

\* An eviction of layer_balanced spares the shares.
LEMMA EvictSpares ==
  ASSUME NEW c, Sound(c), GuardsOK(c), NEW k \in Evictable(c)
  PROVE  Spares(c, EvictOne(c, k)) /\ GuardsOK(EvictOne(c, k))
<1> DEFINE d == EvictOne(c, k)
<1>1. /\ k \in Kept(c) /\ k \in Keys /\ k[1] \in Layers /\ k \notin c.protected[k[1]]
      /\ Cardinality(OfLayer(c, k[1])) > Protected
  BY DEF Evictable, GuardsOK, Keys
<1>2. Sound(d) /\ Kept(d) = Kept(c) \ {k}
  BY <1>1, EvictSound
<1>3. d.protected = [c.protected EXCEPT ![k[1]] = @ \ {k}]
  BY EvictGuards
<1> HIDE DEF d
<1>4. d.protected = c.protected
  <2>1. c.protected[k[1]] \ {k} = c.protected[k[1]]
    BY <1>1
  <2> QED
    BY <1>1, <1>3, <2>1 DEF GuardsOK
<1>5. \A l \in Layers : c.protected[l] \cap Kept(c) \subseteq Kept(d)
  BY <1>1, <1>2 DEF GuardsOK
<1>6. ASSUME NEW l \in Layers, NEW m \in 0..Protected, Cardinality(OfLayer(c, l)) >= m
      PROVE  Cardinality(OfLayer(d, l)) >= m
  <2>1. CASE l = k[1]
    <3>1. OfLayer(d, l) = OfLayer(c, l) \ {k} /\ k \in OfLayer(c, l)
      BY <1>1, <1>2, <2>1 DEF OfLayer
    <3>2. /\ IsFiniteSet(OfLayer(c, l)) /\ Cardinality(OfLayer(c, l)) \in Nat
          /\ Protected \in Nat
      BY FinitelyMany, ReferenceExpertsAssumption
    <3>3. Cardinality(OfLayer(d, l)) = Cardinality(OfLayer(c, l)) - 1
      BY <3>1, <3>2, FS_RemoveElement
    <3> QED
      BY <1>1, <1>6, <2>1, <3>2, <3>3
  <2>2. CASE l # k[1]
    <3>1. OfLayer(d, l) = OfLayer(c, l)
      BY <1>2, <2>2 DEF OfLayer
    <3> QED
      BY <1>6, <3>1
  <2> QED
    BY <2>1, <2>2
<1>7. Spares(c, d)
  BY <1>2, <1>4, <1>5, <1>6 DEF Spares
<1>8. GuardsOK(d)
  BY <1>2, <1>4 DEF GuardsOK
<1> QED
  BY <1>7, <1>8 DEF d

\* So do all rounds of a put, which never make the cache larger.
LEMMA BalancedRoom ==
  ASSUME NEW c, Sound(c), GuardsOK(c), NEW size, NEW capacity
  PROVE  LET d == Room(c, size, capacity, TRUE) IN
         Sound(d) /\ GuardsOK(d) /\ Spares(c, d) /\ d.bytes <= c.bytes
<1> DEFINE N == Cardinality(Kept(c))
<1>1. N \in Nat
  BY FinitelyMany
<1>2. PICK h : /\ h[0] = c
               /\ \A n \in 0..N : n # 0 => h[n] = MakeRoom(h[n - 1], size, capacity, TRUE)
               /\ Room(c, size, capacity, TRUE) = h[N]
  <2>1. \A balanced : \E h :
               /\ h[0] = c
               /\ \A n \in 0..N : n # 0 => h[n] = MakeRoom(h[n - 1], size, capacity, balanced)
               /\ Room(c, size, capacity, balanced) = h[N]
    BY <1>1, RoomRounds
  <2> QED
    BY <2>1
<1> DEFINE Good(d) == Sound(d) /\ GuardsOK(d) /\ Spares(c, d) /\ d.bytes <= c.bytes
           P == {n \in Nat : Good(h[n])}
<1>3. 0 \in P
  <2>1. c.bytes \in Nat
    BY BytesOf DEF Sound
  <2>2. Spares(c, c)
    BY DEF Spares
  <2> QED
    BY <1>2, <2>1, <2>2
<1>4. ASSUME NEW n \in Nat, n < N, n \in P PROVE n + 1 \in P
  <2> DEFINE d == h[n]  e == h[n + 1]
  <2>1. n + 1 \in 0..N /\ n + 1 # 0 /\ (n + 1) - 1 = n
    BY <1>1, <1>4
  <2>2. e = MakeRoom(d, size, capacity, TRUE)
    BY <1>2, <2>1, Zenon
  <2>3. Good(d)
    BY <1>4
  <2> HIDE DEF d, e
  <2>4. ASSUME NEW k \in Evictable(d), k \in Kept(d), e = EvictOne(d, k) PROVE Good(e)
    <3>1. Sound(e) /\ Spares(d, e) /\ GuardsOK(e)
      BY <2>3, <2>4, EvictSound, EvictSpares
    <3>2. e.bytes <= d.bytes
      BY <2>3, <2>4, EvictFields, PopSound
    <3>3. e.bytes \in Nat /\ d.bytes \in Nat /\ c.bytes \in Nat
      BY <2>3, <3>1, BytesOf DEF Sound
    <3>4. e.bytes <= c.bytes
      BY <2>3, <3>2, <3>3
    <3>5. Spares(c, e)
      BY <2>3, <3>1, SparesOn
    <3> QED
      BY <3>1, <3>4, <3>5
  <2>5. e = d \/ \E k \in Evictable(d) : k \in Kept(d) /\ e = EvictOne(d, k)
    <3>1. Victims(d, TRUE) = Evictable(d) /\ Sound(d)
      BY <2>3 DEF Victims
    <3> QED
      BY <2>2, <3>1, OneRound, Zenon
  <2>6. Good(e)
    BY <2>3, <2>4, <2>5, Zenon
  <2> QED
    BY <2>6 DEF e
<1>5. N \in P
  <2> HIDE DEF P
  <2> QED
    BY <1>1, <1>3, <1>4, UpTo
<1>6. Good(h[N])
  BY <1>5
<1> QED
  BY <1>2, <1>6, Zenon

\* Of each layer no more than its share is protected, and all of that kept.
Balanced(c) ==
    /\ Kept(c) \subseteq Keys /\ c.protected \in [Layers -> SUBSET Keys]
    /\ \A l \in Layers : /\ Cardinality(c.protected[l]) <= Protected
                         /\ c.protected[l] \subseteq OfLayer(c, l)

\* From c to d no layer lost what it protects, or fell below its share.
SharesKept(c, d) ==
    \A l \in Layers :
        /\ c.protected[l] \subseteq d.protected[l]
        /\ Cardinality(OfLayer(c, l)) >= Protected => Cardinality(OfLayer(d, l)) >= Protected

LEMMA SharesKeptOn ==
  ASSUME NEW c, NEW d, NEW e, SharesKept(c, d), SharesKept(d, e)
  PROVE  SharesKept(c, e)
BY DEF SharesKept

\* The rounds may take a layer that lost the entry to be replaced to one below
\* its share: the entry comes back.
LEMMA SharesBack ==
  ASSUME NEW c, Sound(c), Balanced(c), NEW k \in Keys, NEW r, Sound(r), Spares(Pop(c, k), r),
         NEW e, Kept(e) = Kept(r) \cup {k}, NEW l \in Layers
  PROVE  /\ c.protected[l] \subseteq OfLayer(e, l)
         /\ Cardinality(OfLayer(c, l)) >= Protected => Cardinality(OfLayer(e, l)) >= Protected
<1> DEFINE p == Pop(c, k)
<1>1. Sound(p) /\ Kept(p) = Kept(c) \ {k} /\ p.protected = c.protected
  BY PopSound, PopFields
<1>2. Spares(p, r)
  OBVIOUS
<1> HIDE DEF p
<1>3. c.protected[l] \subseteq OfLayer(e, l)
  BY <1>1, <1>2 DEF Spares, Balanced, OfLayer
<1>4. /\ Protected \in Nat \ {0} /\ k[1] \in Layers
      /\ Cardinality(OfLayer(c, l)) \in Nat /\ IsFiniteSet(OfLayer(c, l))
      /\ Cardinality(OfLayer(p, l)) \in Nat
      /\ Cardinality(OfLayer(r, l)) \in Nat /\ IsFiniteSet(OfLayer(r, l))
  BY <1>1, FinitelyMany, ReferenceExpertsAssumption DEF Keys
<1>5. ASSUME Cardinality(OfLayer(c, l)) >= Protected
      PROVE  Cardinality(OfLayer(e, l)) >= Protected
  <2>1. CASE l # k[1]
    <3>1. OfLayer(p, l) = OfLayer(c, l) /\ OfLayer(e, l) = OfLayer(r, l)
      BY <1>1, <2>1 DEF OfLayer
    <3> QED
      BY <1>2, <1>4, <1>5, <3>1 DEF Spares
  <2>2. CASE l = k[1]
    <3>1. OfLayer(p, l) = OfLayer(c, l) \ {k} /\ OfLayer(e, l) = OfLayer(r, l) \cup {k}
      BY <1>1, <2>2 DEF OfLayer
    <3>2. k \notin OfLayer(r, l)
      BY <1>1, <1>2 DEF Spares, OfLayer
    <3>3. Cardinality(OfLayer(e, l)) = Cardinality(OfLayer(r, l)) + 1
      BY <1>4, <3>1, <3>2, FS_AddElement
    <3>4. Cardinality(OfLayer(p, l)) >= Cardinality(OfLayer(c, l)) - 1
      <4>1. CASE k \in OfLayer(c, l)
        <5>1. Cardinality(OfLayer(c, l) \ {k}) = Cardinality(OfLayer(c, l)) - 1
          BY <1>4, <4>1, FS_RemoveElement
        <5> QED
          BY <5>1, <1>4, <3>1
      <4>2. CASE k \notin OfLayer(c, l)
        <5>1. OfLayer(p, l) = OfLayer(c, l)
          BY <3>1, <4>2
        <5> QED
          BY <5>1, <1>4
      <4> QED
        BY <4>1, <4>2
    <3>5. Protected - 1 \in 0..Protected /\ Cardinality(OfLayer(p, l)) >= Protected - 1
      BY <1>4, <1>5, <3>4
    <3>6. Cardinality(OfLayer(r, l)) >= Protected - 1
      BY <1>2, <3>5 DEF Spares
    <3> QED
      BY <1>4, <3>3, <3>6
  <2> QED
    BY <2>1, <2>2
<1> QED
  BY <1>3, <1>5

\* A put under layer_balanced leaves the cache within its capacity and balanced,
\* whether it is refused or not.
LEMMA BalancedPutSound ==
  ASSUME NEW c, Sound(c), Balanced(c), c.bytes <= DeviceCapacity, NEW k \in Keys
  PROVE  LET d == BalancedPut(c, k, Stored(k)) IN
         Sound(d) /\ Balanced(d) /\ d.bytes <= DeviceCapacity /\ SharesKept(c, d)
<1> DEFINE p == Pop(c, k)  r == Room(p, Size[k], DeviceCapacity, TRUE)
           a == Add(r, k, Stored(k))  d == BalancedPut(c, k, Stored(k))
           guard == c.protected[k[1]]
           after == IF k \in guard \/ Cardinality(guard) < Protected THEN guard \cup {k} ELSE guard
           Kinds(x) == Sound(x) /\ Balanced(x) /\ x.bytes <= DeviceCapacity /\ SharesKept(c, x)
<1>1. k \in Names /\ k[1] \in Layers /\ Size[k] \in Nat /\ DeviceCapacity \in Nat
      /\ Protected \in Nat \ {0}
  BY ReferenceExpertsAssumption, SizesOK DEF Keys
<1>2. /\ Sound(p) /\ Kept(p) = Kept(c) \ {k} /\ p.protected = c.protected
      /\ p.bytes = IF Holds(c, k) THEN c.bytes - Size[k] ELSE c.bytes
  BY PopSound, PopFields
<1>3. GuardsOK(p)
  BY <1>2 DEF GuardsOK, Balanced, OfLayer
<1>4. Sound(r) /\ Spares(p, r) /\ r.bytes <= p.bytes
  <2> HIDE DEF p
  <2> QED
    BY <1>2, <1>3, BalancedRoom
<1>5. r.bytes \in Nat /\ p.bytes \in Nat /\ c.bytes \in Nat
  BY <1>2, <1>4, BytesOf DEF Sound
<1>6. k \notin Kept(r) /\ r.protected = c.protected /\ Kept(r) \subseteq Keys
  BY <1>2, <1>4 DEF Spares, Balanced
<1>7. Sound(a)
  <2> HIDE DEF r
  <2> QED
    BY <1>1, <1>4, <1>6, AddSound
<1>8. Kept(a) = Kept(r) \cup {k} /\ a.protected = r.protected /\ a.bytes = r.bytes + Size[k]
  <2> HIDE DEF r
  <2> QED
    BY AddFields
<1>9. \A l \in Layers : /\ c.protected[l] \subseteq OfLayer(a, l)
                        /\ Cardinality(OfLayer(c, l)) >= Protected
                             => Cardinality(OfLayer(a, l)) >= Protected
  <2> HIDE DEF r, a
  <2> QED
    BY <1>4, <1>8, SharesBack
<1>10. CASE Size[k] > DeviceCapacity
  <2>1. d = c
    BY <1>10 DEF BalancedPut
  <2> QED
    BY <2>1 DEF SharesKept
<1>11. CASE ~(Size[k] > DeviceCapacity) /\ r.bytes + Size[k] <= DeviceCapacity
  <2>1. d = [a EXCEPT !.protected[k[1]] =
               IF k \in guard \/ Cardinality(guard) < Protected THEN @ \cup {k} ELSE @]
    BY <1>11 DEF BalancedPut
  <2>2. PICK v, o, b, g : a = [value |-> v, older |-> o, bytes |-> b, protected |-> g]
    BY <1>7 DEF Sound, IsCache
  <2> HIDE DEF d, a, r, after
  <2>3. g = c.protected
    BY <1>6, <1>8, <2>2
  <2> USE DEF after
  <2>4. d = [value |-> v, older |-> o, bytes |-> b, protected |-> [g EXCEPT ![k[1]] = after]]
    BY <2>1, <2>2, <2>3
  <2>5. Kept(d) = Kept(a) /\ d.value = a.value /\ d.older = a.older /\ d.bytes = a.bytes
        /\ IsCache(d)
    BY <2>2, <2>4 DEF Kept, IsCache
  <2>6. d.protected = [c.protected EXCEPT ![k[1]] = after]
    BY <2>3, <2>4
  <2>7. Sound(d)
    BY <1>7, <2>5 DEF Sound, Ordered
  <2>8. d.bytes <= DeviceCapacity
    BY <1>8, <1>11, <2>5
  <2>9. guard \in SUBSET Keys /\ IsFiniteSet(guard) /\ Cardinality(guard) <= Protected
        /\ Cardinality(guard) \in Nat /\ guard \subseteq OfLayer(a, k[1])
    <3>1. guard \in SUBSET OfLayer(c, k[1]) /\ IsFiniteSet(OfLayer(c, k[1]))
      BY <1>1, FinitelyMany DEF Balanced
    <3>2. IsFiniteSet(guard)
      BY <3>1, FS_Subset
    <3> QED
      BY <1>1, <1>9, <3>2, FS_CardinalityType DEF Balanced
  <2>10. Cardinality(after) <= Protected /\ after \in SUBSET OfLayer(a, k[1]) /\ after \in SUBSET Keys
    <3>1. k \in OfLayer(a, k[1])
      BY <1>8 DEF OfLayer
    <3>2. CASE k \in guard
      <4>1. after = guard
        BY <3>2
      <4> QED
        BY <2>9, <4>1
    <3>3. CASE k \notin guard /\ Cardinality(guard) < Protected
      <4>1. after = guard \cup {k}
        BY <3>3
      <4>2. Cardinality(guard \cup {k}) = Cardinality(guard) + 1
        BY <2>9, <3>3, FS_AddElement
      <4> QED
        BY <1>1, <2>9, <3>1, <3>3, <4>1, <4>2
    <3>4. CASE k \notin guard /\ ~(Cardinality(guard) < Protected)
      <4>1. after = guard
        BY <3>4
      <4> QED
        BY <2>9, <4>1
    <3> QED
      BY <3>2, <3>3, <3>4
  <2>11. guard \subseteq after
    OBVIOUS
  <2> HIDE DEF after, guard
  <2>12. d.protected \in [Layers -> SUBSET Keys]
         /\ \A l \in Layers : d.protected[l] = IF l = k[1] THEN after ELSE c.protected[l]
    BY <1>1, <2>6, <2>10 DEF Balanced
  <2>13. \A l \in Layers : OfLayer(d, l) = OfLayer(a, l)
    BY <2>5 DEF OfLayer
  <2>14. Balanced(d)
    BY <1>6, <1>8, <1>9, <2>5, <2>10, <2>12, <2>13 DEF Balanced
  <2>15. SharesKept(c, d)
    BY <1>9, <2>11, <2>12, <2>13 DEF SharesKept, guard
  <2> QED
    BY <2>7, <2>8, <2>14, <2>15 DEF d
<1>12. CASE ~(Size[k] > DeviceCapacity) /\ ~(r.bytes + Size[k] <= DeviceCapacity) /\ Holds(c, k)
  <2>1. d = a
    <3>1. c.value[k] = Stored(k)
      BY <1>12 DEF Sound, Holds
    <3> QED
      BY <1>12, <3>1 DEF BalancedPut
  <2> HIDE DEF a, d, r, p, guard, after
  <2>2. a.bytes <= DeviceCapacity
    <3>1. p.bytes = c.bytes - Size[k]
      BY <1>2, <1>12
    <3> QED
      BY <1>1, <1>4, <1>5, <1>8, <3>1
  <2>3. Balanced(a) /\ SharesKept(c, a)
    BY <1>6, <1>8, <1>9 DEF Balanced, SharesKept
  <2> QED
    BY <1>7, <2>1, <2>2, <2>3, Zenon DEF d
<1>13. CASE ~(Size[k] > DeviceCapacity) /\ ~(r.bytes + Size[k] <= DeviceCapacity) /\ ~Holds(c, k)
  <2>1. d = r
    BY <1>13 DEF BalancedPut
  <2> HIDE DEF a, d, r, p, guard, after
  <2>2. r.bytes <= DeviceCapacity /\ Kept(p) = Kept(c)
    <3>1. p.bytes = c.bytes /\ Kept(p) = Kept(c)
      BY <1>2, <1>13 DEF Holds
    <3> QED
      BY <1>1, <1>4, <1>5, <3>1
  <2>3. \A l \in Layers : OfLayer(p, l) = OfLayer(c, l)
    BY <2>2 DEF OfLayer
  <2>4. Protected \in 0..Protected
    BY <1>1
  <2>5. Balanced(r) /\ SharesKept(c, r)
    BY <1>2, <1>4, <1>6, <2>2, <2>3, <2>4 DEF Balanced, SharesKept, Spares, OfLayer
  <2> QED
    BY <1>4, <2>1, <2>2, <2>5, Zenon DEF d
<1> QED
  BY <1>10, <1>11, <1>12, <1>13, Zenon

-----------------------------------------------------------------------------
(* The tiers                                                               *)

Stages == {"on device", "in sidecar", "in payload", "was read", "decode"}

DeviceOK(u, c) ==
    /\ Sound(c) /\ Balanced(c) /\ c.bytes <= DeviceCapacity
    /\ u.device # "layer_balanced" => Unguarded(c)

PackedOK(packed) ==
    /\ packed \in [Keys -> Keys \cup {None}]
    /\ \A k \in Keys : packed[k] \in {None, Stored(k)}

TiersOK(u, t) ==
    /\ \E d, p, f : t = [device |-> d, payloads |-> p, packed |-> f]
    /\ DeviceOK(u, t.device)
    /\ Sound(t.payloads) /\ t.payloads.bytes <= PayloadCapacity
    /\ PackedOK(t.packed)

SharesOn(u, c, d) == u.device = "layer_balanced" => SharesKept(c, d)

\* A put on the device under any policy.
LEMMA DevicePutOK ==
  ASSUME NEW u, u.device \in Policies, NEW t, TiersOK(u, t), NEW k \in Keys
  PROVE  LET r == DevicePut(u, t, k, Stored(k)) IN
         TiersOK(u, r) /\ SharesOn(u, t.device, r.device)
<1> DEFINE r == DevicePut(u, t, k, Stored(k))
<1>1. PICK d, p, f : t = [device |-> d, payloads |-> p, packed |-> f]
  BY DEF TiersOK
<1>2. t.device = d /\ t.payloads = p /\ t.packed = f
  BY <1>1
<1>3. DeviceOK(u, d) /\ Sound(p) /\ p.bytes <= PayloadCapacity /\ PackedOK(f)
  BY <1>2 DEF TiersOK
<1>4. ASSUME NEW e, DeviceOK(u, e), SharesOn(u, d, e),
             r = [device |-> e, payloads |-> p, packed |-> f]
      PROVE  TiersOK(u, r) /\ SharesOn(u, t.device, r.device)
  <2> HIDE DEF r
  <2>1. r.device = e /\ r.payloads = p /\ r.packed = f
    BY <1>4
  <2> QED
    BY <1>2, <1>3, <1>4, <2>1 DEF TiersOK
<1>5. k \in Names /\ DeviceCapacity \in Nat
  BY ReferenceExpertsAssumption
<1>6. CASE u.device = "lru"
  <2> DEFINE e == LruPut(d, k, Stored(k), DeviceCapacity)
  <2>1. r = [device |-> e, payloads |-> p, packed |-> f]
    BY <1>1, <1>6 DEF DevicePut
  <2>2. Unguarded(d) /\ Sound(d) /\ d.bytes <= DeviceCapacity /\ Balanced(d)
    BY <1>3, <1>6 DEF DeviceOK
  <2>3. /\ Sound(e) /\ e.bytes <= DeviceCapacity /\ Kept(e) \subseteq Kept(d) \cup {k}
        /\ Unguarded(e)
    BY <1>5, <2>2, LruPutSound
  <2> HIDE DEF e, r
  <2>4. Balanced(e)
    <3>1. Cardinality({}) = 0 /\ Protected \in Nat
      BY FS_EmptySet, ReferenceExpertsAssumption
    <3> QED
      BY <2>2, <2>3, <3>1 DEF Balanced, Unguarded
  <2>5. DeviceOK(u, e) /\ SharesOn(u, d, e)
    BY <1>6, <2>3, <2>4 DEF DeviceOK, SharesOn
  <2> QED
    BY <1>4, <2>1, <2>5 DEF r
<1>7. CASE u.device = "layer_balanced"
  <2> DEFINE e == BalancedPut(d, k, Stored(k))
  <2>1. r = [device |-> e, payloads |-> p, packed |-> f]
    BY <1>1, <1>7 DEF DevicePut
  <2>2. Sound(d) /\ d.bytes <= DeviceCapacity /\ Balanced(d)
    BY <1>3 DEF DeviceOK
  <2>3. Sound(e) /\ Balanced(e) /\ e.bytes <= DeviceCapacity /\ SharesKept(d, e)
    BY <2>2, BalancedPutSound
  <2> HIDE DEF e, r
  <2>4. DeviceOK(u, e) /\ SharesOn(u, d, e)
    BY <1>7, <2>3 DEF DeviceOK, SharesOn
  <2> QED
    BY <1>4, <2>1, <2>4 DEF r
<1>8. CASE u.device = "none"
  <2>1. r = t
    BY <1>8 DEF DevicePut
  <2> QED
    BY <1>8, <2>1 DEF SharesOn
<1> QED
  BY <1>6, <1>7, <1>8 DEF Policies

\* A stage leaves the tiers sound, and spares the shares of the layers.
LEMMA StageOK ==
  ASSUME NEW u, u.device \in Policies, NEW t, TiersOK(u, t), NEW k \in Keys, NEW name \in Stages
  PROVE  LET r == Stage(name, u, t, k, Stored(k)) IN
         TiersOK(u, r) /\ SharesOn(u, t.device, r.device)
<1> DEFINE r == Stage(name, u, t, k, Stored(k))
<1>1. PICK d, p, f : t = [device |-> d, payloads |-> p, packed |-> f]
  BY DEF TiersOK
<1>2. t.device = d /\ t.payloads = p /\ t.packed = f
  BY <1>1
<1>3. DeviceOK(u, d) /\ Sound(p) /\ p.bytes <= PayloadCapacity /\ PackedOK(f)
  BY <1>2 DEF TiersOK
<1>4. k \in Names /\ PayloadCapacity \in Nat
  BY ReferenceExpertsAssumption
<1>5. SharesOn(u, d, d)
  BY DEF SharesOn, SharesKept
<1>6. ASSUME NEW d1, NEW p1, NEW f1, DeviceOK(u, d1), SharesOn(u, d, d1), Sound(p1),
             p1.bytes <= PayloadCapacity, PackedOK(f1),
             NEW s, s = [device |-> d1, payloads |-> p1, packed |-> f1]
      PROVE  TiersOK(u, s) /\ SharesOn(u, t.device, s.device)
  <2>1. s.device = d1 /\ s.payloads = p1 /\ s.packed = f1
    BY <1>6
  <2> QED
    BY <1>2, <1>6, <2>1 DEF TiersOK
<1>7. CASE name = "on device"
  <2> DEFINE e == Get(d, k)
  <2>1. r = [device |-> e, payloads |-> p, packed |-> f]
    BY <1>1, <1>7 DEF Stage
  <2>2. Sound(e) /\ Kept(e) = Kept(d) /\ e.bytes = d.bytes /\ e.protected = d.protected
    BY <1>3, GetSound DEF DeviceOK
  <2> HIDE DEF e, r
  <2>3. \A l : OfLayer(e, l) = OfLayer(d, l)
    BY <2>2 DEF OfLayer
  <2>4. DeviceOK(u, e) /\ SharesOn(u, d, e)
    BY <1>3, <2>2, <2>3 DEF DeviceOK, Balanced, Unguarded, SharesOn, SharesKept
  <2> QED
    BY <1>3, <1>6, <2>1, <2>4 DEF r
<1>8. CASE name = "in sidecar"
  <2>1. r = DevicePut(u, t, k, Stored(k))
    BY <1>8 DEF Stage
  <2> QED
    BY <2>1, DevicePutOK, Zenon
<1>9. CASE name = "in payload"
  <2> DEFINE e == Get(p, k)
  <2>1. r = [device |-> d, payloads |-> e, packed |-> f]
    BY <1>1, <1>9 DEF Stage
  <2>2. Sound(e) /\ e.bytes = p.bytes
    BY <1>3, GetSound
  <2> HIDE DEF e, r
  <2> QED
    BY <1>3, <1>5, <1>6, <2>1, <2>2 DEF r
<1>10. CASE name = "was read"
  <2> DEFINE e == LruPut(p, k, Stored(k), PayloadCapacity)
  <2>1. r = [device |-> d, payloads |-> e, packed |-> f]
    BY <1>1, <1>10 DEF Stage
  <2>2. Sound(e) /\ e.bytes <= PayloadCapacity
    BY <1>3, <1>4, LruPutSound
  <2> HIDE DEF e, r
  <2> QED
    BY <1>3, <1>5, <1>6, <2>1, <2>2 DEF r
<1>11. CASE name = "decode"
  <2> DEFINE g == IF u.packed THEN [f EXCEPT ![k] = Stored(k)] ELSE f
             s == [device |-> d, payloads |-> p, packed |-> g]
  <2>1. [t EXCEPT !.packed[k] = IF u.packed THEN Stored(k) ELSE @] = s
    <3>1. [t EXCEPT !.packed[k] = IF u.packed THEN Stored(k) ELSE @]
            = [device |-> d, payloads |-> p,
               packed |-> [f EXCEPT ![k] = IF u.packed THEN Stored(k) ELSE @]]
      BY <1>1
    <3>2. [f EXCEPT ![k] = IF u.packed THEN Stored(k) ELSE @] = g
      BY <1>3 DEF PackedOK
    <3> QED
      BY <3>1, <3>2
  <2>2. PackedOK(g)
    BY <1>3 DEF PackedOK, Stored
  <2>3. r = DevicePut(u, s, k, Stored(k))
    BY <1>11, <2>1 DEF Stage, Decode
  <2> HIDE DEF g, r
  <2>4. TiersOK(u, s) /\ s.device = d
    BY <1>3, <1>5, <1>6, <2>2
  <2> HIDE DEF s
  <2>5. TiersOK(u, r) /\ SharesOn(u, s.device, r.device)
    BY <2>3, <2>4, DevicePutOK, Zenon
  <2> QED
    BY <1>2, <2>4, <2>5 DEF r
<1> QED
  BY <1>7, <1>8, <1>9, <1>10, <1>11 DEF Stages

-----------------------------------------------------------------------------
(* Loading experts                                                         *)

\* A stage takes one expert after the other.
LEMMA EachRounds ==
  ASSUME NEW name, NEW u, NEW t, NEW l, NEW ids, NEW value, ExpertCount \in Nat
  PROVE  \E h : /\ h[0] = t
                /\ \A n \in 0..ExpertCount : n # 0 =>
                      h[n] = IF n \in ids THEN Stage(name, u, h[n - 1], <<l, n>>, value[n])
                             ELSE h[n - 1]
                /\ Each(name, u, t, l, ids, value) = h[ExpertCount]
<1> DEFINE Next1(s, n) == IF n \in ids THEN Stage(name, u, s, <<l, n>>, value[n]) ELSE s
           Rounds(h, m) == h = [n \in 0..m |-> IF n = 0 THEN t
                                  ELSE IF n \in ids
                                  THEN Stage(name, u, h[n - 1], <<l, n>>, value[n]) ELSE h[n - 1]]
           P == {m \in Nat : \E h : Rounds(h, m)}
<1>1. 0 \in P
  <2>1. Rounds([n \in 0..0 |-> t], 0)
    OBVIOUS
  <2> QED
    BY <2>1
<1>2. ASSUME NEW m \in Nat, m \in P PROVE m + 1 \in P
  <2>1. PICK h : Rounds(h, m)
    BY <1>2
  <2> DEFINE g == [n \in 0..(m + 1) |-> IF n <= m THEN h[n] ELSE Next1(h[m], m + 1)]
  <2>2. \A n \in 0..(m + 1) :
           g[n] = IF n = 0 THEN t ELSE IF n \in ids
                  THEN Stage(name, u, g[n - 1], <<l, n>>, value[n]) ELSE g[n - 1]
    <3> HIDE DEF Next1
    <3>1. ASSUME NEW n \in 0..m
          PROVE  g[n] = IF n = 0 THEN t ELSE IF n \in ids
                        THEN Stage(name, u, g[n - 1], <<l, n>>, value[n]) ELSE g[n - 1]
      BY <2>1
    <3>2. g[m + 1] = Next1(g[m], m + 1) /\ m + 1 # 0 /\ (m + 1) - 1 = m
      OBVIOUS
    <3> HIDE DEF g
    <3>3. g[m + 1] = IF m + 1 \in ids
                     THEN Stage(name, u, g[(m + 1) - 1], <<l, m + 1>>, value[m + 1])
                     ELSE g[(m + 1) - 1]
      BY <3>2 DEF Next1
    <3> QED
      BY <3>1, <3>2, <3>3
  <2>3. Rounds(g, m + 1)
    <3> HIDE DEF Next1
    <3> QED
      BY <2>2
  <2> HIDE DEF Rounds, g
  <2>4. \E f : Rounds(f, m + 1)
    BY <2>3
  <2> QED
    BY <2>4
<1>3. ExpertCount \in P
  <2> HIDE DEF P
  <2> QED
    BY <1>1, <1>2, UpTo
<1> DEFINE upTo == CHOOSE h : Rounds(h, ExpertCount)
<1>4. Rounds(upTo, ExpertCount)
  BY <1>3
<1>5. Each(name, u, t, l, ids, value) = upTo[ExpertCount]
  BY DEF Each
<1> HIDE DEF upTo
<1>6. upTo[0] = t
  BY <1>4
<1>7. \A n \in 0..ExpertCount : n # 0 =>
         upTo[n] = IF n \in ids THEN Stage(name, u, upTo[n - 1], <<l, n>>, value[n])
                   ELSE upTo[n - 1]
  BY <1>4
<1> QED
  BY <1>5, <1>6, <1>7, Zenon

\* All of a stage leaves the tiers sound.
LEMMA EachOK ==
  ASSUME NEW u, u.device \in Policies, NEW t, TiersOK(u, t), NEW name \in Stages,
         NEW l \in Layers, NEW ids \in SUBSET Experts, NEW value,
         \A e \in ids : value[e] = Stored(<<l, e>>)
  PROVE  LET r == Each(name, u, t, l, ids, value) IN
         TiersOK(u, r) /\ SharesOn(u, t.device, r.device)
<1>1. ExpertCount \in Nat
  BY ReferenceExpertsAssumption
<1>2. PICK h : /\ h[0] = t
               /\ \A n \in 0..ExpertCount : n # 0 =>
                     h[n] = IF n \in ids THEN Stage(name, u, h[n - 1], <<l, n>>, value[n])
                            ELSE h[n - 1]
               /\ Each(name, u, t, l, ids, value) = h[ExpertCount]
  BY <1>1, EachRounds
<1> DEFINE Good(r) == TiersOK(u, r) /\ SharesOn(u, t.device, r.device)
           P == {n \in Nat : Good(h[n])}
<1>3. 0 \in P
  BY <1>2 DEF SharesOn, SharesKept
<1>4. ASSUME NEW n \in Nat, n < ExpertCount, n \in P PROVE n + 1 \in P
  <2> DEFINE s == h[n]  r == h[n + 1]
  <2>1. n + 1 \in 0..ExpertCount /\ n + 1 # 0 /\ (n + 1) - 1 = n
    BY <1>1, <1>4
  <2>2. r = IF n + 1 \in ids THEN Stage(name, u, s, <<l, n + 1>>, value[n + 1]) ELSE s
    BY <1>2, <2>1, Zenon
  <2>3. Good(s)
    BY <1>4
  <2> HIDE DEF s, r
  <2>4. CASE n + 1 \in ids
    <3> DEFINE k == <<l, n + 1>>
    <3>1. k \in Keys /\ value[n + 1] = Stored(k)
      BY <2>4 DEF Keys
    <3> HIDE DEF k
    <3>2. r = Stage(name, u, s, k, Stored(k))
      BY <2>2, <2>4, <3>1 DEF k
    <3>3. TiersOK(u, r) /\ SharesOn(u, s.device, r.device)
      BY <2>3, <3>1, <3>2, StageOK, Zenon
    <3>4. SharesOn(u, t.device, r.device)
      BY <2>3, <3>3, SharesKeptOn DEF SharesOn
    <3>5. Good(r)
      BY <3>3, <3>4
    <3> QED
      BY <3>5 DEF r
  <2>5. CASE n + 1 \notin ids
    BY <2>2, <2>3, <2>5 DEF r
  <2> QED
    BY <2>4, <2>5
<1>5. ExpertCount \in P
  <2> HIDE DEF P
  <2> QED
    BY <1>1, <1>3, <1>4, UpTo
<1>6. Good(h[ExpertCount])
  BY <1>5
<1> QED
  BY <1>2, <1>6, Zenon

\* What the experts of layer l weigh, as far as they are loaded.
WeightsOK(l, weights) ==
    /\ weights \in [Experts -> Keys \cup {None}]
    /\ \A e \in Experts : weights[e] \in {None, Stored(<<l, e>>)}

LoadingOK(u, l, t, so) ==
    /\ TiersOK(u, so.tiers) /\ SharesOn(u, t.device, so.tiers.device)
    /\ WeightsOK(l, so.weights) /\ so.failed \in BOOLEAN

\* Wherever an expert is found, it is that expert, and after a load that did
\* not fail all experts asked for are there.
LEMMA LoadOK ==
  ASSUME NEW u, u.device \in Policies, NEW l \in Layers, NEW t, NEW so, LoadingOK(u, l, t, so),
         NEW ids \in SUBSET Experts, NEW broken
  PROVE  LET r == Load(u, l, so, ids, broken) IN
         /\ LoadingOK(u, l, t, r)
         /\ ~r.failed => \A e \in Experts :
               r.weights[e] = IF e \in ids THEN Stored(<<l, e>>) ELSE so.weights[e]
<1> DEFINE s == so.tiers
           onDevice == {e \in ids : DeviceHolds(u, s, CacheKey(l, e))}
           sidecar == {e \in ids \ onDevice : PackedHolds(u, s, CacheKey(l, e))}
           rest == ids \ (onDevice \cup sidecar)
           payload == {e \in rest : Holds(s.payloads, CacheKey(l, e))}
           found == [e \in Experts |->
                       CASE e \in onDevice -> s.device.value[CacheKey(l, e)]
                         [] e \in sidecar  -> s.packed[CacheKey(l, e)]
                         [] e \in payload  -> s.payloads.value[CacheKey(l, e)]
                         [] OTHER          -> Stored(CacheKey(l, e))]
           t1 == Each("on device", u, s, l, onDevice, found)
           t2 == Each("in sidecar", u, t1, l, sidecar, found)
           t3 == Each("in payload", u, t2, l, payload, found)
           t4 == Each("was read", u, t3, l, rest \ payload, found)
           t5 == Each("decode", u, t4, l, rest, found)
           r == Load(u, l, so, ids, broken)
           all == [e \in Experts |-> IF e \in ids THEN found[e] ELSE so.weights[e]]
<1>1. TiersOK(u, s) /\ SharesOn(u, t.device, s.device) /\ WeightsOK(l, so.weights)
  BY DEF LoadingOK
<1>2. r = IF broken \in rest \ payload
          THEN [tiers |-> t3, weights |-> so.weights, failed |-> TRUE]
          ELSE [tiers |-> t5, weights |-> all, failed |-> FALSE]
  BY DEF Load
<1>3. ASSUME NEW e \in ids PROVE found[e] = Stored(<<l, e>>)
  <2> DEFINE k == CacheKey(l, e)
  <2>1. k = <<l, e>> /\ k \in Keys /\ e \in Experts
    BY DEF CacheKey, Keys
  <2>2. CASE e \in onDevice
    <3>1. s.device.value[k] = Stored(k)
      BY <1>1, <2>2 DEF DeviceHolds, Holds, TiersOK, DeviceOK, Sound
    <3> QED
      BY <2>1, <2>2, <3>1
  <2>3. CASE e \in sidecar
    <3>1. s.packed[k] = Stored(k)
      BY <1>1, <2>1, <2>3 DEF PackedHolds, TiersOK, PackedOK
    <3> QED
      BY <2>1, <2>3, <3>1
  <2>4. CASE e \in payload
    <3>1. s.payloads.value[k] = Stored(k)
      BY <1>1, <2>4 DEF Holds, TiersOK, Sound
    <3> QED
      BY <2>1, <2>4, <3>1
  <2>5. CASE e \notin onDevice \cup sidecar \cup payload
    BY <2>1, <2>5
  <2> QED
    BY <2>2, <2>3, <2>4, <2>5
<1>4. onDevice \in SUBSET ids /\ sidecar \in SUBSET ids /\ rest \in SUBSET ids
      /\ payload \in SUBSET ids /\ rest \ payload \in SUBSET ids
  OBVIOUS
<1>5. \A e \in Experts : all[e] = IF e \in ids THEN Stored(<<l, e>>) ELSE so.weights[e]
  BY <1>3
<1> HIDE DEF s, onDevice, sidecar, rest, payload, found, all, r
<1>6. ASSUME NEW name \in Stages, NEW some \in SUBSET ids, NEW t0, TiersOK(u, t0),
             SharesOn(u, t.device, t0.device)
      PROVE  LET e == Each(name, u, t0, l, some, found) IN
             TiersOK(u, e) /\ SharesOn(u, t.device, e.device)
  <2> DEFINE e == Each(name, u, t0, l, some, found)
  <2>1. \A x \in some : found[x] = Stored(<<l, x>>)
    BY <1>3
  <2>2. TiersOK(u, e) /\ SharesOn(u, t0.device, e.device)
    BY <1>6, <2>1, EachOK, Zenon
  <2> HIDE DEF e
  <2>3. SharesOn(u, t.device, e.device)
    BY <1>6, <2>2, SharesKeptOn DEF SharesOn
  <2> QED
    BY <2>2, <2>3 DEF e
<1>7. /\ "on device" \in Stages /\ "in sidecar" \in Stages /\ "in payload" \in Stages
      /\ "was read" \in Stages /\ "decode" \in Stages
  BY DEF Stages
<1>8. TiersOK(u, t1) /\ SharesOn(u, t.device, t1.device)
  BY <1>1, <1>4, <1>6, <1>7, Zenon
<1> HIDE DEF t1
<1>9. TiersOK(u, t2) /\ SharesOn(u, t.device, t2.device)
  BY <1>8, <1>4, <1>6, <1>7, Zenon
<1> HIDE DEF t2
<1>10. TiersOK(u, t3) /\ SharesOn(u, t.device, t3.device)
  BY <1>9, <1>4, <1>6, <1>7, Zenon
<1> HIDE DEF t3
<1>11. TiersOK(u, t4) /\ SharesOn(u, t.device, t4.device)
  BY <1>10, <1>4, <1>6, <1>7, Zenon
<1> HIDE DEF t4
<1>12. TiersOK(u, t5) /\ SharesOn(u, t.device, t5.device)
  BY <1>11, <1>4, <1>6, <1>7, Zenon
<1> HIDE DEF t5
<1>13. WeightsOK(l, all)
  <2>1. all = [e \in Experts |-> all[e]]
    BY DEF all
  <2>2. \A e \in Experts : Stored(<<l, e>>) \in Keys
    BY DEF Stored, Keys
  <2>3. \A e \in Experts : all[e] \in Keys \cup {None} /\ all[e] \in {None, Stored(<<l, e>>)}
    BY <1>1, <1>5, <2>2 DEF WeightsOK
  <2> QED
    BY <2>1, <2>3 DEF WeightsOK
<1>14. LoadingOK(u, l, t, r)
  BY <1>1, <1>2, <1>10, <1>12, <1>13 DEF LoadingOK
<1>15. ~r.failed => r.weights = all
  BY <1>2
<1> QED
  BY <1>5, <1>14, <1>15 DEF r

\* Experts that are loaded one by one.
LEMMA LoadRounds ==
  ASSUME NEW u, NEW t, NEW mine, NEW l, NEW ids, NEW broken, ExpertCount \in Nat
  PROVE  \E h : /\ h[0] = [tiers |-> t, weights |-> mine, failed |-> FALSE]
                /\ \A n \in 0..ExpertCount : n # 0 =>
                      h[n] = LoadNext(u, l, h[n - 1], Missing(mine, ids), broken, n)
                /\ LoadExperts(u, t, mine, l, ids, broken) =
                      IF u.batched
                      THEN Load(u, l, [tiers |-> t, weights |-> mine, failed |-> FALSE],
                                Missing(mine, ids), broken)
                      ELSE h[ExpertCount]
<1> DEFINE missing == Missing(mine, ids)
           none == [tiers |-> t, weights |-> mine, failed |-> FALSE]
           Rounds(h, m) == h = [n \in 0..m |-> IF n = 0 THEN none
                                  ELSE LoadNext(u, l, h[n - 1], missing, broken, n)]
           P == {m \in Nat : \E h : Rounds(h, m)}
<1>1. 0 \in P
  <2>1. Rounds([n \in 0..0 |-> none], 0)
    OBVIOUS
  <2> QED
    BY <2>1
<1>2. ASSUME NEW m \in Nat, m \in P PROVE m + 1 \in P
  <2>1. PICK h : Rounds(h, m)
    BY <1>2
  <2> DEFINE g == [n \in 0..(m + 1) |-> IF n <= m THEN h[n]
                                        ELSE LoadNext(u, l, h[m], missing, broken, m + 1)]
  <2>2. \A n \in 0..(m + 1) :
           g[n] = IF n = 0 THEN none ELSE LoadNext(u, l, g[n - 1], missing, broken, n)
    <3> HIDE DEF none, missing
    <3>1. ASSUME NEW n \in 0..m
          PROVE  g[n] = IF n = 0 THEN none ELSE LoadNext(u, l, g[n - 1], missing, broken, n)
      BY <2>1
    <3>2. g[m + 1] = LoadNext(u, l, g[m], missing, broken, m + 1) /\ m + 1 # 0 /\ (m + 1) - 1 = m
      OBVIOUS
    <3> HIDE DEF g
    <3> QED
      BY <3>1, <3>2
  <2>3. Rounds(g, m + 1)
    <3> HIDE DEF none, missing
    <3> QED
      BY <2>2
  <2> HIDE DEF Rounds, g
  <2>4. \E f : Rounds(f, m + 1)
    BY <2>3
  <2> QED
    BY <2>4
<1>3. ExpertCount \in P
  <2> HIDE DEF P
  <2> QED
    BY <1>1, <1>2, UpTo
<1> DEFINE upTo == CHOOSE h : Rounds(h, ExpertCount)
<1>4. Rounds(upTo, ExpertCount)
  BY <1>3
<1>5. LoadExperts(u, t, mine, l, ids, broken) =
         IF u.batched THEN Load(u, l, none, missing, broken) ELSE upTo[ExpertCount]
  BY DEF LoadExperts
<1> HIDE DEF upTo
<1>6. upTo[0] = none
  BY <1>4
<1>7. \A n \in 0..ExpertCount : n # 0 =>
         upTo[n] = LoadNext(u, l, upTo[n - 1], missing, broken, n)
  BY <1>4
<1> QED
  BY <1>5, <1>6, <1>7, Zenon

\* Loading the experts of a layer, as a batch or one by one, leaves the tiers
\* sound, and if no read failed all of them are there.
LEMMA LoadExpertsOK ==
  ASSUME NEW u, u.device \in Policies, NEW l \in Layers, NEW t, TiersOK(u, t),
         NEW mine, WeightsOK(l, mine), NEW ids \in SUBSET Experts, NEW broken
  PROVE  LET r == LoadExperts(u, t, mine, l, ids, broken) IN
         /\ LoadingOK(u, l, t, r)
         /\ ~r.failed => \A e \in ids : r.weights[e] = Stored(<<l, e>>)
<1> DEFINE missing == Missing(mine, ids)
           none == [tiers |-> t, weights |-> mine, failed |-> FALSE]
           r == LoadExperts(u, t, mine, l, ids, broken)
<1>1. ExpertCount \in Nat
  BY ReferenceExpertsAssumption
<1>2. PICK upTo : /\ upTo[0] = none
                  /\ \A n \in 0..ExpertCount : n # 0 =>
                        upTo[n] = LoadNext(u, l, upTo[n - 1], missing, broken, n)
                  /\ r = IF u.batched THEN Load(u, l, none, missing, broken)
                         ELSE upTo[ExpertCount]
  BY <1>1, LoadRounds
<1>4. LoadingOK(u, l, t, none) /\ none.weights = mine /\ none.failed = FALSE
  BY DEF LoadingOK, SharesOn, SharesKept
<1>5. missing \in SUBSET Experts /\ missing \in SUBSET ids
  BY DEF Missing
<1>6. \A e \in ids \ missing : mine[e] = Stored(<<l, e>>)
  BY DEF WeightsOK, Missing
<1> HIDE DEF none, missing, r
<1>7. CASE u.batched
  <2> DEFINE b == Load(u, l, none, missing, broken)
  <2>1. /\ LoadingOK(u, l, t, b)
        /\ ~b.failed => \A e \in Experts :
               b.weights[e] = IF e \in missing THEN Stored(<<l, e>>) ELSE none.weights[e]
    BY <1>4, <1>5, LoadOK
  <2> HIDE DEF b
  <2>2. r = b
    BY <1>2, <1>7 DEF b
  <2>3. ~b.failed => \A e \in ids : b.weights[e] = Stored(<<l, e>>)
    BY <1>4, <1>6, <2>1
  <2> QED
    BY <2>1, <2>2, <2>3 DEF r
<1>8. CASE ~u.batched
  <2> DEFINE Good(s, n) ==
               /\ LoadingOK(u, l, t, s)
               /\ ~s.failed => \A e \in ids :
                     e <= n \/ e \notin missing => s.weights[e] = Stored(<<l, e>>)
             P == {n \in Nat : Good(upTo[n], n)}
  <2>1. upTo[0] = none
    BY <1>2
  <2>2. \A e \in ids : e \in Nat /\ e > 0
    BY ReferenceExpertsAssumption
  <2>3. 0 \in P
    <3>1. Good(none, 0)
      BY <1>4, <1>6, <2>2
    <3> QED
      BY <2>1, <3>1
  <2>4. ASSUME NEW n \in Nat, n < ExpertCount, n \in P PROVE n + 1 \in P
    <3> DEFINE s == upTo[n]  q == upTo[n + 1]
    <3>1. n + 1 \in 0..ExpertCount /\ n + 1 # 0 /\ (n + 1) - 1 = n
      BY <1>1, <2>4
    <3>2. q = IF n + 1 \in missing /\ ~s.failed THEN Load(u, l, s, {n + 1}, broken) ELSE s
      BY <1>2, <3>1, Zenon DEF LoadNext
    <3>3. Good(s, n)
      BY <2>4
    <3> HIDE DEF s, q
    <3>4. CASE n + 1 \in missing /\ ~s.failed
      <4>1. {n + 1} \in SUBSET Experts /\ q = Load(u, l, s, {n + 1}, broken)
        BY <1>5, <3>2, <3>4
      <4>2. /\ LoadingOK(u, l, t, q)
            /\ ~q.failed => \A e \in Experts :
                 q.weights[e] = IF e \in {n + 1} THEN Stored(<<l, e>>) ELSE s.weights[e]
        <5>1. LoadingOK(u, l, t, s)
          BY <3>3
        <5> HIDE DEF Good, P
        <5> DEFINE one == {n + 1}
        <5>2. one \in SUBSET Experts /\ q = Load(u, l, s, one, broken)
          BY <4>1
        <5> HIDE DEF one
        <5>3. LET x == Load(u, l, s, one, broken) IN
              /\ LoadingOK(u, l, t, x)
              /\ ~x.failed => \A e \in Experts :
                    x.weights[e] = IF e \in one THEN Stored(<<l, e>>) ELSE s.weights[e]
          BY <5>1, <5>2, LoadOK
        <5>4. LoadingOK(u, l, t, q)
              /\ (~q.failed => \A e \in Experts :
                    q.weights[e] = IF e \in one THEN Stored(<<l, e>>) ELSE s.weights[e])
          BY <5>2, <5>3
        <5> QED
          BY <5>4 DEF one
      <4>3. Good(q, n + 1)
        BY <2>2, <3>3, <3>4, <4>2
      <4> QED
        BY <4>3 DEF q
    <3>5. CASE ~(n + 1 \in missing /\ ~s.failed)
      <4>1. q = s
        BY <3>2, <3>5
      <4>2. Good(q, n + 1)
        BY <2>2, <3>3, <3>5, <4>1
      <4> QED
        BY <4>2 DEF q
    <3> QED
      BY <3>4, <3>5
  <2>5. ExpertCount \in P
    <3> HIDE DEF P
    <3> QED
      BY <1>1, <2>3, <2>4, UpTo
  <2>6. Good(upTo[ExpertCount], ExpertCount) /\ r = upTo[ExpertCount]
    BY <1>2, <1>8, <2>5
  <2>7. \A e \in ids : e <= ExpertCount
    BY ReferenceExpertsAssumption
  <2> QED
    BY <2>6, <2>7 DEF r
<1> QED
  BY <1>7, <1>8 DEF r

-----------------------------------------------------------------------------
(* The trunk and the layers of a pass                                      *)

\* A layer has the indexer of a layer that is not after it.
LEMMA IndexerIsALayer == \A l \in Layers : IndexerSource(l) \in Layers
<1> TAKE l \in Layers
<1> DEFINE S == {m \in FullIndexers : m <= l}
           R == {p \in Nat \X Nat : p[1] < p[2]}
           D == {l - m : m \in S}
<1>1. 1 \in S /\ S \subseteq Layers /\ Layers = 1..Depth /\ Depth \in Nat
  <2>1. Layers = 1..Depth /\ Depth \in Nat /\ 1 \in FullIndexers /\ FullIndexers \subseteq Layers
    BY ReferenceDecodingAssumption, Zenon
  <2>2. l \in Nat /\ 1 <= l
    BY <2>1
  <2> QED
    BY <2>1, <2>2
<1>2. l \in Nat /\ D \subseteq Nat /\ D # {}
  BY <1>1
<1>3. PICK d \in D : \A e \in D : ~(<<e, d>> \in R)
  <2>1. IsWellFoundedOn(R, Nat)
    BY NatLessThanWellFounded DEF OpToRel
  <2> HIDE DEF R, D
  <2> QED
    BY <1>2, <2>1, WFMin
<1>4. PICK m \in S : d = l - m
  BY <1>3
<1>5. \A x \in S : m >= x
  <2> TAKE x \in S
  <2>1. l - x \in D /\ l - m \in D /\ x \in Nat /\ m \in Nat
    BY <1>1, <1>2
  <2>2. ~(l - x < l - m)
    BY <1>2, <1>3, <1>4, <2>1
  <2> QED
    BY <1>2, <2>1, <2>2
<1>6. Max(S) \in S
  <2> HIDE DEF S
  <2> QED
    BY <1>4, <1>5 DEF Max
<1> QED
  BY <1>1, <1>6 DEF IndexerSource

LEMMA TensorsAreNames ==
  ASSUME NEW l \in Layers
  PROVE  \A i \in 1..3 : TensorNames(l)[i] \in Names
<1>1. IndexerSource(l) \in Layers
  BY IndexerIsALayer
<1>2. <<l, AttentionTensors>> \in Names /\ <<IndexerSource(l), IndexerTensors>> \in Names
      /\ <<l, MlpTensors>> \in Names
  BY <1>1, ReferenceDecodingAssumption
<1> QED
  BY <1>2 DEF TensorNames

\* Whichever of the names are cached, and however many of the others can be
\* read, the trunk cache stays sound, and what is returned is what the
\* artifacts hold under these names.
LEMMA ReadOK ==
  ASSUME Sound(trunk), trunk.bytes <= TrunkCapacity, NEW l \in Layers, NEW n
  PROVE  LET r == ReadTensors(TensorNames(l), n) IN
         /\ Sound(r.cache) /\ r.cache.bytes <= TrunkCapacity
         /\ r.values = ToSet(TensorNames(l))
<1> DEFINE names == TensorNames(l)
           misses == {i \in 1..3 : ~Holds(trunk, names[i])}
           good == {i \in misses : Cardinality({j \in misses : j <= i}) <= n}
           Read(cache, i) == IF i \in good
                             THEN LruPut(cache, names[i], Stored(names[i]), TrunkCapacity)
                             ELSE cache
           Fits(c) == Sound(c) /\ c.bytes <= TrunkCapacity
           g1 == Get(trunk, names[1])
           g2 == Get(g1, names[2])
           g3 == Get(g2, names[3])
           r == ReadTensors(names, n)
<1>1. TrunkCapacity \in Nat /\ \A i \in 1..3 : names[i] \in Names
  BY TensorsAreNames, ReferenceDecodingAssumption
<1>2. DOMAIN names = 1..3
  BY DEF TensorNames
<1>3. r.cache = Read(Read(Read(g3, 1), 2), 3)
      /\ r.values = {IF i \in misses THEN Stored(names[i]) ELSE trunk.value[names[i]] : i \in 1..3}
  BY DEF ReadTensors
<1>4. ASSUME NEW c, Fits(c), NEW i \in 1..3 PROVE Fits(Read(c, i))
  <2> HIDE DEF good, names
  <2>1. CASE i \in good
    BY <1>1, <1>4, <2>1, LruPutSound
  <2>2. CASE i \notin good
    BY <1>4, <2>2
  <2> QED
    BY <2>1, <2>2
<1>5. ASSUME NEW c, Fits(c), NEW k PROVE Fits(Get(c, k))
  BY <1>5, GetSound
<1>6. Fits(g1) /\ Fits(g2) /\ Fits(g3)
  <2> HIDE DEF names, Fits
  <2>1. Fits(trunk)
    BY DEF Fits
  <2>2. Fits(g1)
    BY <1>5, <2>1
  <2>3. Fits(g2)
    BY <1>5, <2>2
  <2>4. Fits(g3)
    BY <1>5, <2>3
  <2> QED
    BY <2>2, <2>3, <2>4
<1>7. Fits(r.cache)
  <2> HIDE DEF Read, Fits, g3, r, names
  <2>1. Fits(Read(g3, 1))
    BY <1>4, <1>6
  <2>2. Fits(Read(Read(g3, 1), 2))
    BY <1>4, <2>1
  <2>3. Fits(Read(Read(Read(g3, 1), 2), 3))
    BY <1>4, <2>2
  <2> QED
    BY <1>3, <2>3
<1>8. \A i \in 1..3 :
         (IF i \in misses THEN Stored(names[i]) ELSE trunk.value[names[i]]) = names[i]
  <2> HIDE DEF names
  <2> QED
    BY DEF Sound, Stored, Holds
<1>9. r.values = ToSet(names)
  <2> HIDE DEF names, misses, r
  <2> QED
    BY <1>2, <1>3, <1>8 DEF ToSet
<1> HIDE DEF names, r
<1> QED
  BY <1>7, <1>9 DEF r, names

-----------------------------------------------------------------------------
(* The caches of every reachable state                                     *)

CachesOK ==
    /\ TiersOK(use, tiers)
    /\ Sound(trunk) /\ trunk.bytes <= TrunkCapacity
    /\ DOMAIN own = Layers /\ \A l \in Layers : WeightsOK(l, own[l])

\* A pass on its way: tokens it has, the layer it is in, a hidden value for
\* each of its tokens.
PassOK(p) ==
    /\ \E s, k, t, l, m, b, h, g, x :
          p = [slot |-> s, tokens |-> k, text |-> t, layer |-> l, more |-> m,
               start |-> b, hidden |-> h, given |-> g, next |-> x]
    /\ p.slot \in Slots /\ p.text \in Seq(Tokens)
    /\ p.tokens \in Seq(Tokens) /\ p.tokens # <<>>
    /\ p.layer \in 1..(Depth + 1)
    /\ p.hidden = [i \in 1..Len(p.tokens) |-> p.hidden[i]]
    /\ \A i \in 1..Len(p.tokens) : p.hidden[i].token = p.tokens[i]

SlotOK ==
    /\ DOMAIN slot = Slots
    /\ \A s \in Slots : /\ slot[s] = [text |-> slot[s].text, state |-> slot[s].state]
                        /\ slot[s].text \in Seq(Tokens)

CacheInv ==
    /\ use \in Uses /\ CachesOK /\ SlotOK
    /\ run # None => PassOK(run)

LEMMA UseOK ==
  ASSUME use \in Uses
  PROVE  use.device \in Policies
BY ReferenceDecodingAssumption

\* The caches a model starts with.
LEMMA EmptyOK ==
  /\ Sound(EmptyCache) /\ EmptyCache.bytes = 0
  /\ \A u : TiersOK(u, EmptyTiers)
<1>1. /\ EmptyCache.value = [k \in {} |-> None] /\ EmptyCache.older = {} /\ EmptyCache.bytes = 0
      /\ EmptyCache.protected = [l \in Layers |-> {}] /\ IsCache(EmptyCache)
  BY DEF EmptyCache, IsCache
<1>2. Kept(EmptyCache) = {}
  BY <1>1 DEF Kept
<1>3. Sound(EmptyCache)
  <2>1. Charged({}) = 0
    BY BytesOf
  <2> QED
    BY <1>1, <1>2, <2>1 DEF Sound, Ordered
<1>4. Balanced(EmptyCache) /\ Unguarded(EmptyCache)
  <2>1. Cardinality({}) = 0 /\ Protected \in Nat
    BY FS_EmptySet, ReferenceExpertsAssumption
  <2> QED
    BY <1>1, <1>2, <2>1 DEF Balanced, Unguarded
<1>5. DeviceCapacity \in Nat /\ PayloadCapacity \in Nat
  BY ReferenceExpertsAssumption
<1>6. /\ EmptyTiers.device = EmptyCache /\ EmptyTiers.payloads = EmptyCache
      /\ EmptyTiers.packed = [k \in Keys |-> None]
      /\ \E d, p, f : EmptyTiers = [device |-> d, payloads |-> p, packed |-> f]
  BY DEF EmptyTiers
<1>7. PackedOK(EmptyTiers.packed)
  BY <1>6 DEF PackedOK
<1>8. \A u : DeviceOK(u, EmptyCache)
  BY <1>1, <1>3, <1>4, <1>5 DEF DeviceOK
<1>9. ASSUME NEW u PROVE TiersOK(u, EmptyTiers)
  <2>1. DeviceOK(u, EmptyTiers.device)
    BY <1>6, <1>8
  <2>2. Sound(EmptyTiers.payloads) /\ EmptyTiers.payloads.bytes <= PayloadCapacity
    BY <1>1, <1>3, <1>5, <1>6
  <2> QED
    BY <1>6, <1>7, <2>1, <2>2, Zenon DEF TiersOK
<1> QED
  BY <1>1, <1>3, <1>9

LEMMA CacheInvInit == Init => CacheInv
<1> SUFFICES ASSUME Init PROVE CacheInv
  OBVIOUS
<1> USE DEF Init
<1>1. use \in Uses /\ run = None
  OBVIOUS
<1>2. CachesOK
  <2>1. TiersOK(use, tiers) /\ Sound(trunk) /\ trunk.bytes <= TrunkCapacity
    BY EmptyOK, ReferenceDecodingAssumption
  <2>2. DOMAIN own = Layers /\ \A l \in Layers : WeightsOK(l, own[l])
    BY DEF NoExperts, WeightsOK
  <2> QED
    BY <2>1, <2>2 DEF CachesOK
<1>3. SlotOK
  <2>1. <<>> \in Seq(Tokens)
    OBVIOUS
  <2> QED
    BY <2>1 DEF SlotOK
<1> QED
  BY <1>1, <1>2, <1>3 DEF CacheInv

\* A pass that begins is well formed.
LEMMA PassBegins ==
  ASSUME NEW s \in Slots, NEW text \in Seq(Tokens), NEW state,
         NEW tokens \in Seq(Tokens), tokens # <<>>, NEW more
  PROVE  PassOK(Pass(s, text, state, tokens, more))
<1> DEFINE p == Pass(s, text, state, tokens, more)
<1>1. p = [slot |-> s, tokens |-> tokens, text |-> text, layer |-> 1, more |-> more,
           start |-> PositionStart(state), hidden |-> [i \in DOMAIN tokens |-> Embedding(tokens[i])],
           given |-> state, next |-> EmptyState]
  BY DEF Pass
<1>2. 1 \in 1..(Depth + 1)
  BY ReferenceDecodingAssumption
<1>3. DOMAIN tokens = 1..Len(tokens)
  OBVIOUS
<1>4. /\ p.slot = s /\ p.text = text /\ p.tokens = tokens /\ p.layer = 1
      /\ p.hidden = [i \in 1..Len(tokens) |-> Embedding(tokens[i])]
  BY <1>1, <1>3
<1>5. \E s_1, k, t, l, m, b, h, g, x :
          p = [slot |-> s_1, tokens |-> k, text |-> t, layer |-> l, more |-> m,
               start |-> b, hidden |-> h, given |-> g, next |-> x]
  BY <1>1
<1> HIDE DEF p
<1>6. /\ p.hidden = [i \in 1..Len(p.tokens) |-> p.hidden[i]]
      /\ \A i \in 1..Len(p.tokens) : p.hidden[i].token = p.tokens[i]
  BY <1>4 DEF Embedding
<1> QED
  BY <1>2, <1>4, <1>5, <1>6 DEF PassOK, p

LEMMA ChunksAreTexts == \A c \in Chunks : c \in Seq(Tokens) /\ c # <<>> /\ Len(c) \in Nat \ {0}
<1> TAKE c \in Chunks
<1>1. PICK n \in 1..MaxChunk : c \in [1..n -> Tokens]
  BY DEF Chunks
<1>2. c \in Seq(Tokens) /\ Len(c) = n /\ n \in Nat /\ n > 0
  BY <1>1
<1> QED
  BY <1>2

\* What the layer object of l makes of token i of the pass: every weight is
\* that of the artifacts.
Made(l, i) ==
    LET new   == ChunkKeys(run.hidden, run.start)
        index == run.given[l].dsa \o new
        at    == run.start + i
    IN  Output(l, run.hidden[i], at,
               Attended(run.given[l].attention \o new, TopKeys(index, run.tokens[i], at), at),
               ToSet(TensorNames(l)), {<<l, e>> : e \in Routed(l, run.tokens[i])})

\* What a layer object does to the caches, and what the pass is after it.
LEMMA LayerOK ==
  ASSUME CacheInv, run # None, run.layer <= Depth, NEW n, NEW broken, Layer(n, broken), use' = use
  PROVE  /\ CachesOK' /\ SharesOn(use, tiers.device, tiers'.device)
         /\ run' # None =>
              LET l == run.layer  new == ChunkKeys(run.hidden, run.start) IN
              run' = [slot |-> run.slot, tokens |-> run.tokens, text |-> run.text,
                      layer |-> l + 1, more |-> run.more, start |-> run.start,
                      hidden |-> [i \in 1..Len(run.tokens) |-> Made(l, i)],
                      given |-> run.given,
                      next |-> [run.next EXCEPT ![l] = [attention |-> run.given[l].attention \o new,
                                                        dsa |-> run.given[l].dsa \o new]]]
<1> DEFINE l == run.layer
           cached == l \in ToSet(kept)
           tensors == ReadTensors(TensorNames(l), n)
           ids == UNION {Routed(l, run.tokens[i]) : i \in DOMAIN run.tokens}
           mine == IF cached THEN own[l] ELSE NoExperts
           loads == LoadExperts(use, tiers, mine, l, ids, broken)
           new == ChunkKeys(run.hidden, run.start)
           keys == run.given[l].attention \o new
           index == run.given[l].dsa \o new
           out(i) == Output(l, run.hidden[i], run.start + i,
                            Attended(keys, TopKeys(index, run.hidden[i].token, run.start + i),
                                     run.start + i),
                            IF cached THEN ToSet(TensorNames(l)) ELSE tensors.values,
                            {loads.weights[e] : e \in Routed(l, run.hidden[i].token)})
           fails == ~cached /\ tensors.failed
           N == Len(run.tokens)
<1>1. IF fails
      THEN run' = None /\ trunk' = tensors.cache /\ tiers' = tiers /\ own' = own
      ELSE /\ trunk' = IF cached THEN trunk ELSE tensors.cache
           /\ own' = [m \in Layers |-> IF m \notin ToSet(kept') THEN NoExperts
                                       ELSE IF m = l /\ use.cacheExperts THEN loads.weights
                                       ELSE own[m]]
           /\ tiers' = loads.tiers
           /\ run' = IF loads.failed THEN None
                     ELSE [run EXCEPT !.layer = l + 1, !.hidden = [i \in DOMAIN @ |-> out(i)],
                                      !.next[l] = [attention |-> keys, dsa |-> index]]
  BY DEF Layer, Compute
<1>2. PassOK(run) /\ CachesOK /\ use.device \in Policies
  BY UseOK DEF CacheInv
<1>3. l \in Layers
  BY <1>2, ReferenceDecodingAssumption DEF PassOK
<1>4. ids \in SUBSET Experts
  <2>1. \A t \in Tokens : Routed(l, t) \subseteq Experts
    BY ReferenceDecodingAssumption DEF Routed
  <2>2. \A i \in DOMAIN run.tokens : run.tokens[i] \in Tokens
    BY <1>2 DEF PassOK
  <2> QED
    BY <2>1, <2>2
<1>5. \A m \in Layers : WeightsOK(m, NoExperts)
  BY DEF WeightsOK, NoExperts
<1>6. WeightsOK(l, mine)
  BY <1>2, <1>3, <1>5 DEF CachesOK
<1>7. /\ LoadingOK(use, l, tiers, loads)
      /\ ~loads.failed => \A e \in ids : loads.weights[e] = <<l, e>>
  <2>1. TiersOK(use, tiers)
    BY <1>2 DEF CachesOK
  <2> HIDE DEF l, mine, ids, loads
  <2>2. LET r == LoadExperts(use, tiers, mine, l, ids, broken) IN
        /\ LoadingOK(use, l, tiers, r)
        /\ ~r.failed => \A e \in ids : r.weights[e] = Stored(<<l, e>>)
    BY <1>2, <1>3, <1>4, <1>6, <2>1, LoadExpertsOK
  <2> QED
    BY <2>2 DEF Stored, loads
<1>8. /\ Sound(tensors.cache) /\ tensors.cache.bytes <= TrunkCapacity
      /\ tensors.values = ToSet(TensorNames(l))
  BY <1>2, <1>3, ReadOK DEF CachesOK
<1>9. SharesOn(use, tiers.device, tiers.device)
  BY DEF SharesOn, SharesKept
<1> HIDE DEF l, cached, tensors, ids, mine, loads, new, keys, index
<1>10. CachesOK'
  <2>1. TiersOK(use', tiers')
    BY <1>1, <1>2, <1>7 DEF CachesOK, LoadingOK
  <2>2. Sound(trunk') /\ trunk'.bytes <= TrunkCapacity
    BY <1>1, <1>2, <1>8 DEF CachesOK
  <2>3. DOMAIN own' = Layers /\ \A m \in Layers : WeightsOK(m, own'[m])
    BY <1>1, <1>2, <1>5, <1>7 DEF CachesOK, LoadingOK
  <2> QED
    BY <2>1, <2>2, <2>3 DEF CachesOK
<1>11. SharesOn(use, tiers.device, tiers'.device)
  BY <1>1, <1>7, <1>9 DEF LoadingOK
<1>12. ASSUME run' # None
       PROVE  run' = [slot |-> run.slot, tokens |-> run.tokens, text |-> run.text,
                      layer |-> l + 1, more |-> run.more, start |-> run.start,
                      hidden |-> [i \in 1..N |-> Made(l, i)], given |-> run.given,
                      next |-> [run.next EXCEPT ![l] = [attention |-> keys, dsa |-> index]]]
  <2>1. /\ ~fails /\ ~loads.failed
        /\ run' = [run EXCEPT !.layer = l + 1, !.hidden = [i \in DOMAIN @ |-> out(i)],
                              !.next[l] = [attention |-> keys, dsa |-> index]]
    <3> HIDE DEF fails, out
    <3> QED
      BY <1>1, <1>12
  <2>2. DOMAIN run.hidden = 1..N
    BY <1>2 DEF PassOK
  <2>3. ASSUME NEW i \in 1..N PROVE out(i) = Made(l, i)
    <3>1. run.hidden[i].token = run.tokens[i] /\ i \in DOMAIN run.tokens
      BY <1>2 DEF PassOK
    <3>2. {loads.weights[e] : e \in Routed(l, run.tokens[i])} =
          {<<l, e>> : e \in Routed(l, run.tokens[i])}
      BY <1>7, <2>1, <3>1 DEF ids
    <3>3. (IF cached THEN ToSet(TensorNames(l)) ELSE tensors.values) = ToSet(TensorNames(l))
      BY <1>8
    <3> QED
      BY <3>1, <3>2, <3>3 DEF Made, keys, index, new
  <2> HIDE DEF out, N
  <2>4. [i \in DOMAIN run.hidden |-> out(i)] = [i \in 1..N |-> Made(l, i)]
    BY <2>2, <2>3
  <2>5. run' = [run EXCEPT !.layer = l + 1, !.hidden = [i \in 1..N |-> Made(l, i)],
                           !.next[l] = [attention |-> keys, dsa |-> index]]
    BY <2>1, <2>4
  <2>6. PICK s, k, t, m, d, b, h, g, x :
             run = [slot |-> s, tokens |-> k, text |-> t, layer |-> d, more |-> m,
                    start |-> b, hidden |-> h, given |-> g, next |-> x]
    BY <1>2 DEF PassOK
  <2> QED
    BY <2>5, <2>6
<1> QED
  BY <1>10, <1>11, <1>12 DEF l, keys, index, new, N

\* A pass that goes on to the next layer is well formed.
LEMMA PassGoesOn ==
  ASSUME CacheInv, run # None, run.layer <= Depth, NEW n, NEW broken, Layer(n, broken), use' = use,
         run' # None
  PROVE  PassOK(run')
<1> DEFINE l == run.layer  N == Len(run.tokens)
           next == [run.next EXCEPT ![l] =
                      [attention |-> run.given[l].attention \o ChunkKeys(run.hidden, run.start),
                       dsa |-> run.given[l].dsa \o ChunkKeys(run.hidden, run.start)]]
<1>1. run' = [slot |-> run.slot, tokens |-> run.tokens, text |-> run.text,
              layer |-> l + 1, more |-> run.more, start |-> run.start,
              hidden |-> [i \in 1..N |-> Made(l, i)], given |-> run.given, next |-> next]
  BY LayerOK
<1>2. PassOK(run)
  BY DEF CacheInv
<1>3. \A i \in 1..N : Made(l, i).token = run.tokens[i]
  BY <1>2 DEF Made, Output, PassOK
<1>4. l + 1 \in 1..(Depth + 1)
  BY <1>2, ReferenceDecodingAssumption DEF PassOK
<1> HIDE DEF l, next
<1>5. \E s, k, t, d, m, b, h, g, x :
          run' = [slot |-> s, tokens |-> k, text |-> t, layer |-> d, more |-> m,
                  start |-> b, hidden |-> h, given |-> g, next |-> x]
  BY <1>1
<1>6. /\ run'.slot = run.slot /\ run'.text = run.text /\ run'.tokens = run.tokens
      /\ run'.layer = l + 1 /\ run'.hidden = [i \in 1..N |-> Made(l, i)]
  BY <1>1
<1>7. /\ run'.hidden = [i \in 1..Len(run'.tokens) |-> run'.hidden[i]]
      /\ \A i \in 1..Len(run'.tokens) : run'.hidden[i].token = run'.tokens[i]
  <2> HIDE DEF Made
  <2> QED
    BY <1>3, <1>6
<1> QED
  BY <1>2, <1>4, <1>5, <1>6, <1>7 DEF PassOK

\* What the model puts into the slots and passes of its caller is well formed.
LEMMA CacheInvNext == CacheInv /\ [Next]_vars => CacheInv'
<1> SUFFICES ASSUME CacheInv, [Next]_vars PROVE CacheInv'
  OBVIOUS
<1> USE DEF CacheInv
<1>1. ASSUME NEW s \in Slots, Forward(s) PROVE CacheInv'
  <2>1. UNCHANGED <<use, tiers, trunk, own, slot>>
    BY <1>1 DEF Forward
  <2>2. PICK tokens \in Chunks : run' = Pass(s, slot[s].text, slot[s].state, tokens, 0)
    BY <1>1 DEF Forward
  <2>3. PassOK(run')
    BY <2>2, ChunksAreTexts, PassBegins DEF SlotOK
  <2> QED
    BY <2>1, <2>3 DEF CachesOK, SlotOK
<1>2. ASSUME NEW s \in Slots, Generate(s) PROVE CacheInv'
  <2>1. UNCHANGED <<use, tiers, trunk, own, slot>>
    BY <1>2 DEF Generate
  <2>2. PICK prompt \in Chunks : run' = Pass(s, <<>>, EmptyState, prompt, MaxText - Len(prompt))
    BY <1>2 DEF Generate
  <2>3. <<>> \in Seq(Tokens)
    OBVIOUS
  <2>4. PassOK(run')
    BY <2>2, <2>3, ChunksAreTexts, PassBegins
  <2> QED
    BY <2>1, <2>4 DEF CachesOK, SlotOK
<1>3. ASSUME NEW s \in Slots, NEW t \in Slots \ {s}, Branch(s, t) PROVE CacheInv'
  <2>1. UNCHANGED <<use, tiers, trunk, own, run>> /\ slot' = [slot EXCEPT ![t] = slot[s]]
    BY <1>3 DEF Branch
  <2>2. SlotOK'
    BY <2>1 DEF SlotOK
  <2> QED
    BY <2>1, <2>2 DEF CachesOK
<1>4. ASSUME RunLayer PROVE CacheInv'
  <2>1. run # None /\ run.layer <= Depth /\ Layer(3, None) /\ use' = use /\ slot' = slot
    BY <1>4 DEF RunLayer
  <2>2. CachesOK' /\ (run' # None => PassOK(run'))
    BY <2>1, LayerOK, PassGoesOn
  <2> QED
    BY <2>1, <2>2 DEF SlotOK
<1>5. ASSUME ReadFails PROVE CacheInv'
  <2>1. run # None /\ run.layer <= Depth /\ use' = use /\ slot' = slot /\ run' = None
    BY <1>5 DEF ReadFails
  <2>2. PICK n, broken : Layer(n, broken)
    BY <1>5 DEF ReadFails
  <2>3. CachesOK'
    BY <2>1, <2>2, LayerOK
  <2> QED
    BY <2>1, <2>3 DEF SlotOK
<1>6. ASSUME Finish PROVE CacheInv'
  <2> DEFINE text == run.text \o run.tokens
             last == <<Argmax[Last(run.hidden).token]>>
  <2>1. /\ run # None /\ UNCHANGED <<use, tiers, trunk, own>>
        /\ slot' = [slot EXCEPT ![run.slot] = [text |-> text, state |-> run.next]]
        /\ run' = IF run.more = 0 THEN None
                  ELSE Pass(run.slot, text, run.next, last, run.more - 1)
    BY <1>6 DEF Finish
  <2>2. PassOK(run) /\ text \in Seq(Tokens) /\ run.slot \in Slots
    BY <2>1 DEF PassOK
  <2>3. SlotOK'
    <3> HIDE DEF text
    <3> QED
      BY <2>1, <2>2 DEF SlotOK
  <2>4. last \in Seq(Tokens) /\ last # <<>>
    <3>1. Len(run.tokens) \in Nat \ {0} /\ \A i \in 1..Len(run.tokens) : run.tokens[i] \in Tokens
      BY <2>2 DEF PassOK
    <3>2. Len(run.hidden) = Len(run.tokens)
      <4> DEFINE N == Len(run.tokens)  h == run.hidden  S == {h[i] : i \in 1..N}
      <4>1. h = [i \in 1..N |-> h[i]]
        BY <2>2 DEF PassOK
      <4> HIDE DEF h, N
      <4>2. h \in [1..N -> S] /\ N \in Nat
        BY <3>1, <4>1 DEF N
      <4> HIDE DEF S
      <4>3. h \in Seq(S) /\ Len(h) = N
        BY <4>2
      <4> QED
        BY <4>3 DEF h, N
    <3>3. Last(run.hidden).token \in Tokens
      BY <2>2, <3>1, <3>2 DEF Last, PassOK
    <3>4. Argmax[Last(run.hidden).token] \in Tokens
      BY <3>3, ReferenceDecodingAssumption
    <3> QED
      BY <3>4
  <2>5. run' # None => PassOK(run')
    <3> HIDE DEF text, last
    <3> QED
      BY <2>1, <2>2, <2>4, PassBegins
  <2> QED
    BY <2>1, <2>3, <2>5 DEF CachesOK
<1>7. ASSUME UNCHANGED vars PROVE CacheInv'
  BY <1>7 DEF vars, CachesOK, SlotOK
<1> QED
  BY <1>1, <1>2, <1>3, <1>4, <1>5, <1>6, <1>7 DEF Next

LEMMA CacheInvAlways == Spec => []CacheInv
  BY CacheInvInit, CacheInvNext, PTL DEF Spec

\* The caches of every reachable state are exact: each counts the bytes of its
\* entries, stays within its capacity and ranks them by their use, however the
\* entries came and went, and what a layer protects is on the device.
THEOREM CachesAreExactCorrect == Spec => []CachesAreExact
<1>1. CacheInv => CachesAreExact
  <2> SUFFICES ASSUME CacheInv PROVE CachesAreExact
    OBVIOUS
  <2>1. DeviceOK(use, tiers.device) /\ Sound(tiers.payloads) /\ Sound(trunk)
        /\ tiers.payloads.bytes <= PayloadCapacity /\ trunk.bytes <= TrunkCapacity
    BY DEF CacheInv, CachesOK, TiersOK
  <2>2. \A c, capacity : Sound(c) /\ c.bytes <= capacity => IsExact(c, capacity)
    BY DEF Sound, Ordered, IsExact
  <2> QED
    BY <2>1, <2>2 DEF CachesAreExact, DeviceOK, Balanced
<1> QED
  BY <1>1, CacheInvAlways, PTL

\* Under layer_balanced no step takes a protected expert from a layer, or takes
\* a layer below its share.
THEOREM SharesAreKeptCorrect == Spec => SharesAreKept
<1> DEFINE Keeps == use.device = "layer_balanced" => \A l \in Layers :
             /\ tiers.device.protected[l] \subseteq tiers'.device.protected[l]
             /\ Cardinality(OfLayer(tiers.device, l)) >= Protected =>
                   Cardinality(OfLayer(tiers'.device, l)) >= Protected
<1>1. CacheInv /\ [Next]_vars => [Keeps]_vars
  <2> SUFFICES ASSUME CacheInv, [Next]_vars PROVE SharesOn(use, tiers.device, tiers'.device)
    BY DEF SharesOn, SharesKept
  <2>1. SharesOn(use, tiers.device, tiers.device)
    BY DEF SharesOn, SharesKept
  <2>2. ASSUME RunLayer \/ ReadFails PROVE SharesOn(use, tiers.device, tiers'.device)
    <3>1. run # None /\ run.layer <= Depth /\ use' = use
      BY <2>2 DEF RunLayer, ReadFails
    <3>2. PICK n, broken : Layer(n, broken)
      BY <2>2 DEF RunLayer, ReadFails
    <3> QED
      BY <3>1, <3>2, LayerOK
  <2>3. ASSUME ~(RunLayer \/ ReadFails) PROVE tiers' = tiers
    BY <2>3 DEF Next, Forward, Generate, Branch, Finish, vars
  <2> QED
    BY <2>1, <2>2, <2>3
<1> QED
  BY <1>1, CacheInvAlways, PTL DEF Spec, SharesAreKept

-----------------------------------------------------------------------------
(* A text computed at once                                                 *)

\* The layers of a text, one over the other.
LEMMA WholeRounds ==
  ASSUME NEW text, Depth \in Nat
  PROVE  Whole(text) = [l \in 0..Depth |-> IF l = 0 THEN [i \in DOMAIN text |-> Embedding(text[i])]
                                           ELSE Above(text, l, Whole(text)[l - 1])]
<1> DEFINE first == [i \in DOMAIN text |-> Embedding(text[i])]
           Rounds(h, m) == h = [l \in 0..m |-> IF l = 0 THEN first ELSE Above(text, l, h[l - 1])]
           P == {m \in Nat : \E h : Rounds(h, m)}
<1>1. 0 \in P
  <2> HIDE DEF first
  <2>1. Rounds([l \in 0..0 |-> first], 0)
    OBVIOUS
  <2> QED
    BY <2>1
<1>2. ASSUME NEW m \in Nat, m \in P PROVE m + 1 \in P
  <2>1. PICK h : Rounds(h, m)
    BY <1>2
  <2> DEFINE g == [l \in 0..(m + 1) |-> IF l <= m THEN h[l] ELSE Above(text, m + 1, h[m])]
  <2>2. \A l \in 0..(m + 1) : g[l] = IF l = 0 THEN first ELSE Above(text, l, g[l - 1])
    <3> HIDE DEF first
    <3>1. ASSUME NEW l \in 0..m
          PROVE  g[l] = IF l = 0 THEN first ELSE Above(text, l, g[l - 1])
      BY <2>1
    <3>2. g[m + 1] = Above(text, m + 1, g[m]) /\ m + 1 # 0 /\ (m + 1) - 1 = m
      OBVIOUS
    <3> HIDE DEF g
    <3> QED
      BY <3>1, <3>2
  <2>3. Rounds(g, m + 1)
    <3> HIDE DEF first
    <3> QED
      BY <2>2
  <2> HIDE DEF Rounds, g
  <2>4. \E f : Rounds(f, m + 1)
    BY <2>3
  <2> QED
    BY <2>4
<1>3. Depth \in P
  <2> HIDE DEF P
  <2> QED
    BY <1>1, <1>2, UpTo
<1> DEFINE value == CHOOSE h : Rounds(h, Depth)
<1>4. Rounds(value, Depth)
  BY <1>3
<1>5. Whole(text) = value
  BY DEF Whole
<1> HIDE DEF value, first
<1> QED
  BY <1>4, <1>5 DEF first

LEMMA WholeLayers ==
  ASSUME NEW text
  PROVE  /\ Whole(text)[0] = [i \in DOMAIN text |-> Embedding(text[i])]
         /\ \A n \in Nat : n < Depth => Whole(text)[n + 1] = Above(text, n + 1, Whole(text)[n])
<1> DEFINE W == Whole(text)
<1>1. Depth \in Nat
  BY ReferenceDecodingAssumption
<1>2. W = [l \in 0..Depth |-> IF l = 0 THEN [i \in DOMAIN text |-> Embedding(text[i])]
                              ELSE Above(text, l, W[l - 1])]
  BY <1>1, WholeRounds
<1> HIDE DEF W
<1>3. ASSUME NEW n \in Nat, n < Depth PROVE W[n + 1] = Above(text, n + 1, W[n])
  <2>1. n + 1 \in 0..Depth /\ n + 1 # 0 /\ (n + 1) - 1 = n
    BY <1>1, <1>3
  <2>2. W[n + 1] = IF n + 1 = 0 THEN [i \in DOMAIN text |-> Embedding(text[i])]
                   ELSE Above(text, n + 1, W[(n + 1) - 1])
    BY <1>2, <2>1
  <2> QED
    BY <2>1, <2>2
<1>4. W[0] = [i \in DOMAIN text |-> Embedding(text[i])]
  BY <1>1, <1>2
<1> QED
  BY <1>3, <1>4 DEF W

\* Each layer has a value for each token, and knows which token it is.
LEMMA WholeTokens ==
  ASSUME NEW text \in Seq(Tokens)
  PROVE  \A l \in 0..Depth :
            /\ Whole(text)[l] = [i \in 1..Len(text) |-> Whole(text)[l][i]]
            /\ \A i \in 1..Len(text) : Whole(text)[l][i].token = text[i]
<1> DEFINE W == Whole(text)
           Good(v) == /\ v = [i \in 1..Len(text) |-> v[i]]
                      /\ \A i \in 1..Len(text) : v[i].token = text[i]
           P == {l \in Nat : Good(W[l])}
<1>1. Depth \in Nat /\ DOMAIN text = 1..Len(text)
  BY ReferenceDecodingAssumption
<1>2. 0 \in P
  <2>1. W[0] = [i \in 1..Len(text) |-> Embedding(text[i])]
    BY <1>1, WholeLayers
  <2> HIDE DEF W
  <2>2. Good(W[0])
    BY <2>1 DEF Embedding
  <2> QED
    BY <2>2
<1>3. ASSUME NEW n \in Nat, n < Depth, n \in P PROVE n + 1 \in P
  <2>1. W[n + 1] = Above(text, n + 1, W[n])
    BY <1>3, WholeLayers
  <2> HIDE DEF W
  <2>2. Good(W[n])
    BY <1>3
  <2> DEFINE v == W[n + 1]  under == W[n]
  <2>3. v = Above(text, n + 1, under)
    BY <2>1
  <2> HIDE DEF v, under
  <2>4. DOMAIN v = 1..Len(text) /\ v = [i \in 1..Len(text) |-> v[i]]
    BY <1>1, <2>3 DEF Above
  <2>5. \A i \in 1..Len(text) : v[i].token = under[i].token
    BY <1>1, <2>3 DEF Above, Output
  <2>6. \A i \in 1..Len(text) : v[i].token = text[i]
    BY <2>2, <2>5 DEF under
  <2> QED
    BY <2>4, <2>6 DEF v
<1>4. Depth \in Nat /\ \A l \in 0..Depth : l \in P
  <2> HIDE DEF P
  <2> QED
    BY <1>1, <1>2, <1>3, UpTo
<1> QED
  BY <1>4

\* What a token attends to does not depend on the tokens after it.
LEMMA TopEarlierSame ==
  ASSUME NEW s, NEW t, NEW i \in Nat \ {0}, \A j \in 1..i : s[j] = t[j]
  PROVE  TopEarlier(s, i) = TopEarlier(t, i) /\ TopEarlier(t, i) \subseteq 1..i
<1> DEFINE Ahead(x, j, k) == LET a == Score[x[i]][x[j]]  b == Score[x[i]][x[k]]
                             IN  a > b \/ (a = b /\ j < k)
           Before(x, j) == {k \in 1..i : Ahead(x, k, j)}
<1>1. \A x : TopEarlier(x, i) = {j \in 1..i : Cardinality(Before(x, j)) < IndexTopK}
  BY DEF TopEarlier
<1>2. \A j \in 1..i : Before(s, j) = Before(t, j)
  OBVIOUS
<1> HIDE DEF Before
<1> QED
  BY <1>1, <1>2

\* The values of a text are those of every longer text that begins with it.
LEMMA WholePrefix ==
  ASSUME NEW t \in Seq(Tokens), NEW x \in Seq(Tokens)
  PROVE  \A l \in 0..Depth : \A i \in 1..Len(t) : Whole(t \o x)[l][i] = Whole(t)[l][i]
<1> DEFINE s == t \o x
           n == Len(t)
           V == Whole(s)
           U == Whole(t)
           P == {l \in Nat : \A i \in 1..n : V[l][i] = U[l][i]}
<1>1. /\ Depth \in Nat /\ n \in Nat /\ DOMAIN t = 1..n /\ 1..n \subseteq DOMAIN s
      /\ \A i \in 1..n : s[i] = t[i]
  BY ReferenceDecodingAssumption
<1> HIDE DEF s, n
<1>2. 0 \in P
  <2>1. V[0] = [i \in DOMAIN s |-> Embedding(s[i])] /\ U[0] = [i \in DOMAIN t |-> Embedding(t[i])]
    BY WholeLayers
  <2> HIDE DEF V, U
  <2>2. \A i \in 1..n : V[0][i] = U[0][i]
    <3> TAKE i \in 1..n
    <3>1. i \in DOMAIN s /\ i \in DOMAIN t /\ s[i] = t[i]
      BY <1>1
    <3> QED
      BY <2>1, <3>1
  <2> QED
    BY <2>2
<1>3. ASSUME NEW m \in Nat, m < Depth, m \in P PROVE m + 1 \in P
  <2>1. V[m + 1] = Above(s, m + 1, V[m]) /\ U[m + 1] = Above(t, m + 1, U[m])
    BY <1>3, WholeLayers
  <2>2. \A i \in 1..n : V[m][i] = U[m][i]
    BY <1>3
  <2> DEFINE v == V[m]  u == U[m]
  <2> HIDE DEF v, u
  <2>3. ASSUME NEW i \in 1..n PROVE Above(s, m + 1, v)[i] = Above(t, m + 1, u)[i]
    <3>1. TopEarlier(s, i) = TopEarlier(t, i) /\ TopEarlier(t, i) \subseteq 1..i
      <4>1. i \in Nat \ {0} /\ \A j \in 1..i : s[j] = t[j]
        BY <1>1
      <4> QED
        BY <4>1, TopEarlierSame
    <3>2. v[i] = u[i] /\ \A j \in TopEarlier(t, i) : v[j] = u[j]
      BY <1>1, <2>2, <3>1 DEF v, u
    <3>3. {[of |-> v[j], at |-> j] : j \in TopEarlier(s, i)} =
          {[of |-> u[j], at |-> j] : j \in TopEarlier(t, i)}
      BY <3>1, <3>2
    <3>4. s[i] = t[i] /\ i \in DOMAIN s /\ i \in DOMAIN t
      BY <1>1
    <3> QED
      BY <3>2, <3>3, <3>4 DEF Above
  <2>4. \A i \in 1..n : V[m + 1][i] = U[m + 1][i]
    BY <2>1, <2>3 DEF v, u
  <2> QED
    BY <2>4
<1>4. \A l \in 0..Depth : l \in P
  <2> HIDE DEF P
  <2> QED
    BY <1>1, <1>2, <1>3, UpTo
<1> QED
  BY <1>4 DEF s, n

\* v has n values, and what of v comes after the first n, and what the token at
\* a position attends to.
Values(v, n) == v = [i \in 1..n |-> v[i]]

After(v, n, m) == [i \in 1..m |-> v[n + i]]

Seen(v, text, at) == {[of |-> v[j], at |-> j] : j \in TopEarlier(text, at)}

\* Either form of attention, over the keys of a whole text, sees what the token
\* may see: keys behind it are neither chosen before it nor let through.
LEMMA AttendedKeys ==
  ASSUME NEW text \in Seq(Tokens), NEW v, Values(v, Len(text)),
         \A i \in 1..Len(text) : v[i].token = text[i], NEW at \in 1..Len(text)
  PROVE  Attended(ChunkKeys(v, 0), TopKeys(ChunkKeys(v, 0), text[at], at), at) =
            Seen(v, text, at)
<1> DEFINE N == Len(text)
           keys == ChunkKeys(v, 0)
           token == text[at]
           value(i) == IF keys[i].at > at THEN 0 ELSE 1 + Score[token][keys[i].of.token]
           ahead(i, j) == value(i) > value(j) \/ (value(i) = value(j) /\ i < j)
           Ahead(j, k) == LET a == Score[token][text[j]]  b == Score[token][text[k]]
                          IN  a > b \/ (a = b /\ j < k)
           chosen == TopKeys(keys, token, at)
           top == TopEarlier(text, at)
<1>1. N \in Nat /\ \A i \in 1..N : i \in Nat /\ text[i] \in Tokens
  OBVIOUS
<1>2. DOMAIN keys = 1..N /\ \A i \in 1..N : keys[i] = [of |-> v[i], at |-> i]
  <2>1. DOMAIN v = 1..N
    BY DEF Values
  <2> HIDE DEF N
  <2> QED
    BY <1>1, <2>1 DEF ChunkKeys
<1>3. \A i \in 1..N : Score[token][text[i]] \in Nat
  BY <1>1, ReferenceDecodingAssumption
<1> HIDE DEF keys, N, token
<1>4. \A i \in 1..N : keys[i].at = i /\ keys[i].of.token = text[i]
  BY <1>2 DEF N
<1>5. at \in 1..N /\ at \in Nat /\ 1..at \subseteq 1..N
  BY <1>1 DEF N
<1>6. \A j \in 1..at : value(j) = 1 + Score[token][text[j]]
  BY <1>1, <1>4, <1>5
<1>7. \A k \in 1..N : k \notin 1..at => value(k) = 0
  BY <1>1, <1>4, <1>5
<1>8. ASSUME NEW j \in 1..at
      PROVE  {k \in 1..N : ahead(k, j)} = {k \in 1..at : Ahead(k, j)}
  <2>1. ASSUME NEW k \in 1..at PROVE ahead(k, j) <=> Ahead(k, j)
    <3>1. value(k) = 1 + Score[token][text[k]] /\ value(j) = 1 + Score[token][text[j]]
      BY <1>6
    <3>2. Score[token][text[k]] \in Nat /\ Score[token][text[j]] \in Nat
      BY <1>3, <1>5
    <3> DEFINE x == Score[token][text[k]]  y == Score[token][text[j]]
    <3>3. value(k) = 1 + x /\ value(j) = 1 + y /\ x \in Nat /\ y \in Nat
      BY <3>1, <3>2
    <3>4. Ahead(k, j) <=> x > y \/ (x = y /\ k < j)
      OBVIOUS
    <3>5. ahead(k, j) <=> value(k) > value(j) \/ (value(k) = value(j) /\ k < j)
      OBVIOUS
    <3> HIDE DEF value, ahead, Ahead, x, y
    <3>6. (value(k) > value(j) <=> x > y) /\ (value(k) = value(j) <=> x = y)
      BY <3>3
    <3> QED
      BY <3>4, <3>5, <3>6
  <2>2. ASSUME NEW k \in 1..N, k \notin 1..at PROVE ~ahead(k, j)
    <3>1. value(k) = 0 /\ value(j) = 1 + Score[token][text[j]]
      BY <1>6, <1>7, <2>2
    <3>2. Score[token][text[j]] \in Nat
      BY <1>3, <1>5
    <3> HIDE DEF value
    <3> QED
      BY <3>1, <3>2
  <2> HIDE DEF ahead, Ahead
  <2> QED
    BY <1>5, <2>1, <2>2
<1>9. /\ chosen = {i \in 1..N : Cardinality({j \in 1..N : ahead(j, i)}) < IndexTopK}
      /\ top = {j \in 1..at : Cardinality({k \in 1..at : Ahead(k, j)}) < IndexTopK}
  <2>1. chosen = {i \in DOMAIN keys : Cardinality({j \in DOMAIN keys : ahead(j, i)}) < IndexTopK}
    BY DEF TopKeys
  <2>2. top = {j \in 1..at : Cardinality({k \in 1..at : Ahead(k, j)}) < IndexTopK}
    BY DEF TopEarlier, token
  <2> HIDE DEF ahead, Ahead, chosen, top
  <2> QED
    BY <1>2, <2>1, <2>2
<1>10. top = {j \in chosen : j <= at} /\ chosen \subseteq 1..N
  <2>1. \A j \in 1..at : j \in chosen <=> j \in top
    <3> HIDE DEF ahead, Ahead, chosen, top
    <3> QED
      BY <1>5, <1>8, <1>9
  <2> HIDE DEF ahead, Ahead, chosen, top
  <2>2. chosen \subseteq 1..N /\ top \subseteq 1..at
    BY <1>9
  <2>3. \A j \in 1..N : j <= at <=> j \in 1..at
    BY <1>1, <1>5
  <2> QED
    BY <2>1, <2>2, <2>3
<1> HIDE DEF chosen, top, ahead, Ahead, value
<1>11. {keys[i] : i \in {j \in chosen : keys[j].at <= at}} = {[of |-> v[j], at |-> j] : j \in top}
  <2>1. {j \in chosen : keys[j].at <= at} = top
    BY <1>4, <1>10
  <2>2. \A j \in top : keys[j] = [of |-> v[j], at |-> j]
    BY <1>2, <1>10
  <2> DEFINE key(j) == [of |-> v[j], at |-> j]
  <2>3. \A j \in top : keys[j] = key(j)
    BY <2>2
  <2> HIDE DEF key
  <2>4. {keys[j] : j \in top} = {key(j) : j \in top}
    BY <2>3
  <2>5. {keys[i] : i \in {j \in chosen : keys[j].at <= at}} = {key(j) : j \in top}
    BY <2>1, <2>4
  <2> QED
    BY <2>5 DEF key
<1>12. {k \in ToSet(keys) : k.at <= at /\ \E i \in chosen : keys[i] = k} =
       {keys[i] : i \in {j \in chosen : keys[j].at <= at}}
  BY <1>2, <1>10 DEF ToSet
<1>13. Attended(keys, chosen, at) = {[of |-> v[j], at |-> j] : j \in top}
  BY <1>11, <1>12 DEF Attended, Gathered, Masked
<1> QED
  BY <1>13 DEF keys, chosen, top, token, Seen

\* The keys of a text and those of the tokens that follow are the keys of both.
LEMMA JoinedKeys ==
  ASSUME NEW n \in Nat, NEW m \in Nat, NEW u, Values(u, n),
         NEW v, Values(v, n + m), \A i \in 1..n : u[i] = v[i]
  PROVE  /\ ChunkKeys(u, 0) \o ChunkKeys(After(v, n, m), n) = ChunkKeys(v, 0)
         /\ Len(ChunkKeys(u, 0)) = n
<1> DEFINE a == ChunkKeys(u, 0)
           b == ChunkKeys(After(v, n, m), n)
           c == ChunkKeys(v, 0)
           S == {[of |-> v[i], at |-> i] : i \in 1..(n + m)}
<1>1. DOMAIN u = 1..n /\ DOMAIN v = 1..(n + m)
  BY DEF Values
<1>2. a = [i \in 1..n |-> [of |-> v[i], at |-> i]]
  <2>1. \A i \in 1..n : [of |-> u[i], at |-> 0 + i] = [of |-> v[i], at |-> i]
    OBVIOUS
  <2>2. a = [i \in 1..n |-> [of |-> u[i], at |-> 0 + i]]
    BY <1>1 DEF ChunkKeys
  <2> QED
    BY <2>1, <2>2
<1>3. b = [i \in 1..m |-> [of |-> v[n + i], at |-> n + i]]
  BY DEF ChunkKeys, After
<1>4. c = [i \in 1..(n + m) |-> [of |-> v[i], at |-> i]]
  BY <1>1 DEF ChunkKeys
<1> HIDE DEF a, b, c
<1>5. a \in Seq(S) /\ Len(a) = n
  <2>1. \A i \in 1..n : [of |-> v[i], at |-> i] \in S
    OBVIOUS
  <2> HIDE DEF S
  <2>2. a \in [1..n -> S]
    BY <1>2, <2>1
  <2> QED
    BY <2>2
<1>6. b \in Seq(S) /\ Len(b) = m
  <2>1. \A i \in 1..m : [of |-> v[n + i], at |-> n + i] \in S
    OBVIOUS
  <2> HIDE DEF S
  <2>2. b \in [1..m -> S]
    BY <1>3, <2>1
  <2> QED
    BY <2>2
<1>7. a \o b = c
  <2> HIDE DEF S
  <2>1. a \o b = [i \in 1..(n + m) |-> IF i <= n THEN a[i] ELSE b[i - n]]
    <3> DEFINE ab == a \o b
    <3>1. /\ ab \in Seq(S) /\ Len(ab) = n + m
          /\ \A i \in 1..(n + m) : ab[i] = IF i <= n THEN a[i] ELSE b[i - n]
      BY <1>5, <1>6, ConcatProperties
    <3> HIDE DEF ab
    <3>2. ab = [i \in 1..(n + m) |-> ab[i]]
      BY <3>1
    <3> QED
      BY <3>1, <3>2 DEF ab
  <2>2. \A i \in 1..(n + m) : (IF i <= n THEN a[i] ELSE b[i - n]) = [of |-> v[i], at |-> i]
    <3> TAKE i \in 1..(n + m)
    <3>1. CASE i <= n
      BY <1>2, <3>1
    <3>2. CASE ~(i <= n)
      <4>1. i - n \in 1..m /\ n + (i - n) = i
        BY <3>2
      <4> QED
        BY <1>3, <3>2, <4>1
    <3> QED
      BY <3>1, <3>2
  <2> QED
    BY <1>4, <2>1, <2>2
<1> QED
  BY <1>5, <1>7 DEF a, b, c

-----------------------------------------------------------------------------
(* The states of every reachable state                                     *)

\* A pass is that of its text: it was given the state of the text before its
\* tokens, has their hidden values under the layer it is in, and the state of
\* every layer it has been through.
PassFollows(p) ==
    LET text == p.text \o p.tokens IN
    /\ p.given = WholeState(p.text) /\ p.start = Len(p.text)
    /\ p.hidden = [i \in 1..Len(p.tokens) |-> Whole(text)[p.layer - 1][Len(p.text) + i]]
    /\ p.next = [m \in Layers |-> p.next[m]]
    /\ \A m \in Layers : m < p.layer => p.next[m] = WholeState(text)[m]

StateInv ==
    /\ \A s \in Slots : slot[s].state = WholeState(slot[s].text)
    /\ run # None => PassFollows(run)

LEMMA StateOf ==
  ASSUME NEW text
  PROVE  /\ WholeState(text) = [l \in Layers |-> WholeState(text)[l]]
         /\ \A l \in Layers :
               WholeState(text)[l] = [attention |-> ChunkKeys(Whole(text)[l - 1], 0),
                                      dsa |-> ChunkKeys(Whole(text)[l - 1], 0)]
<1> DEFINE keys(l) == ChunkKeys(Whole(text)[l - 1], 0)
<1>1. WholeState(text) = [l \in Layers |-> [attention |-> keys(l), dsa |-> keys(l)]]
  BY DEF WholeState
<1> HIDE DEF keys
<1>2. /\ WholeState(text) = [l \in Layers |-> WholeState(text)[l]]
      /\ \A l \in Layers : WholeState(text)[l] = [attention |-> keys(l), dsa |-> keys(l)]
  BY <1>1
<1> QED
  BY <1>2 DEF keys

LEMMA LayersBelow == \A l \in Layers : l - 1 \in 0..Depth /\ l \in Nat /\ l <= Depth /\ 1 <= l
<1>1. Layers = 1..Depth /\ Depth \in Nat
  BY ReferenceDecodingAssumption, Zenon
<1> QED
  BY <1>1

\* Nothing is kept of no text.
LEMMA EmptyFollows == WholeState(<<>>) = EmptyState
<1>1. \A l \in Layers : ChunkKeys(Whole(<<>>)[l - 1], 0) = <<>>
  <2> TAKE l \in Layers
  <2> DEFINE v == Whole(<<>>)[l - 1]
  <2>1. v = [i \in 1..0 |-> v[i]]
    <3>1. <<>> \in Seq(Tokens) /\ Len(<<>>) = 0
      OBVIOUS
    <3> HIDE DEF v
    <3>2. Whole(<<>>)[l - 1] = [i \in 1..Len(<<>>) |-> Whole(<<>>)[l - 1][i]]
      BY <3>1, WholeTokens, LayersBelow
    <3> QED
      BY <3>1, <3>2 DEF v
  <2> HIDE DEF v
  <2>2. DOMAIN v = {}
    BY <2>1
  <2>3. ChunkKeys(v, 0) = [i \in {} |-> [of |-> v[i], at |-> 0 + i]]
    BY <2>2 DEF ChunkKeys
  <2>4. ChunkKeys(v, 0) = <<>>
    BY <2>3
  <2> QED
    BY <2>4 DEF v
<1>2. /\ WholeState(<<>>) = [l \in Layers |-> WholeState(<<>>)[l]]
      /\ \A l \in Layers : WholeState(<<>>)[l] = [attention |-> <<>>, dsa |-> <<>>]
  BY <1>1, StateOf
<1> QED
  BY <1>2 DEF EmptyState

\* A pass that begins on the state of its text follows it.
LEMMA PassFollowsBegin ==
  ASSUME NEW s, NEW text \in Seq(Tokens), NEW state, state = WholeState(text),
         NEW tokens \in Seq(Tokens), NEW more
  PROVE  PassFollows(Pass(s, text, state, tokens, more))
<1> DEFINE p == Pass(s, text, state, tokens, more)
           all == text \o tokens
<1>1. /\ p.text = text /\ p.tokens = tokens /\ p.layer = 1 /\ p.given = state
      /\ p.start = PositionStart(state) /\ p.next = EmptyState
      /\ p.hidden = [i \in DOMAIN tokens |-> Embedding(tokens[i])]
  BY DEF Pass
<1>2. 1 \in Layers /\ 0 \in 0..Depth /\ 1 - 1 = 0
  BY ReferenceDecodingAssumption
<1>3. PositionStart(state) = Len(text)
  <2> DEFINE v == Whole(text)[0]  n == Len(text)
  <2>1. v = [i \in 1..n |-> v[i]] /\ n \in Nat
    BY <1>2, WholeTokens
  <2>2. state[1].attention = ChunkKeys(v, 0)
    <3>1. WholeState(text)[1] = [attention |-> ChunkKeys(Whole(text)[1 - 1], 0),
                                 dsa |-> ChunkKeys(Whole(text)[1 - 1], 0)]
      BY <1>2, StateOf
    <3> QED
      BY <1>2, <3>1
  <2> HIDE DEF v, n
  <2>3. Values(v, n) /\ Values(v, n + 0) /\ 0 \in Nat /\ \A i \in 1..n : v[i] = v[i]
    BY <2>1 DEF Values
  <2>4. Len(ChunkKeys(v, 0)) = n
    BY <2>1, <2>3, JoinedKeys
  <2> QED
    BY <2>2, <2>4 DEF PositionStart, n
<1>4. p.hidden = [i \in 1..Len(tokens) |-> Whole(all)[0][Len(text) + i]]
  <2>1. Whole(all)[0] = [i \in DOMAIN all |-> Embedding(all[i])]
    BY WholeLayers
  <2>2. ASSUME NEW i \in 1..Len(tokens) PROVE Whole(all)[0][Len(text) + i] = Embedding(tokens[i])
    <3>1. Len(text) + i \in DOMAIN all /\ all[Len(text) + i] = tokens[i]
      OBVIOUS
    <3> HIDE DEF all
    <3> QED
      BY <2>1, <3>1
  <2>3. DOMAIN tokens = 1..Len(tokens)
    OBVIOUS
  <2> HIDE DEF all
  <2> QED
    BY <1>1, <2>2, <2>3
<1>5. p.next = [m \in Layers |-> p.next[m]] /\ \A m \in Layers : ~(m < p.layer)
  BY <1>1, LayersBelow DEF EmptyState
<1> HIDE DEF p
<1>6. p.hidden = [i \in 1..Len(p.tokens) |->
                     Whole(p.text \o p.tokens)[p.layer - 1][Len(p.text) + i]]
  BY <1>1, <1>2, <1>4
<1>7. PassFollows(p)
  BY <1>1, <1>3, <1>5, <1>6 DEF PassFollows
<1> QED
  BY <1>7 DEF p

\* So does a pass that goes on to the next layer.
LEMMA PassFollowsOn ==
  ASSUME CacheInv, StateInv, run # None, run.layer <= Depth, NEW n, NEW broken, Layer(n, broken),
         use' = use, run' # None
  PROVE  PassFollows(run')
<1> DEFINE l == run.layer
           text == run.text \o run.tokens
           b == Len(run.text)
           N == Len(run.tokens)
           u == Whole(run.text)[l - 1]
           v == Whole(text)[l - 1]
           w == Whole(text)[l]
           new == ChunkKeys(run.hidden, run.start)
           keys == ChunkKeys(v, 0)
<1>1. PassOK(run) /\ PassFollows(run)
  BY DEF CacheInv, StateInv
<1>2. l \in Layers /\ l - 1 \in 0..Depth /\ l \in 0..Depth /\ l \in Nat /\ (l - 1) + 1 = l
      /\ l - 1 \in Nat /\ l - 1 < Depth
  BY <1>1, ReferenceDecodingAssumption DEF PassOK
<1>3. /\ run.text \in Seq(Tokens) /\ run.tokens \in Seq(Tokens) /\ text \in Seq(Tokens)
      /\ b \in Nat /\ N \in Nat /\ Len(text) = b + N
      /\ \A i \in 1..N : text[b + i] = run.tokens[i]
  BY <1>1 DEF PassOK
<1>4. run.start = b /\ run.hidden = [i \in 1..N |-> v[b + i]]
  BY <1>1 DEF PassFollows
<1>5. run.given[l].attention = ChunkKeys(u, 0) /\ run.given[l].dsa = ChunkKeys(u, 0)
  <2>1. run.given = WholeState(run.text)
    BY <1>1 DEF PassFollows
  <2>2. WholeState(run.text)[l] = [attention |-> ChunkKeys(u, 0), dsa |-> ChunkKeys(u, 0)]
    BY <1>2, StateOf
  <2> QED
    BY <2>1, <2>2
<1>6. \A i \in 1..b : u[i] = v[i]
  BY <1>2, <1>3, WholePrefix
<1>7. u = [i \in 1..b |-> u[i]] /\ v = [i \in 1..Len(text) |-> v[i]]
      /\ \A i \in 1..Len(text) : v[i].token = text[i]
  BY <1>2, <1>3, WholeTokens
<1>8. w = Above(text, l, v)
  BY <1>2, WholeLayers
<1> HIDE DEF l, text, b, N, u, v, w
<1>9. ChunkKeys(u, 0) \o new = keys
  <2>1. Values(u, b) /\ Values(v, b + N)
    BY <1>3, <1>7 DEF Values
  <2>2. ChunkKeys(u, 0) \o ChunkKeys(After(v, b, N), b) = ChunkKeys(v, 0)
    <3>1. b \in Nat /\ N \in Nat /\ \A i \in 1..b : u[i] = v[i]
      BY <1>3, <1>6
    <3> HIDE DEF keys, new
    <3> QED
      BY <2>1, <3>1, JoinedKeys
  <2> QED
    BY <1>4, <2>2 DEF After
<1>10. ASSUME NEW i \in 1..N PROVE Made(l, i) = w[b + i]
  <2> DEFINE at == b + i
  <2>1. at \in 1..Len(text) /\ text[at] = run.tokens[i] /\ run.hidden[i] = v[at]
    BY <1>3, <1>4
  <2> HIDE DEF at
  <2>2. DOMAIN text = 1..Len(text)
    BY <1>3
  <2>3. Attended(keys, TopKeys(keys, text[at], at), at) = Seen(v, text, at)
    <3>1. Values(v, Len(text))
      BY <1>7 DEF Values
    <3>2. \A j \in 1..Len(text) : v[j].token = text[j]
      BY <1>7
    <3> QED
      BY <1>3, <2>1, <3>1, <3>2, AttendedKeys
  <2>4. Made(l, i) = Output(l, v[at], at, Attended(keys, TopKeys(keys, text[at], at), at),
                            ToSet(TensorNames(l)), {<<l, e>> : e \in Routed(l, text[at])})
    <3> HIDE DEF keys, new
    <3> QED
      BY <1>4, <1>5, <1>9, <2>1 DEF Made, at, new
  <2>5. w[at] = Output(l, v[at], at, Seen(v, text, at), ToSet(TensorNames(l)),
                       {<<l, e>> : e \in Routed(l, text[at])})
    BY <1>8, <2>1, <2>2 DEF Above, Seen
  <2> QED
    BY <2>3, <2>4, <2>5, Zenon DEF at
<1>11. run' = [slot |-> run.slot, tokens |-> run.tokens, text |-> run.text,
               layer |-> l + 1, more |-> run.more, start |-> run.start,
               hidden |-> [i \in 1..N |-> Made(l, i)], given |-> run.given,
               next |-> [run.next EXCEPT ![l] = [attention |-> keys, dsa |-> keys]]]
  <2> HIDE DEF keys
  <2>1. run.given[l].attention \o new = keys /\ run.given[l].dsa \o new = keys
    BY <1>5, <1>9
  <2>2. run' = [slot |-> run.slot, tokens |-> run.tokens, text |-> run.text,
                layer |-> l + 1, more |-> run.more, start |-> run.start,
                hidden |-> [i \in 1..N |-> Made(l, i)], given |-> run.given,
                next |-> [run.next EXCEPT ![l] = [attention |-> run.given[l].attention \o new,
                                                  dsa |-> run.given[l].dsa \o new]]]
    BY LayerOK DEF l, new, N
  <2> QED
    BY <2>1, <2>2
<1>12. [i \in 1..N |-> Made(l, i)] = [i \in 1..N |-> w[b + i]]
  <2> HIDE DEF Made
  <2> QED
    BY <1>10
<1>13. WholeState(text)[l] = [attention |-> keys, dsa |-> keys]
  BY <1>2, StateOf DEF v
<1> HIDE DEF keys, new
<1>14. /\ run'.text = run.text /\ run'.tokens = run.tokens /\ run'.layer = l + 1
       /\ run'.start = run.start /\ run'.given = run.given
       /\ run'.hidden = [i \in 1..N |-> w[b + i]]
       /\ run'.next = [run.next EXCEPT ![l] = [attention |-> keys, dsa |-> keys]]
  BY <1>11, <1>12
<1>15. run'.next = [m \in Layers |-> run'.next[m]] /\ \A m \in Layers : m < l + 1 => run'.next[m] = WholeState(text)[m]
  <2>1. run.next = [m \in Layers |-> run.next[m]] /\ \A m \in Layers : m < l => run.next[m] = WholeState(text)[m]
    BY <1>1 DEF PassFollows, l, text
  <2>2. \A m \in Layers : m < l + 1 => m < l \/ m = l
    BY <1>2, LayersBelow
  <2> QED
    BY <1>2, <1>13, <1>14, <2>1, <2>2
<1>16. run'.hidden = [i \in 1..Len(run'.tokens) |->
                         Whole(run'.text \o run'.tokens)[run'.layer - 1][Len(run'.text) + i]]
  <2>1. run'.layer - 1 = l
    BY <1>2, <1>14
  <2> QED
    BY <1>14, <2>1 DEF w, b, N, text
<1>17. run'.given = WholeState(run'.text) /\ run'.start = Len(run'.text)
  BY <1>1, <1>14 DEF PassFollows
<1> QED
  BY <1>14, <1>15, <1>16, <1>17 DEF PassFollows, text

LEMMA StateInvInit == Init => StateInv
  BY EmptyFollows DEF Init, StateInv

LEMMA StateInvNext == CacheInv /\ StateInv /\ [Next]_vars => StateInv'
<1> SUFFICES ASSUME CacheInv, StateInv, [Next]_vars PROVE StateInv'
  OBVIOUS
<1>1. SlotOK /\ use \in Uses /\ (run # None => PassOK(run) /\ PassFollows(run))
  BY DEF CacheInv, StateInv
<1>2. \A s \in Slots : slot[s].state = WholeState(slot[s].text)
  BY DEF StateInv
<1>3. ASSUME NEW s \in Slots, Forward(s) PROVE StateInv'
  <2>1. slot' = slot
    BY <1>3 DEF Forward
  <2>2. PICK tokens \in Chunks : run' = Pass(s, slot[s].text, slot[s].state, tokens, 0)
    BY <1>3 DEF Forward
  <2>3. PassFollows(run')
    BY <1>1, <1>2, <2>2, ChunksAreTexts, PassFollowsBegin DEF SlotOK
  <2> QED
    BY <1>2, <2>1, <2>3 DEF StateInv
<1>4. ASSUME NEW s \in Slots, Generate(s) PROVE StateInv'
  <2>1. slot' = slot
    BY <1>4 DEF Generate
  <2>2. PICK prompt \in Chunks : run' = Pass(s, <<>>, EmptyState, prompt, MaxText - Len(prompt))
    BY <1>4 DEF Generate
  <2>3. <<>> \in Seq(Tokens)
    OBVIOUS
  <2>4. PassFollows(run')
    BY <2>2, <2>3, EmptyFollows, ChunksAreTexts, PassFollowsBegin
  <2> QED
    BY <1>2, <2>1, <2>4 DEF StateInv
<1>5. ASSUME NEW s \in Slots, NEW t \in Slots \ {s}, Branch(s, t) PROVE StateInv'
  <2>1. run' = run /\ slot' = [slot EXCEPT ![t] = slot[s]]
    BY <1>5 DEF Branch
  <2>2. \A r \in Slots : slot'[r] = slot[r] \/ slot'[r] = slot[s]
    BY <1>1, <2>1 DEF SlotOK
  <2>3. \A r \in Slots : slot'[r].state = WholeState(slot'[r].text)
    BY <1>2, <2>2
  <2> QED
    BY <1>1, <2>1, <2>3 DEF StateInv
<1>6. ASSUME RunLayer PROVE StateInv'
  <2>1. run # None /\ run.layer <= Depth /\ Layer(3, None) /\ use' = use /\ slot' = slot
    BY <1>6 DEF RunLayer
  <2>2. run' # None => PassFollows(run')
    BY <2>1, PassFollowsOn
  <2> QED
    BY <1>2, <2>1, <2>2 DEF StateInv
<1>7. ASSUME ReadFails PROVE StateInv'
  BY <1>2, <1>7 DEF ReadFails, StateInv
<1>8. ASSUME Finish PROVE StateInv'
  <2> DEFINE text == run.text \o run.tokens
             last == <<Argmax[Last(run.hidden).token]>>
  <2>1. /\ run # None /\ run.layer > Depth
        /\ slot' = [slot EXCEPT ![run.slot] = [text |-> text, state |-> run.next]]
        /\ run' = IF run.more = 0 THEN None
                  ELSE Pass(run.slot, text, run.next, last, run.more - 1)
    BY <1>8 DEF Finish
  <2>2. PassOK(run) /\ PassFollows(run) /\ text \in Seq(Tokens) /\ run.slot \in Slots
    BY <1>1, <2>1 DEF PassOK
  <2>3. run.next = WholeState(text)
    <3>1. run.layer \in Nat /\ \A m \in Layers : m < run.layer
      <4>1. run.layer \in 1..(Depth + 1)
        BY <2>2 DEF PassOK
      <4>2. Depth \in Nat
        BY ReferenceDecodingAssumption
      <4> QED
        BY <2>1, <4>1, <4>2, LayersBelow
    <3>2. \A m \in Layers : run.next[m] = WholeState(text)[m]
      BY <2>2, <3>1 DEF PassFollows
    <3>3. run.next = [m \in Layers |-> run.next[m]]
      BY <2>2 DEF PassFollows
    <3>4. WholeState(text) = [m \in Layers |-> WholeState(text)[m]]
      BY StateOf
    <3> HIDE DEF text
    <3> QED
      BY <3>2, <3>3, <3>4
  <2>4. \A s \in Slots : slot'[s].state = WholeState(slot'[s].text)
    <3> HIDE DEF text
    <3> QED
      BY <1>1, <1>2, <2>1, <2>2, <2>3 DEF SlotOK
  <2>5. run' # None => PassFollows(run')
    <3>1. run' # None => last \in Seq(Tokens) /\ PassFollows(run')
      <4>1. CacheInv'
        BY CacheInvNext
      <4>2. run' # None => run'.tokens \in Seq(Tokens)
        BY <4>1 DEF CacheInv, PassOK
      <4>3. run' # None => run'.tokens = last
        BY <2>1 DEF Pass
      <4> HIDE DEF text, last
      <4> QED
        BY <2>1, <2>2, <2>3, <4>2, <4>3, PassFollowsBegin
    <3> QED
      BY <3>1
  <2> QED
    BY <2>4, <2>5 DEF StateInv
<1>9. ASSUME UNCHANGED vars PROVE StateInv'
  BY <1>9 DEF vars, StateInv
<1> QED
  BY <1>3, <1>4, <1>5, <1>6, <1>7, <1>8, <1>9 DEF Next

\* Every state the caller holds, and every hidden value of a pass on its way,
\* is that of its text computed at once, for every depth, every number of
\* experts and tokens, all routes and scores, and caches of every size.
THEOREM StatesAreRecomputedCorrect == Spec => []StatesAreRecomputed
<1>1. CacheInv /\ StateInv => StatesAreRecomputed
  <2> SUFFICES ASSUME CacheInv, StateInv PROVE StatesAreRecomputed
    OBVIOUS
  <2>1. ASSUME run # None
        PROVE  DOMAIN run.tokens = 1..Len(run.tokens) /\ PassFollows(run)
    BY <2>1 DEF CacheInv, StateInv, PassOK
  <2> QED
    BY <2>1 DEF StatesAreRecomputed, StateInv, PassFollows
<1> QED
  BY <1>1, CacheInvInit, CacheInvNext, StateInvInit, StateInvNext, PTL DEF Spec
=============================================================================
