---------------------------- MODULE FetcherProofs ----------------------------
(***************************************************************************)
(* The SDK's account fetcher, for any accounts, calls and lists, any size  *)
(* of a request, and any order of the answers.                             *)
(*                                                                         *)
(* The loops of the code (over the keys that are cached anew, the cached   *)
(* values that are undefined, the responses that are joined) are recursive *)
(* functions over a prefix of the naturals; what they yield is proved by   *)
(* induction on that prefix.                                               *)
(***************************************************************************)
EXTENDS AccountFetcher, SequenceTheorems, FiniteSetTheorems, FunctionTheorems, TLAPS

-----------------------------------------------------------------------------
(* Loops *)

\* A set that holds 0, and with n also n + 1 up to N, holds all of 0 .. N.
LEMMA CountTo ==
  ASSUME NEW N \in Nat, NEW S, 0 \in S, \A n \in 0 .. N : n \in S /\ n < N => n + 1 \in S
  PROVE  \A n \in 0 .. N : n \in S
<1> DEFINE Absent == {n \in 0 .. N : n \notin S}
           R == OpToRel(<, Nat)
<1>1. ASSUME Absent # {} PROVE FALSE
  <2>1. Absent \subseteq Nat
    OBVIOUS
  <2>2. IsWellFoundedOn(R, Nat)
    BY NatLessThanWellFounded
  <2> HIDE DEF Absent, R
  <2>3. PICK n \in Absent : \A m \in Absent : ~(<<m, n>> \in R)
    BY <1>1, <2>1, <2>2, WFMin
  <2>4. n \in 0 .. N /\ n \notin S
    BY <2>3 DEF Absent
  <2>5. n - 1 \in 0 .. N /\ n - 1 < N /\ (n - 1) + 1 = n /\ n - 1 < n
    BY <2>4
  <2>6. n - 1 \notin S
    BY <2>4, <2>5
  <2>7. n - 1 \in Absent /\ <<n - 1, n>> \in R
    BY <2>1, <2>3, <2>5, <2>6 DEF Absent, R, OpToRel
  <2> QED
    BY <2>3, <2>7
<1> QED
  BY <1>1

\* g is what a loop yields after each of its steps.
Loops(g, N, base, step) == g[0] = base /\ \A n \in 1 .. N : g[n] = step[<<n, g[n - 1]>>]

\* A loop whose steps stay within a set has a value after each of them.
LEMMA LoopExists ==
  ASSUME NEW N, N \in Nat, NEW S, NEW base, base \in S, NEW step, step \in [(1 .. N) \X S -> S]
  PROVE  \E g \in [0 .. N -> S] : Loops(g, N, base, step)
<1> DEFINE Solves(g, m) == g[0] = base /\ \A n \in 1 .. m : g[n] = step[<<n, g[n - 1]>>]
           T == {m \in 0 .. N : \E g \in [0 .. m -> S] : Solves(g, m)}
<1>1. 0 \in T
  <2> DEFINE g == [n \in 0 .. 0 |-> base]
  <2>1. g \in [0 .. 0 -> S] /\ Solves(g, 0)
    OBVIOUS
  <2> HIDE DEF g, Solves
  <2> QED
    BY <2>1
<1>2. ASSUME NEW m \in 0 .. N, m \in T, m < N PROVE m + 1 \in T
  <2>1. PICK g \in [0 .. m -> S] : Solves(g, m)
    BY <1>2
  <2> DEFINE h == [n \in 0 .. (m + 1) |-> IF n = m + 1 THEN step[<<m + 1, g[m]>>] ELSE g[n]]
  <2>2. m + 1 \in 1 .. N /\ m \in 0 .. m /\ g[m] \in S
    BY <1>2
  <2>3. step[<<m + 1, g[m]>>] \in S
    BY <2>2
  <2>4. h \in [0 .. (m + 1) -> S]
    BY <1>2, <2>3
  <2>5. h[0] = base
    BY <1>2, <2>1
  <2>6. ASSUME NEW n \in 1 .. (m + 1) PROVE h[n] = step[<<n, h[n - 1]>>]
    <3>1. n \in 0 .. (m + 1) /\ n - 1 \in 0 .. (m + 1) /\ n - 1 # m + 1 /\ n - 1 \in 0 .. m
      BY <1>2, <2>6
    <3>2. h[n - 1] = g[n - 1]
      BY <3>1
    <3>3. CASE n = m + 1
      BY <1>2, <3>1, <3>2, <3>3
    <3>4. CASE n # m + 1
      <4>1. n \in 1 .. m
        BY <1>2, <2>6, <3>4
      <4>2. g[n] = step[<<n, g[n - 1]>>]
        BY <2>1, <4>1
      <4>3. h[n] = g[n]
        BY <3>1, <3>4
      <4> QED
        BY <3>2, <4>2, <4>3
    <3> QED
      BY <3>3, <3>4
  <2>7. Solves(h, m + 1)
    BY <2>5, <2>6
  <2>8. m + 1 \in 0 .. N
    BY <1>2
  <2> HIDE DEF h, Solves
  <2> QED
    BY <2>4, <2>7, <2>8
<1>3. N \in T
  <2> HIDE DEF T
  <2> QED
    BY <1>1, <1>2, CountTo
<1> QED
  BY <1>3 DEF Loops

-----------------------------------------------------------------------------
(* The cache *)

Entry == [key : Address, value : Value]

KeysOnce(entries) == \A i, j \in DOMAIN entries : entries[i].key = entries[j].key => i = j

\* A key keeps its place, and its value unless it is the one written.
LEMMA PutProperties ==
  ASSUME NEW entries \in Seq(Entry), NEW entry \in Entry
  PROVE  /\ Put(entries, entry) \in Seq(Entry)
         /\ KeysOnce(entries) => KeysOnce(Put(entries, entry))
         /\ Len(entries) <= Len(Put(entries, entry))
         /\ \A i \in DOMAIN entries : Put(entries, entry)[i].key = entries[i].key
         /\ \A i \in DOMAIN Put(entries, entry) :
              \/ Put(entries, entry)[i] = entry
              \/ i \in DOMAIN entries /\ Put(entries, entry)[i] = entries[i]
<1>1. /\ Len(entries) \in Nat /\ DOMAIN entries = 1 .. Len(entries)
      /\ \A i \in 1 .. Len(entries) : entries[i] \in Entry
  BY LenProperties, ElementOfSeq
<1>2. CASE \E i \in DOMAIN entries : entries[i].key = entry.key
  <2> DEFINE new == [i \in DOMAIN entries |-> IF entries[i].key = entry.key THEN entry ELSE entries[i]]
  <2>1. Put(entries, entry) = new
    BY <1>2 DEF Put
  <2>2. new \in Seq(Entry) /\ Len(new) = Len(entries) /\ DOMAIN new = DOMAIN entries
    BY <1>1
  <2>3. \A i \in DOMAIN entries : new[i].key = entries[i].key
    OBVIOUS
  <2>4. \A i \in DOMAIN entries : new[i] = entry \/ new[i] = entries[i]
    OBVIOUS
  <2> HIDE DEF new
  <2> QED
    BY <1>1, <2>1, <2>2, <2>3, <2>4 DEF KeysOnce
<1>3. CASE ~\E i \in DOMAIN entries : entries[i].key = entry.key
  <2> DEFINE new == Append(entries, entry)
  <2>1. Put(entries, entry) = new
    BY <1>3 DEF Put
  <2>2. /\ new \in Seq(Entry) /\ Len(new) = Len(entries) + 1
        /\ \A i \in 1 .. Len(entries) : new[i] = entries[i]
        /\ new[Len(entries) + 1] = entry
    BY AppendProperties
  <2>3. DOMAIN new = 1 .. (Len(entries) + 1)
    BY <2>2, LenProperties
  <2> HIDE DEF new
  <2>4. \A i \in 1 .. (Len(entries) + 1) : i \in 1 .. Len(entries) \/ i = Len(entries) + 1
    BY <1>1
  <2>5. KeysOnce(entries) => KeysOnce(new)
    <3> SUFFICES ASSUME KeysOnce(entries), NEW i \in DOMAIN new, NEW j \in DOMAIN new,
                        new[i].key = new[j].key
                 PROVE  i = j
      BY DEF KeysOnce
    <3>1. CASE i \in 1 .. Len(entries) /\ j \in 1 .. Len(entries)
      BY <1>1, <2>2, <3>1 DEF KeysOnce
    <3>2. CASE i = Len(entries) + 1 /\ j \in 1 .. Len(entries)
      BY <1>1, <1>3, <2>2, <3>2
    <3>3. CASE j = Len(entries) + 1 /\ i \in 1 .. Len(entries)
      BY <1>1, <1>3, <2>2, <3>3
    <3> QED
      BY <2>3, <2>4, <3>1, <3>2, <3>3
  <2> QED
    BY <1>1, <2>1, <2>2, <2>3, <2>4, <2>5
<1> QED
  BY <1>2, <1>3

\* The loop over the keys that were asked for (fetcher.ts:353): keys keep their
\* places, and an entry is as it was or one of those that were written.
LEMMA PutAllProperties ==
  ASSUME NEW keys \in Seq(Address), NEW data \in Seq(Value), Len(data) = Len(keys),
         cache \in Seq(Entry), KeysOnce(cache)
  PROVE  /\ PutAll(keys, data) \in Seq(Entry)
         /\ KeysOnce(PutAll(keys, data))
         /\ Len(cache) <= Len(PutAll(keys, data))
         /\ \A i \in DOMAIN cache : PutAll(keys, data)[i].key = cache[i].key
         /\ \A i \in DOMAIN PutAll(keys, data) :
              \/ i \in DOMAIN cache /\ PutAll(keys, data)[i] = cache[i]
              \/ \E n \in DOMAIN keys : PutAll(keys, data)[i] = [key |-> keys[n], value |-> data[n]]
<1> DEFINE N == Len(keys)
           entry(n) == [key |-> keys[n], value |-> data[n]]
           put == CHOOSE f : f = [n \in 0 .. N |-> IF n = 0 THEN cache ELSE Put(f[n - 1], entry(n))]
<1>1. /\ N \in Nat /\ DOMAIN keys = 1 .. N
      /\ \A n \in 1 .. N : entry(n) \in Entry
  BY LenProperties, ElementOfSeq DEF Entry
<1>2. PutAll(keys, data) = put[N]
  BY DEF PutAll
<1> HIDE DEF N
<1>3. put = [n \in 0 .. N |-> IF n = 0 THEN cache ELSE Put(put[n - 1], entry(n))]
  <2> DEFINE step == [s \in (1 .. N) \X Seq(Entry) |-> Put(s[2], entry(s[1]))]
  <2>1. step \in [(1 .. N) \X Seq(Entry) -> Seq(Entry)]
    BY <1>1, PutProperties
  <2>2. \A n \in 1 .. N, entries \in Seq(Entry) : step[<<n, entries>>] = Put(entries, entry(n))
    OBVIOUS
  <2> HIDE DEF step
  <2>3. PICK g \in [0 .. N -> Seq(Entry)] : Loops(g, N, cache, step)
    <3>1. N \in Nat /\ cache \in Seq(Entry) /\ step \in [(1 .. N) \X Seq(Entry) -> Seq(Entry)]
      BY <1>1, <2>1
    <3> QED
      BY <3>1, LoopExists
  <2>4. ASSUME NEW n \in 0 .. N PROVE g[n] = IF n = 0 THEN cache ELSE Put(g[n - 1], entry(n))
    <3>1. CASE n = 0
      BY <2>3, <3>1 DEF Loops
    <3>2. CASE n # 0
      <4>1. n \in 1 .. N /\ n - 1 \in 0 .. N
        BY <1>1, <3>2
      <4>2. g[n - 1] \in Seq(Entry)
        BY <4>1
      <4> QED
        BY <2>2, <2>3, <3>2, <4>1, <4>2 DEF Loops
    <3> QED
      BY <3>1, <3>2
  <2>5. g = [n \in 0 .. N |-> IF n = 0 THEN cache ELSE Put(g[n - 1], entry(n))]
    BY <2>4
  <2> QED
    BY <2>5
<1> HIDE DEF put
<1>4. /\ put[0] = cache
      /\ \A n \in 0 .. N : n < N => put[n + 1] = Put(put[n], entry(n + 1))
  <2>1. \A n \in 0 .. N : put[n] = IF n = 0 THEN cache ELSE Put(put[n - 1], entry(n))
    BY <1>3
  <2>2. ASSUME NEW n \in 0 .. N, n < N PROVE put[n + 1] = Put(put[n], entry(n + 1))
    <3>1. n + 1 \in 0 .. N /\ n + 1 # 0 /\ (n + 1) - 1 = n
      BY <1>1, <2>2
    <3> QED
      BY <2>1, <3>1
  <2>3. 0 \in 0 .. N
    BY <1>1
  <2>4. put[0] = cache
    BY <2>1, <2>3
  <2> QED
    BY <2>2, <2>4
<1> DEFINE Good(s) == /\ s \in Seq(Entry) /\ KeysOnce(s) /\ Len(cache) <= Len(s)
                      /\ \A i \in DOMAIN cache : s[i].key = cache[i].key
                      /\ \A i \in DOMAIN s : \/ i \in DOMAIN cache /\ s[i] = cache[i]
                                             \/ \E n \in DOMAIN keys : s[i] = entry(n)
           T == {n \in 0 .. N : Good(put[n])}
<1>5. /\ Len(cache) \in Nat /\ DOMAIN cache = 1 .. Len(cache)
  BY LenProperties
<1>6. Good(put[0])
  BY <1>4, <1>5
<1>7. ASSUME NEW s, Good(s), NEW n \in 1 .. N PROVE Good(Put(s, entry(n)))
  <2> DEFINE new == Put(s, entry(n))
  <2>1. /\ new \in Seq(Entry) /\ KeysOnce(new) /\ Len(s) <= Len(new)
        /\ \A i \in DOMAIN s : new[i].key = s[i].key
        /\ \A i \in DOMAIN new : new[i] = entry(n) \/ (i \in DOMAIN s /\ new[i] = s[i])
    BY <1>1, <1>7, PutProperties
  <2>2. /\ Len(s) \in Nat /\ DOMAIN s = 1 .. Len(s) /\ Len(new) \in Nat
    BY <1>7, <2>1, LenProperties
  <2>3. DOMAIN cache \subseteq DOMAIN s
    BY <1>5, <1>7, <2>2
  <2> HIDE DEF new, entry
  <2>4. \A i \in DOMAIN cache : new[i].key = cache[i].key
    BY <1>7, <2>1, <2>3
  <2>5. \A i \in DOMAIN new : \/ i \in DOMAIN cache /\ new[i] = cache[i]
                              \/ \E m \in DOMAIN keys : new[i] = entry(m)
    BY <1>1, <1>7, <2>1
  <2>6. Len(cache) <= Len(new)
    BY <1>5, <1>7, <2>1, <2>2
  <2> QED
    BY <2>1, <2>4, <2>5, <2>6 DEF new
<1> HIDE DEF Good, entry
<1>8. \A n \in 0 .. N : n \in T /\ n < N => n + 1 \in T
  <2> SUFFICES ASSUME NEW n \in 0 .. N, n \in T, n < N PROVE n + 1 \in T
    OBVIOUS
  <2>1. n + 1 \in 0 .. N /\ n + 1 \in 1 .. N
    BY <1>1
  <2>2. Good(Put(put[n], entry(n + 1)))
    BY <1>7, <2>1
  <2> QED
    BY <1>4, <2>1, <2>2
<1>9. 0 \in T
  BY <1>1, <1>6
<1>10. \A n \in 0 .. N : n \in T
  <2> HIDE DEF T
  <2> QED
    BY <1>1, <1>8, <1>9, CountTo
<1>11. Good(put[N])
  BY <1>1, <1>10
<1> QED
  BY <1>2, <1>11 DEF Good, entry, N

-----------------------------------------------------------------------------
(* What is missing, and what is asked for *)

\* The undefined values' indices (fetcher.ts:344): all of them, and no other.
LEMMA MissingProperties ==
  ASSUME NEW V, NEW values \in Seq(V)
  PROVE  /\ Missing(values) \in Seq(DOMAIN values)
         /\ \A j \in DOMAIN Missing(values) : values[Missing(values)[j]] = Undefined
         /\ \A i \in DOMAIN values :
              values[i] = Undefined => \E j \in DOMAIN Missing(values) : Missing(values)[j] = i
<1> DEFINE N == Len(values)
           D == DOMAIN values
           next(s, n) == IF values[n] = Undefined THEN Append(s, n) ELSE s
           found == CHOOSE f : f = [n \in 0 .. N |-> IF n = 0 THEN <<>>
                                     ELSE IF values[n] = Undefined THEN Append(f[n - 1], n) ELSE f[n - 1]]
<1>1. N \in Nat /\ D = 1 .. N
  BY LenProperties
<1>2. Missing(values) = found[N]
  BY DEF Missing
<1> HIDE DEF N, D
<1>3. \A s \in Seq(D), n \in 1 .. N : next(s, n) \in Seq(D)
  BY <1>1, AppendProperties
<1>4. found = [n \in 0 .. N |-> IF n = 0 THEN <<>>
                 ELSE IF values[n] = Undefined THEN Append(found[n - 1], n) ELSE found[n - 1]]
  <2> DEFINE step == [t \in (1 .. N) \X Seq(D) |-> next(t[2], t[1])]
  <2>1. step \in [(1 .. N) \X Seq(D) -> Seq(D)]
    BY <1>3
  <2>2. \A n \in 1 .. N, s \in Seq(D) : step[<<n, s>>] = next(s, n)
    OBVIOUS
  <2>3. <<>> \in Seq(D)
    BY EmptySeq
  <2> HIDE DEF step, next
  <2>4. PICK g \in [0 .. N -> Seq(D)] : Loops(g, N, <<>>, step)
    BY <1>1, <2>1, <2>3, LoopExists
  <2>5. ASSUME NEW n \in 0 .. N PROVE g[n] = IF n = 0 THEN <<>> ELSE next(g[n - 1], n)
    <3>1. CASE n = 0
      BY <2>4, <3>1 DEF Loops
    <3>2. CASE n # 0
      <4>1. n \in 1 .. N /\ n - 1 \in 0 .. N
        BY <1>1, <3>2
      <4>2. g[n - 1] \in Seq(D)
        BY <4>1
      <4> QED
        BY <2>2, <2>4, <3>2, <4>1, <4>2 DEF Loops
    <3> QED
      BY <3>1, <3>2
  <2>6. g = [n \in 0 .. N |-> IF n = 0 THEN <<>>
               ELSE IF values[n] = Undefined THEN Append(g[n - 1], n) ELSE g[n - 1]]
    BY <2>5 DEF next
  <2> QED
    BY <2>6
<1> HIDE DEF found
<1>5. /\ found[0] = <<>>
      /\ \A n \in 0 .. N : n < N => found[n + 1] = next(found[n], n + 1)
  <2>1. \A n \in 0 .. N : found[n] = IF n = 0 THEN <<>> ELSE next(found[n - 1], n)
    BY <1>4
  <2> HIDE DEF next
  <2>2. ASSUME NEW n \in 0 .. N, n < N PROVE found[n + 1] = next(found[n], n + 1)
    <3>1. n + 1 \in 0 .. N /\ n + 1 # 0 /\ (n + 1) - 1 = n
      BY <1>1, <2>2
    <3> QED
      BY <2>1, <3>1
  <2>3. 0 \in 0 .. N
    BY <1>1
  <2>4. found[0] = <<>>
    BY <2>1, <2>3
  <2> QED
    BY <2>2, <2>4
<1> DEFINE Good(s, n) == /\ s \in Seq(D)
                         /\ \A j \in DOMAIN s : values[s[j]] = Undefined
                         /\ \A i \in 1 .. n : values[i] = Undefined => \E j \in DOMAIN s : s[j] = i
           T == {n \in 0 .. N : Good(found[n], n)}
<1>6. Good(<<>>, 0)
  BY EmptySeq
<1>7. ASSUME NEW n \in 0 .. N, n < N, NEW s, Good(s, n) PROVE Good(next(s, n + 1), n + 1)
  <2> DEFINE new == next(s, n + 1)
  <2>1. n + 1 \in 1 .. N /\ n + 1 \in D /\ s \in Seq(D)
    BY <1>1, <1>7
  <2>2. Len(s) \in Nat /\ DOMAIN s = 1 .. Len(s)
    BY <2>1, LenProperties
  <2>3. CASE values[n + 1] # Undefined
    <3>1. new = s
      BY <2>3
    <3>2. \A i \in 1 .. (n + 1) : i \in 1 .. n \/ i = n + 1
      OBVIOUS
    <3> QED
      BY <1>7, <2>3, <3>1, <3>2
  <2>4. CASE values[n + 1] = Undefined
    <3>1. new = Append(s, n + 1)
      BY <2>4
    <3> HIDE DEF new
    <3>2. /\ new \in Seq(D) /\ Len(new) = Len(s) + 1
          /\ \A j \in 1 .. Len(s) : new[j] = s[j]
          /\ new[Len(s) + 1] = n + 1
      BY <2>1, <3>1, AppendProperties
    <3>3. DOMAIN new = 1 .. (Len(s) + 1)
      BY <3>2, LenProperties
    <3>4. ASSUME NEW j \in DOMAIN new PROVE values[new[j]] = Undefined
      <4>1. CASE j \in 1 .. Len(s)
        BY <1>7, <2>2, <3>2, <4>1
      <4>2. CASE j = Len(s) + 1
        BY <2>4, <3>2, <4>2
      <4> QED
        BY <2>2, <3>3, <4>1, <4>2
    <3>5. ASSUME NEW i \in 1 .. (n + 1), values[i] = Undefined
          PROVE  \E j \in DOMAIN new : new[j] = i
      <4>1. CASE i = n + 1
        <5>1. Len(s) + 1 \in DOMAIN new
          BY <2>2, <3>3
        <5> QED
          BY <3>2, <4>1, <5>1
      <4>2. CASE i # n + 1
        <5>1. i \in 1 .. n
          BY <4>2
        <5>2. PICK j \in DOMAIN s : s[j] = i
          BY <1>7, <3>5, <5>1
        <5>3. j \in DOMAIN new /\ new[j] = i
          BY <2>2, <3>2, <3>3, <5>2
        <5> QED
          BY <5>3
      <4> QED
        BY <4>1, <4>2
    <3>6. Good(new, n + 1)
      BY <3>2, <3>4, <3>5
    <3> QED
      BY <3>6 DEF new
  <2> QED
    BY <2>3, <2>4
<1> HIDE DEF Good, next
<1>8. \A n \in 0 .. N : n \in T /\ n < N => n + 1 \in T
  <2> SUFFICES ASSUME NEW n \in 0 .. N, n \in T, n < N PROVE n + 1 \in T
    OBVIOUS
  <2>1. n + 1 \in 0 .. N
    BY <1>1
  <2>2. Good(next(found[n], n + 1), n + 1)
    BY <1>7
  <2> QED
    BY <1>5, <2>1, <2>2
<1>9. 0 \in T
  BY <1>1, <1>5, <1>6
<1>10. \A n \in 0 .. N : n \in T
  <2> HIDE DEF T
  <2> QED
    BY <1>1, <1>8, <1>9, CountTo
<1>11. Good(found[N], N)
  BY <1>1, <1>10
<1> QED
  BY <1>1, <1>2, <1>11 DEF Good, D

-----------------------------------------------------------------------------
(* Chunks *)

\* Division of an integer by a positive one.
LEMMA Quotient ==
  ASSUME NEW n \in Int, NEW d \in Nat \ {0}
  PROVE  n \div d \in Int /\ (n \div d) * d <= n /\ n < (n \div d) * d + d
<1>1. /\ n \div d \in Int /\ n % d \in 0 .. (d - 1)
      /\ n = (n \div d) * d + (n % d)
      /\ (n \div d) * d <= n
      /\ n < (n \div d) * d + d
  OBVIOUS
<1> QED
  BY <1>1

\* The chunks cut the request into pieces of CHUNK keys, but for the last one
\* (fetcher.ts:374).
LEMMA ChunkBounds ==
  ASSUME NEW keys \in Seq(Address)
  PROVE  /\ Chunks(keys) \in Nat
         /\ Len(keys) <= Chunks(keys) * CHUNK
         /\ \A n \in 0 .. Chunks(keys) :
              /\ n * CHUNK \in Nat /\ (n + 1) * CHUNK = n * CHUNK + CHUNK
              /\ n < Chunks(keys) => n * CHUNK < Len(keys)
<1> DEFINE L == Len(keys)
           q == (L + CHUNK - 1) \div CHUNK
<1>1. L \in Nat /\ CHUNK \in Nat /\ CHUNK >= 1
  BY LenProperties, FetcherAssumption
<1> HIDE DEF L
<1>2. /\ q \in Int /\ q * CHUNK <= L + CHUNK - 1 /\ L + CHUNK - 1 < q * CHUNK + CHUNK
  <2>1. L + CHUNK - 1 \in Int /\ CHUNK \in Nat \ {0}
    BY <1>1
  <2> QED
    BY <2>1, Quotient
<1> HIDE DEF q
<1>3. q >= 0
  <2>1. ASSUME q <= -1 PROVE FALSE
    <3>1. q * CHUNK <= (-1) * CHUNK
      BY <1>1, <1>2, <2>1
    <3> QED
      BY <1>1, <1>2, <3>1
  <2> QED
    BY <1>2, <2>1
<1>4. L <= q * CHUNK
  <2>1. q * CHUNK \in Int
    BY <1>1, <1>2
  <2> QED
    BY <1>1, <1>2, <2>1
<1>5. ASSUME NEW n \in 0 .. q
      PROVE  /\ n * CHUNK \in Nat /\ (n + 1) * CHUNK = n * CHUNK + CHUNK
             /\ n < q => n * CHUNK < L
  <2>1. n * CHUNK \in Nat /\ (n + 1) * CHUNK = n * CHUNK + CHUNK
    BY <1>1
  <2>2. ASSUME n < q PROVE n * CHUNK < L
    <3>1. n + 1 <= q /\ n + 1 \in Int
      BY <1>2, <2>2
    <3>2. (n + 1) * CHUNK <= q * CHUNK /\ q * CHUNK \in Int
      BY <1>1, <1>2, <3>1
    <3> QED
      BY <1>1, <1>2, <2>1, <3>2
  <2> QED
    BY <2>1, <2>2
<1>6. Chunks(keys) = q
  BY DEF Chunks, q, L
<1> QED
  BY <1>2, <1>3, <1>4, <1>5, <1>6 DEF L

\* What the n-th chunk holds.
LEMMA ChunkProperties ==
  ASSUME NEW keys \in Seq(Address), NEW n \in 0 .. Chunks(keys), n < Chunks(keys)
  PROVE  LET end == IF (n + 1) * CHUNK < Len(keys) THEN (n + 1) * CHUNK ELSE Len(keys)
         IN  /\ n * CHUNK < end /\ end \in Nat /\ end <= Len(keys)
             /\ ChunkOf(keys, n + 1) \in Seq(Address)
             /\ Len(ChunkOf(keys, n + 1)) = end - n * CHUNK
             /\ \A i \in 1 .. (end - n * CHUNK) : ChunkOf(keys, n + 1)[i] = keys[n * CHUNK + i]
<1> DEFINE start == n * CHUNK
           end == IF (n + 1) * CHUNK < Len(keys) THEN (n + 1) * CHUNK ELSE Len(keys)
<1>1. /\ Len(keys) \in Nat /\ DOMAIN keys = 1 .. Len(keys) /\ \A i \in 1 .. Len(keys) : keys[i] \in Address
      /\ CHUNK \in Nat /\ CHUNK >= 1
  BY LenProperties, ElementOfSeq, FetcherAssumption
<1>2. start \in Nat /\ start < Len(keys) /\ (n + 1) * CHUNK = start + CHUNK
  BY ChunkBounds
<1> HIDE DEF start
<1>3. start < end /\ end \in Nat /\ end <= Len(keys)
  BY <1>1, <1>2
<1>4. ((n + 1) - 1) * CHUNK + 1 = start + 1
  <2>1. (n + 1) - 1 = n
    BY ChunkBounds
  <2> QED
    BY <2>1 DEF start
<1> HIDE DEF end
<1>5. ChunkOf(keys, n + 1) = SubSeq(keys, start + 1, end)
  BY <1>4 DEF ChunkOf, end
<1>6. /\ SubSeq(keys, start + 1, end) \in Seq(Address)
      /\ Len(SubSeq(keys, start + 1, end)) = end - start
      /\ \A i \in 1 .. (end - start) : SubSeq(keys, start + 1, end)[i] = keys[start + i]
  <2>1. start + 1 \in Int /\ end \in Int /\ \A i \in (start + 1) .. end : keys[i] \in Address
    BY <1>1, <1>2, <1>3
  <2>2. /\ SubSeq(keys, start + 1, end) \in Seq(Address)
        /\ Len(SubSeq(keys, start + 1, end)) =
             IF start + 1 <= end THEN end - (start + 1) + 1 ELSE 0
        /\ \A i \in 1 .. end - (start + 1) + 1 :
             SubSeq(keys, start + 1, end)[i] = keys[(start + 1) + i - 1]
    BY <2>1, SubSeqProperties
  <2>3. end - (start + 1) + 1 = end - start /\ start + 1 <= end
    BY <1>2, <1>3
  <2>4. \A i \in 1 .. (end - start) : (start + 1) + i - 1 = start + i
    BY <1>2, <1>3
  <2> QED
    BY <2>2, <2>3, <2>4
<1> QED
  BY <1>3, <1>5, <1>6 DEF start, end

-----------------------------------------------------------------------------
(* The answers *)

\* What may be known of an account whose history is had.
KnownIn(had, over, a, value) == value \in had[a] \/ (value = Null /\ a \in over)

\* What an account with the key may be answered with: something it has held, and
\* not from before since.
Serving(key, value, since, had) == value \in had[key] /\ since[key].version <= value.version

\* data is, in order, what each key may be answered with.
Served(keys, data, since, had) ==
  /\ Len(data) = Len(keys)
  /\ \A i \in DOMAIN keys : Serving(keys[i], data[i], since, had)

\* The responses are joined one after the other (fetcher.ts:384).
LEMMA JoinUnrolled ==
  ASSUME NEW V, NEW parts \in Seq(Seq(V))
  PROVE  \E g : /\ g[0] = <<>>
                /\ \A n \in 1 .. Len(parts) : g[n] = g[n - 1] \o parts[n]
                /\ FlattenSeq(parts) = g[Len(parts)]
<1> DEFINE N == Len(parts)
<1>1. N \in Nat /\ \A n \in 1 .. N : parts[n] \in Seq(V)
  BY LenProperties, ElementOfSeq
<1>2. CASE N = 0
  <2> DEFINE g == [n \in 0 .. 0 |-> <<>>]
  <2>1. parts = <<>>
    BY <1>2, EmptySeq
  <2>2. FlattenSeq(parts) = <<>>
    BY <1>2, <2>1 DEF FlattenSeq
  <2>3. g[0] = <<>>
    OBVIOUS
  <2> HIDE DEF g
  <2> QED
    BY <1>2, <2>2, <2>3
<1>3. CASE N # 0
  <2> DEFINE joined == CHOOSE f : f = [i \in 1 .. N |-> IF i = 1 THEN parts[i] ELSE f[i - 1] \o parts[i]]
  <2>1. FlattenSeq(parts) = joined[N]
    BY <1>3 DEF FlattenSeq
  <2> HIDE DEF N
  <2>2. joined = [i \in 1 .. N |-> IF i = 1 THEN parts[i] ELSE joined[i - 1] \o parts[i]]
    <3> DEFINE step == [t \in (1 .. N) \X Seq(V) |-> t[2] \o parts[t[1]]]
    <3>1. step \in [(1 .. N) \X Seq(V) -> Seq(V)]
      BY <1>1, ConcatProperties
    <3>2. \A n \in 1 .. N, s \in Seq(V) : step[<<n, s>>] = s \o parts[n]
      OBVIOUS
    <3>3. <<>> \in Seq(V)
      BY EmptySeq
    <3> HIDE DEF step
    <3>4. PICK g \in [0 .. N -> Seq(V)] : Loops(g, N, <<>>, step)
      BY <1>1, <3>1, <3>3, LoopExists
    <3> DEFINE h == [i \in 1 .. N |-> g[i]]
    <3>5. ASSUME NEW i \in 1 .. N PROVE g[i] = IF i = 1 THEN parts[i] ELSE h[i - 1] \o parts[i]
      <4>1. i - 1 \in 0 .. N /\ i \in 0 .. N
        BY <1>1
      <4>2. g[i - 1] \in Seq(V) /\ g[i] = g[i - 1] \o parts[i]
        BY <3>2, <3>4, <4>1 DEF Loops
      <4>3. CASE i = 1
        <5>1. g[i - 1] = <<>>
          BY <3>4, <4>3 DEF Loops
        <5>2. <<>> \o parts[i] = parts[i]
          BY <1>1, ConcatEmptySeq
        <5> QED
          BY <4>2, <4>3, <5>1, <5>2
      <4>4. CASE i # 1
        <5>1. i - 1 \in 1 .. N
          BY <1>1, <4>4
        <5> QED
          BY <4>2, <4>4, <5>1
      <4> QED
        BY <4>3, <4>4
    <3>6. h = [i \in 1 .. N |-> IF i = 1 THEN parts[i] ELSE h[i - 1] \o parts[i]]
      BY <3>5
    <3> HIDE DEF h
    <3> QED
      BY <3>6
  <2> HIDE DEF joined
  <2>3. \A i \in 1 .. N : joined[i] = IF i = 1 THEN parts[i] ELSE joined[i - 1] \o parts[i]
    BY <2>2
  <2> DEFINE g == [n \in 0 .. N |-> IF n = 0 THEN <<>> ELSE joined[n]]
  <2>4. g[0] = <<>> /\ \A n \in 1 .. N : g[n] = joined[n]
    BY <1>1
  <2> HIDE DEF g
  <2>5. ASSUME NEW n \in 1 .. N PROVE g[n] = g[n - 1] \o parts[n]
    <3>1. CASE n = 1
      <4>1. <<>> \o parts[n] = parts[n]
        BY <1>1, ConcatEmptySeq
      <4>2. g[n - 1] = <<>>
        BY <2>4, <3>1
      <4> QED
        BY <2>3, <2>4, <3>1, <4>1, <4>2
    <3>2. CASE n # 1
      <4>1. n - 1 \in 1 .. N
        BY <1>1, <3>2
      <4> QED
        BY <2>3, <2>4, <3>2, <4>1
    <3> QED
      BY <3>1, <3>2
  <2>6. N \in 1 .. N
    BY <1>1, <1>3
  <2>7. FlattenSeq(parts) = g[N]
    BY <2>1, <2>4, <2>6
  <2> QED
    BY <2>4, <2>5, <2>7 DEF N
<1> QED
  BY <1>2, <1>3

\* Responses that each hold the accounts of their own chunk join to the accounts
\* of the whole request, in its order.
LEMMA ChunksJoin ==
  ASSUME NEW keys \in Seq(Address), NEW parts \in Seq(Seq(Value)), NEW since, NEW had,
         Len(parts) = Chunks(keys),
         \A n \in DOMAIN parts : Served(ChunkOf(keys, n), parts[n], since, had)
  PROVE  FlattenSeq(parts) \in Seq(Value) /\ Served(keys, FlattenSeq(parts), since, had)
<1> DEFINE N == Len(parts)
           L == Len(keys)
           end(n) == IF n * CHUNK < L THEN n * CHUNK ELSE L
<1>1. PICK g : /\ g[0] = <<>>
               /\ \A n \in 1 .. N : g[n] = g[n - 1] \o parts[n]
               /\ FlattenSeq(parts) = g[N]
  BY JoinUnrolled
<1>2. /\ N \in Nat /\ DOMAIN parts = 1 .. N /\ L \in Nat /\ DOMAIN keys = 1 .. L
      /\ \A n \in 1 .. N : parts[n] \in Seq(Value)
  BY LenProperties, ElementOfSeq
<1>3. /\ N = Chunks(keys) /\ L <= N * CHUNK
      /\ \A n \in 0 .. N : /\ n * CHUNK \in Nat /\ (n + 1) * CHUNK = n * CHUNK + CHUNK
                           /\ n < N => n * CHUNK < L
  BY ChunkBounds
<1> DEFINE Good(s, n) == /\ s \in Seq(Value) /\ Len(s) = end(n)
                         /\ \A k \in 1 .. end(n) : Serving(keys[k], s[k], since, had)
           T == {n \in 0 .. N : Good(g[n], n)}
<1>4. 0 \in T
  <2>1. 0 * CHUNK = 0
    BY FetcherAssumption
  <2>2. end(0) = 0
    BY <1>2, <2>1
  <2> HIDE DEF end
  <2>3. Good(<<>>, 0)
    BY <2>2, EmptySeq
  <2> HIDE DEF Good
  <2> QED
    BY <1>1, <1>2, <2>3
<1>5. ASSUME NEW n \in 0 .. N, n \in T, n < N PROVE n + 1 \in T
  <2> DEFINE s == g[n]
             t == parts[n + 1]
             start == n * CHUNK
             stop == end(n + 1)
  <2>1. n + 1 \in 1 .. N /\ n + 1 \in 0 .. N /\ (n + 1) - 1 = n
    BY <1>2, <1>5
  <2>2. g[n + 1] = s \o t
    BY <1>1, <2>1
  <2>3. start \in Nat /\ start < L /\ end(n) = start
    BY <1>3, <1>5
  <2>4. /\ start < stop /\ stop \in Nat /\ stop <= L
        /\ Len(ChunkOf(keys, n + 1)) = stop - start
        /\ DOMAIN ChunkOf(keys, n + 1) = 1 .. (stop - start)
        /\ \A i \in 1 .. (stop - start) : ChunkOf(keys, n + 1)[i] = keys[start + i]
    BY <1>3, <1>5, ChunkProperties, LenProperties
  <2>5. /\ s \in Seq(Value) /\ Len(s) = start
        /\ \A k \in 1 .. start : Serving(keys[k], s[k], since, had)
    BY <1>5, <2>3
  <2>6. t \in Seq(Value) /\ Served(ChunkOf(keys, n + 1), t, since, had)
    BY <1>2, <2>1
  <2> HIDE DEF s, t, start, stop, end
  <2>7. /\ Len(t) = stop - start
        /\ \A i \in 1 .. (stop - start) : Serving(keys[start + i], t[i], since, had)
    BY <2>4, <2>6 DEF Served
  <2>8. /\ s \o t \in Seq(Value) /\ Len(s \o t) = start + (stop - start)
        /\ \A k \in 1 .. start + (stop - start) :
             (s \o t)[k] = IF k <= start THEN s[k] ELSE t[k - start]
    <3>1. /\ s \o t \in Seq(Value) /\ Len(s \o t) = Len(s) + Len(t)
          /\ \A k \in 1 .. Len(s) + Len(t) :
               (s \o t)[k] = IF k <= Len(s) THEN s[k] ELSE t[k - Len(s)]
      BY <2>5, <2>6, ConcatProperties, ZenonT(60)
    <3> QED
      BY <2>5, <2>7, <3>1
  <2>9. start + (stop - start) = stop
    BY <2>3, <2>4
  <2>10. ASSUME NEW k \in 1 .. stop
         PROVE  Serving(keys[k], (s \o t)[k], since, had)
    <3>1. CASE k <= start
      <4>1. k \in 1 .. start
        BY <2>3, <3>1
      <4>2. (s \o t)[k] = s[k]
        BY <2>8, <2>9, <3>1
      <4> QED
        BY <2>5, <4>1, <4>2
    <3>2. CASE ~(k <= start)
      <4>1. k - start \in 1 .. (stop - start) /\ start + (k - start) = k
        BY <2>3, <2>4, <3>2
      <4>2. (s \o t)[k] = t[k - start]
        BY <2>8, <2>9, <3>2
      <4>3. Serving(keys[start + (k - start)], t[k - start], since, had)
        BY <2>7, <4>1
      <4> QED
        BY <4>1, <4>2, <4>3
    <3> QED
      BY <3>1, <3>2
  <2>11. Good(s \o t, n + 1)
    BY <2>8, <2>9, <2>10 DEF stop
  <2> HIDE DEF Good
  <2> QED
    BY <2>1, <2>2, <2>11
<1> HIDE DEF Good
<1>6. \A n \in 0 .. N : n \in T
  <2> HIDE DEF T
  <2> QED
    BY <1>2, <1>4, <1>5, CountTo
<1>7. N \in 0 .. N
  BY <1>2
<1>8. Good(g[N], N)
  BY <1>6, <1>7
<1>9. end(N) = L
  <2>1. N * CHUNK \in Nat
    BY <1>3, <1>7
  <2> QED
    BY <1>2, <1>3, <2>1
<1> HIDE DEF end
<1> QED
  BY <1>1, <1>2, <1>8, <1>9 DEF Good, Served

-----------------------------------------------------------------------------
(* The inductive invariant *)

Serves(asked, answer, since, had) ==
  \/ answer = Unanswered
  \/ answer = RpcError
  \/ answer = Result(answer.data) /\ Served(asked, answer.data, since, had)

\* A call that waits began when the chain was no further than it is.
BegunBefore(c) ==
  Waiting(c) => \A a \in Address : call[c].since[a].version <= chain[a].version

\* Each answer holds the accounts of its own chunk of the request.
AnswersMatch(c) ==
  Waiting(c) =>
    IF call[c].kind = "pools"
    THEN /\ Len(call[c].answers) = 1
         /\ Serves(call[c].request, call[c].answers[1], call[c].since, held)
    ELSE /\ Len(call[c].answers) = Chunks(call[c].request)
         /\ \A i \in DOMAIN call[c].answers :
              Serves(ChunkOf(call[c].request, i), call[c].answers[i], call[c].since, held)

\* What a list has read from the cache is known of its account, was not read
\* at all under refresh, and what was not there is what it has asked for.
AsksForTheRest(c) ==
  Waiting(c) /\ call[c].kind = "read" =>
    /\ DOMAIN call[c].values = DOMAIN call[c].wanted
    /\ \A i \in DOMAIN call[c].values :
         call[c].values[i] # Undefined =>
           ~call[c].refresh /\ KnownIn(held, overrun, call[c].wanted[i], call[c].values[i])
    /\ call[c].request = [j \in DOMAIN Missing(call[c].values) |->
                            call[c].wanted[Missing(call[c].values)[j]]]

\* Entries keep their places, so a refresh of all has asked for the first ones.
RefreshesFromFirst(c) ==
  Waiting(c) /\ call[c].kind = "refreshAll" =>
    /\ Len(call[c].request) <= Len(cache)
    /\ \A i \in DOMAIN call[c].request : cache[i].key = call[c].request[i]

\* What was returned is known of its account, and is not older than the call if it
\* was to refresh.
ReturnsHeld(c) ==
  Has(c, "returned") =>
    /\ DOMAIN call[c].values = DOMAIN call[c].wanted
    /\ \A i \in DOMAIN call[c].wanted :
         /\ KnownIn(held, overrun, call[c].wanted[i], call[c].values[i])
         /\ call[c].refresh => call[c].values[i].version >= call[c].since[call[c].wanted[i]].version

FailedByRpc(c) == Has(c, "failed") => HasError(c)

CallInv(c) ==
  /\ BegunBefore(c) /\ AnswersMatch(c) /\ AsksForTheRest(c) /\ RefreshesFromFirst(c)
  /\ ReturnsHeld(c) /\ FailedByRpc(c)

CacheHeld == \A i \in DOMAIN cache : KnownIn(held, overrun, cache[i].key, cache[i].value)

\* The history holds what is on chain now.
ChainHeld == \A a \in Address : chain[a] \in held[a]

FetchIInv == TypeOK /\ ChainHeld /\ CacheHeld /\ \A c \in Calls : CallInv(c)

\* The stages of a call have different records.
LEMMA CallTypes ==
  ASSUME TypeOK, NEW c \in Calls
  PROVE  /\ Waiting(c) => call[c] \in WaitingCall
         /\ Has(c, "returned") => call[c] \in ReturnedCall
BY DEF TypeOK, Call, Waiting, Has, WaitingCall, ReturnedCall

\* Versions are naturals, and undefined is no account's data.
LEMMA Versions == \A v \in Value : v.version \in Int /\ v.version >= 0 /\ v # Undefined
BY FetcherAssumption DEF Value, Null, Undefined

\* The chain, what is known of it, and its history only go on.
Onward ==
  /\ \A a \in Address : chain[a].version <= chain'[a].version
  /\ \A a \in Address : held[a] \subseteq held'[a]
  /\ overrun \subseteq overrun'

\* What is known of an account stays known.
LEMMA KnownLater ==
  ASSUME Onward, NEW a \in Address, NEW value, KnownIn(held, overrun, a, value)
  PROVE  KnownIn(held', overrun', a, value)
BY DEF Onward, KnownIn

\* What was served stays so when the chain moves on.
LEMMA ServedLater ==
  ASSUME NEW keys, keys \in Seq(Address), NEW data, NEW since,
         NEW had, NEW later, \A a \in Address : had[a] \subseteq later[a],
         Served(keys, data, since, had)
  PROVE  Served(keys, data, since, later)
<1>1. \A i \in DOMAIN keys : keys[i] \in Address
  BY LenProperties, ElementOfSeq
<1> QED
  BY <1>1 DEF Served, Serving

\* A call that nothing happens to keeps its invariant while the chain and the
\* cache move on.
LEMMA OtherCallKept ==
  ASSUME TypeOK, NEW c \in Calls, CallInv(c), call'[c] = call[c],
         chain' \in [Address -> Value], Onward,
         cache' \in Seq(Entry), Len(cache) <= Len(cache'),
         \A i \in DOMAIN cache : cache'[i].key = cache[i].key
  PROVE  CallInv(c)'
<1>1. /\ chain \in [Address -> Value] /\ cache \in Seq(Entry)
      /\ \A a \in Address : chain[a].version \in Int /\ chain'[a].version \in Int
      /\ \A a \in Address : held[a] \subseteq held'[a]
  BY Versions DEF TypeOK, Entry, Onward
<1>2. BegunBefore(c)'
  <2> SUFFICES ASSUME Waiting(c), NEW a \in Address
               PROVE  call[c].since[a].version <= chain'[a].version
    BY DEF BegunBefore, Waiting
  <2>1. call[c].since[a].version <= chain[a].version /\ call[c].since[a].version \in Int
    BY CallTypes, Versions DEF CallInv, BegunBefore, WaitingCall
  <2> QED
    BY <1>1, <2>1 DEF Onward
<1>3. AnswersMatch(c)'
  <2> SUFFICES ASSUME Waiting(c)
               PROVE  IF call[c].kind = "pools"
                      THEN /\ Len(call[c].answers) = 1
                           /\ Serves(call[c].request, call[c].answers[1], call[c].since, held')
                      ELSE /\ Len(call[c].answers) = Chunks(call[c].request)
                           /\ \A i \in DOMAIN call[c].answers :
                                Serves(ChunkOf(call[c].request, i), call[c].answers[i],
                                       call[c].since, held')
    BY DEF AnswersMatch, Waiting
  <2>1. /\ call[c].request \in Seq(Address) /\ call[c].answers \in Seq(Answered)
    BY CallTypes DEF WaitingCall
  <2>3. ASSUME NEW i \in DOMAIN call[c].answers, NEW asked, asked \in Seq(Address),
               Serves(asked, call[c].answers[i], call[c].since, held)
        PROVE  Serves(asked, call[c].answers[i], call[c].since, held')
    BY <1>1, <2>3, ServedLater DEF Serves
  <2>4. CASE call[c].kind = "pools"
    <3>1. 1 \in DOMAIN call[c].answers
      BY <2>1, <2>4, LenProperties DEF CallInv, AnswersMatch
    <3> QED
      BY <2>1, <2>3, <2>4, <3>1 DEF CallInv, AnswersMatch
  <2>5. CASE call[c].kind # "pools"
    <3>1. Len(call[c].answers) = Chunks(call[c].request)
      BY <2>5 DEF CallInv, AnswersMatch
    <3>2. ASSUME NEW i \in DOMAIN call[c].answers PROVE ChunkOf(call[c].request, i) \in Seq(Address)
      <4>1. Chunks(call[c].request) \in Nat /\ i \in 1 .. Chunks(call[c].request)
        BY <2>1, <3>1, LenProperties
      <4>2. i - 1 \in 0 .. Chunks(call[c].request) /\ i - 1 < Chunks(call[c].request) /\ (i - 1) + 1 = i
        BY <4>1
      <4>3. ChunkOf(call[c].request, (i - 1) + 1) \in Seq(Address)
        BY <2>1, <4>2, ChunkProperties
      <4> QED
        BY <4>2, <4>3
    <3> QED
      BY <2>3, <2>5, <3>1, <3>2 DEF CallInv, AnswersMatch
  <2> QED
    BY <2>4, <2>5
<1>4. AsksForTheRest(c)'
  <2> SUFFICES ASSUME Waiting(c), call[c].kind = "read"
               PROVE  /\ DOMAIN call[c].values = DOMAIN call[c].wanted
                      /\ \A i \in DOMAIN call[c].values :
                           call[c].values[i] # Undefined =>
                             ~call[c].refresh /\ KnownIn(held', overrun', call[c].wanted[i], call[c].values[i])
                      /\ call[c].request = [j \in DOMAIN Missing(call[c].values) |->
                                              call[c].wanted[Missing(call[c].values)[j]]]
    BY DEF AsksForTheRest, Waiting
  <2>1. /\ DOMAIN call[c].values = DOMAIN call[c].wanted
        /\ \A i \in DOMAIN call[c].values :
             call[c].values[i] # Undefined =>
               ~call[c].refresh /\ KnownIn(held, overrun, call[c].wanted[i], call[c].values[i])
        /\ call[c].request = [j \in DOMAIN Missing(call[c].values) |->
                                call[c].wanted[Missing(call[c].values)[j]]]
    BY DEF CallInv, AsksForTheRest
  <2>2. \A i \in DOMAIN call[c].values : call[c].wanted[i] \in Address
    <3>1. call[c].wanted \in Seq(Address)
      BY CallTypes DEF WaitingCall
    <3> QED
      BY <2>1, <3>1, LenProperties, ElementOfSeq
  <2> QED
    BY <2>1, <2>2, KnownLater
<1>5. RefreshesFromFirst(c)'
  <2> SUFFICES ASSUME Waiting(c), call[c].kind = "refreshAll"
               PROVE  /\ Len(call[c].request) <= Len(cache')
                      /\ \A i \in DOMAIN call[c].request : cache'[i].key = call[c].request[i]
    BY DEF RefreshesFromFirst, Waiting
  <2>1. /\ Len(call[c].request) <= Len(cache)
        /\ \A i \in DOMAIN call[c].request : cache[i].key = call[c].request[i]
    BY DEF CallInv, RefreshesFromFirst
  <2>2. /\ Len(call[c].request) \in Nat /\ DOMAIN call[c].request = 1 .. Len(call[c].request)
        /\ Len(cache) \in Nat /\ DOMAIN cache = 1 .. Len(cache) /\ Len(cache') \in Nat
    BY <1>1, CallTypes, LenProperties DEF WaitingCall
  <2> QED
    BY <2>1, <2>2
<1>6. ReturnsHeld(c)'
  <2> SUFFICES ASSUME Has(c, "returned")
               PROVE  /\ DOMAIN call[c].values = DOMAIN call[c].wanted
                      /\ \A i \in DOMAIN call[c].wanted :
                           /\ KnownIn(held', overrun', call[c].wanted[i], call[c].values[i])
                           /\ call[c].refresh => call[c].values[i].version >= call[c].since[call[c].wanted[i]].version
    BY DEF ReturnsHeld, Has
  <2>1. /\ DOMAIN call[c].values = DOMAIN call[c].wanted
        /\ \A i \in DOMAIN call[c].wanted :
             /\ KnownIn(held, overrun, call[c].wanted[i], call[c].values[i])
             /\ call[c].refresh => call[c].values[i].version >= call[c].since[call[c].wanted[i]].version
    BY DEF CallInv, ReturnsHeld
  <2>2. \A i \in DOMAIN call[c].wanted : call[c].wanted[i] \in Address
    <3>1. call[c].wanted \in Seq(Address)
      BY CallTypes DEF ReturnedCall
    <3> QED
      BY <3>1, LenProperties, ElementOfSeq
  <2> QED
    BY <2>1, <2>2, KnownLater
<1>7. FailedByRpc(c)'
  BY DEF CallInv, FailedByRpc, Has, HasError
<1> QED
  BY <1>2, <1>3, <1>4, <1>5, <1>6, <1>7 DEF CallInv

\* So a step of one call is a matter of that call, the chain and the cache.
LEMMA OneCall ==
  ASSUME FetchIInv, NEW c, TypeOK', ChainHeld', CacheHeld',
         \A d \in Calls \ {c} : call'[d] = call[d], c \in Calls => CallInv(c)',
         Onward,
         Len(cache) <= Len(cache'), \A i \in DOMAIN cache : cache'[i].key = cache[i].key
  PROVE  FetchIInv'
<1>1. chain' \in [Address -> Value] /\ cache' \in Seq(Entry)
  BY DEF TypeOK, Entry
<1>2. \A d \in Calls \ {c} : CallInv(d)'
  BY <1>1, OtherCallKept DEF FetchIInv
<1> QED
  BY <1>2 DEF FetchIInv

-----------------------------------------------------------------------------
(* The actions *)

\* What is read from the cache for a key is undefined, or known of its account.
LEMMA CachedValueHeld ==
  ASSUME TypeOK, CacheHeld, NEW key \in Address
  PROVE  /\ CachedValue(key) \in Value \cup {Undefined}
         /\ CachedValue(key) # Undefined => KnownIn(held, overrun, key, CachedValue(key))
<1>1. CASE \E i \in DOMAIN cache : cache[i].key = key
  <2> DEFINE i == CHOOSE i \in DOMAIN cache : cache[i].key = key
  <2>1. i \in DOMAIN cache /\ cache[i].key = key
    BY <1>1
  <2>2. CachedValue(key) = cache[i].value
    BY <1>1 DEF CachedValue
  <2> HIDE DEF i
  <2>3. cache[i] \in [key : Address, value : Value]
    <3>1. cache \in Seq([key : Address, value : Value])
      BY DEF TypeOK
    <3> QED
      BY <2>1, <3>1, LenProperties, ElementOfSeq, ZenonT(60)
  <2> QED
    BY <2>1, <2>2, <2>3 DEF CacheHeld
<1>2. CASE ~\E i \in DOMAIN cache : cache[i].key = key
  BY <1>2 DEF CachedValue
<1> QED
  BY <1>1, <1>2

\* A call starts with requests for all it asks for, none of them answered.
LEMMA StartedType ==
  ASSUME TypeOK, NEW kind, kind \in {"read", "refreshAll", "pools"},
         NEW wanted, wanted \in Seq(Address), NEW values, values \in Seq(Value \cup {Undefined}),
         NEW refresh, refresh \in BOOLEAN, NEW request, request \in Seq(Address)
  PROVE  /\ Started(kind, wanted, values, refresh, request) \in WaitingCall
         /\ Len(Started(kind, wanted, values, refresh, request).answers) = Chunks(request)
         /\ DOMAIN Started(kind, wanted, values, refresh, request).answers = 1 .. Chunks(request)
         /\ \A i \in 1 .. Chunks(request) :
              Started(kind, wanted, values, refresh, request).answers[i] = Unanswered
<1> DEFINE answers == [i \in 1 .. Chunks(request) |-> Unanswered]
<1>1. Chunks(request) \in Nat
  BY ChunkBounds
<1>2. Unanswered \in Answered
  BY EmptySeq DEF Unanswered, Answered
<1>3. answers \in Seq(Answered) /\ Len(answers) = Chunks(request)
  BY <1>1, <1>2
<1>4. \A i \in 1 .. Chunks(request) : answers[i] = Unanswered
  OBVIOUS
<1>5. DOMAIN answers = 1 .. Chunks(request)
  OBVIOUS
<1>6. chain \in [Address -> Value]
  BY DEF TypeOK
<1>7. Started(kind, wanted, values, refresh, request) =
        [status |-> "waiting", kind |-> kind, wanted |-> wanted, values |-> values,
         refresh |-> refresh, request |-> request, since |-> chain, answers |-> answers]
  BY DEF Started
<1> HIDE DEF answers
<1> QED
  BY <1>3, <1>4, <1>5, <1>6, <1>7 DEF WaitingCall

\* Initially nothing is cached, and no call is under way.
LEMMA FetchInit == ASSUME Init PROVE FetchIInv
<1>1. /\ chain \in [Address -> Value]
      /\ held = [a \in Address |-> {chain[a]}] /\ overrun = {}
  <2>1. Null \in Value /\ \A a \in Address : Account(a, 1) \in Value
    BY FetcherAssumption DEF Value, Account
  <2> QED
    BY <2>1 DEF Init
<1>2. /\ cache = <<>> /\ cache \in Seq([key : Address, value : Value]) /\ DOMAIN cache = {}
      /\ call = [c \in Calls |-> [status |-> "idle"]]
  BY EmptySeq DEF Init
<1>3. call \in [Calls -> Call]
  BY <1>2 DEF Call
<1>4. TypeOK /\ ChainHeld /\ CacheHeld
  BY <1>1, <1>2, <1>3 DEF TypeOK, ChainHeld, CacheHeld
<1>5. \A c \in Calls : ~Waiting(c) /\ ~Has(c, "returned") /\ ~Has(c, "failed")
  BY <1>2 DEF Waiting, Has
<1> QED
  BY <1>4, <1>5 DEF FetchIInv, CallInv, BegunBefore, AnswersMatch, AsksForTheRest,
                    RefreshesFromFirst, ReturnsHeld, FailedByRpc

\* A call that has just started: nothing is answered, and the chain is as it was.
LEMMA StartKeeps ==
  ASSUME FetchIInv, NEW c \in Calls, ~Waiting(c), chain' = chain, cache' = cache,
         held' = held, overrun' = overrun,
         NEW started, started \in WaitingCall, call' = [call EXCEPT ![c] = started],
         started.since = chain, \A i \in DOMAIN started.answers : started.answers[i] = Unanswered,
         started.kind = "pools" => Len(started.answers) = 1,
         started.kind # "pools" => Len(started.answers) = Chunks(started.request),
         AsksForTheRest(c)', RefreshesFromFirst(c)'
  PROVE  FetchIInv'
<1>1. call'[c] = started /\ \A d \in Calls \ {c} : call'[d] = call[d]
  BY DEF FetchIInv, TypeOK
<1>2. call' \in [Calls -> Call]
  BY DEF FetchIInv, TypeOK, Call
<1>3. TypeOK' /\ ChainHeld' /\ CacheHeld'
  BY <1>2 DEF FetchIInv, TypeOK, ChainHeld, CacheHeld
<1>4. Waiting(c)' /\ ~Has(c, "returned")' /\ ~Has(c, "failed")'
  BY <1>1 DEF Waiting, Has, WaitingCall
<1>5. Onward
  BY Versions DEF FetchIInv, TypeOK, Onward
<1>6. BegunBefore(c)'
  BY <1>1, <1>5 DEF BegunBefore, Onward
<1>7. AnswersMatch(c)'
  <2>1. Len(started.answers) = 1 => 1 \in DOMAIN started.answers
    BY LenProperties DEF WaitingCall
  <2> QED
    BY <1>1, <2>1 DEF AnswersMatch, Serves
<1>8. CallInv(c)'
  BY <1>4, <1>6, <1>7 DEF CallInv, ReturnsHeld, FailedByRpc
<1>9. /\ Len(cache) <= Len(cache)
      /\ \A i \in DOMAIN cache : cache[i].key = cache[i].key
  BY LenProperties DEF FetchIInv, TypeOK
<1> QED
  BY <1>1, <1>3, <1>5, <1>8, <1>9, OneCall

\* A call that has ended: what it returns was on chain, and the cache only grows.
LEMMA EndKeeps ==
  ASSUME FetchIInv, NEW c \in Calls, chain' = chain, held' = held,
         overrun \subseteq overrun', overrun' \subseteq Address,
         NEW ended, ended \in Call, call' = [call EXCEPT ![c] = ended],
         ended.status = "returned" \/ ended.status = "failed",
         ReturnsHeld(c)', FailedByRpc(c)',
         cache' \in Seq(Entry), KeysOnce(cache'), CacheHeld', Len(cache) <= Len(cache'),
         \A i \in DOMAIN cache : cache'[i].key = cache[i].key
  PROVE  FetchIInv'
<1>1. call'[c] = ended /\ \A d \in Calls \ {c} : call'[d] = call[d]
  BY DEF FetchIInv, TypeOK
<1>2. call' \in [Calls -> Call]
  BY DEF FetchIInv, TypeOK
<1>3. TypeOK' /\ ChainHeld'
  BY <1>2 DEF FetchIInv, TypeOK, ChainHeld, KeysOnce, Entry
<1>4. ~Waiting(c)'
  BY <1>1 DEF Waiting
<1>5. CallInv(c)'
  BY <1>4 DEF CallInv, BegunBefore, AnswersMatch, AsksForTheRest, RefreshesFromFirst
<1>6. Onward
  BY Versions DEF FetchIInv, TypeOK, Onward
<1> QED
  BY <1>1, <1>3, <1>5, <1>6, OneCall

\* get and list: what is cached is taken, and the rest asked for.
LEMMA ReadKeeps ==
  ASSUME FetchIInv, NEW c \in Calls, NEW wanted \in Wanted, NEW refresh \in BOOLEAN,
         Read(c, wanted, refresh)
  PROVE  FetchIInv'
<1> DEFINE values  == CachedValues(wanted, refresh)
           missing == Missing(values)
           request == [j \in DOMAIN missing |-> wanted[missing[j]]]
<1>1. /\ wanted \in Seq(Address) /\ Len(wanted) \in Nat /\ DOMAIN wanted = 1 .. Len(wanted)
      /\ \A i \in DOMAIN wanted : wanted[i] \in Address
  BY FetcherAssumption, LenProperties, ElementOfSeq
<1>2. TypeOK /\ CacheHeld
  BY DEF FetchIInv
<1>3. /\ values \in Seq(Value \cup {Undefined}) /\ DOMAIN values = DOMAIN wanted
      /\ \A i \in DOMAIN values :
           values[i] # Undefined => ~refresh /\ KnownIn(held, overrun, wanted[i], values[i])
  <2>1. \A i \in DOMAIN wanted :
          /\ values[i] = IF refresh THEN Undefined ELSE CachedValue(wanted[i])
          /\ values[i] \in Value \cup {Undefined}
    BY <1>1, <1>2, CachedValueHeld DEF CachedValues
  <2>2. values = [i \in 1 .. Len(wanted) |-> values[i]] /\ DOMAIN values = 1 .. Len(wanted)
    BY <1>1 DEF CachedValues
  <2> HIDE DEF values
  <2>3. values \in Seq(Value \cup {Undefined})
    BY <1>1, <2>1, <2>2
  <2> QED
    BY <1>1, <1>2, <2>1, <2>2, <2>3, CachedValueHeld
<1>4. /\ ~Waiting(c) /\ chain' = chain /\ cache' = cache /\ held' = held /\ overrun' = overrun
      /\ call' = [call EXCEPT ![c] =
           IF missing = <<>> THEN Returned(wanted, values, refresh, chain)
           ELSE Started("read", wanted, values, refresh, request)]
  BY DEF Read
<1> HIDE DEF values
<1>5. /\ missing \in Seq(DOMAIN values)
      /\ \A i \in DOMAIN values : values[i] = Undefined => \E j \in DOMAIN missing : missing[j] = i
  BY <1>3, MissingProperties
<1> HIDE DEF missing
<1>6. /\ Len(missing) \in Nat /\ DOMAIN missing = 1 .. Len(missing)
      /\ \A j \in DOMAIN missing : missing[j] \in DOMAIN values
  BY <1>5, LenProperties, ElementOfSeq
<1>7. CASE missing = <<>>
  <2> DEFINE ended == Returned(wanted, values, refresh, chain)
  <2>1. \A i \in DOMAIN values : values[i] # Undefined
    BY <1>5, <1>7
  <2>2. values \in Seq(Value)
    <3>1. \A i \in DOMAIN values : values[i] \in Value
      BY <1>3, <2>1, LenProperties, ElementOfSeq
    <3>2. Len(values) \in Nat /\ values = [i \in 1 .. Len(values) |-> values[i]]
          /\ DOMAIN values = 1 .. Len(values)
      BY <1>3, LenProperties
    <3> QED
      BY <3>1, <3>2
  <2>3. ended \in ReturnedCall /\ ended.status = "returned"
    BY <1>1, <1>2, <2>2 DEF Returned, ReturnedCall, TypeOK
  <2>4. call'[c] = ended /\ call' = [call EXCEPT ![c] = ended]
    BY <1>2, <1>4, <1>7 DEF TypeOK
  <2>5. ReturnsHeld(c)'
    BY <1>3, <1>4, <2>1, <2>4 DEF ReturnsHeld, Returned, Has
  <2>6. FailedByRpc(c)'
    BY <2>3, <2>4 DEF FailedByRpc, Has
  <2>7. /\ cache' \in Seq(Entry) /\ KeysOnce(cache') /\ CacheHeld'
        /\ Len(cache) <= Len(cache') /\ \A i \in DOMAIN cache : cache'[i].key = cache[i].key
    BY <1>2, <1>4, LenProperties DEF TypeOK, Entry, KeysOnce, CacheHeld, KnownIn
  <2>8. overrun \subseteq overrun' /\ overrun' \subseteq Address
    BY <1>2, <1>4 DEF TypeOK
  <2> HIDE DEF ended
  <2> QED
    BY <1>4, <2>3, <2>4, <2>5, <2>6, <2>7, <2>8, EndKeeps DEF Call
<1>8. CASE missing # <<>>
  <2> DEFINE started == Started("read", wanted, values, refresh, request)
  <2>1. request \in Seq(Address)
    BY <1>1, <1>3, <1>6
  <2> HIDE DEF request
  <2>2. /\ started \in WaitingCall /\ Len(started.answers) = Chunks(request)
        /\ \A i \in DOMAIN started.answers : started.answers[i] = Unanswered
    BY <1>1, <1>2, <1>3, <2>1, StartedType
  <2>3. /\ started.since = chain /\ started.kind = "read" /\ started.request = request
        /\ started.values = values /\ started.wanted = wanted /\ started.refresh = refresh
    BY DEF Started
  <2> HIDE DEF started
  <2>4. call'[c] = started /\ call' = [call EXCEPT ![c] = started]
    BY <1>2, <1>4, <1>8 DEF TypeOK, started
  <2>5. AsksForTheRest(c)'
    BY <1>3, <1>4, <2>3, <2>4 DEF AsksForTheRest, request, missing
  <2>6. RefreshesFromFirst(c)'
    BY <2>3, <2>4 DEF RefreshesFromFirst
  <2> QED
    BY <1>4, <2>2, <2>3, <2>4, <2>5, <2>6, StartKeeps
<1> QED
  BY <1>7, <1>8

\* refreshAll starts with a request for the keys it is given.
LEMMA RefreshAllStarts ==
  ASSUME TypeOK, NEW request, request \in Seq(Address)
  PROVE  /\ Started("refreshAll", <<>>, <<>>, TRUE, request) \in WaitingCall
         /\ Len(Started("refreshAll", <<>>, <<>>, TRUE, request).answers) = Chunks(request)
         /\ DOMAIN Started("refreshAll", <<>>, <<>>, TRUE, request).answers = 1 .. Chunks(request)
         /\ \A i \in 1 .. Chunks(request) :
              Started("refreshAll", <<>>, <<>>, TRUE, request).answers[i] = Unanswered
<1> DEFINE answers == [i \in 1 .. Chunks(request) |-> Unanswered]
<1>1. /\ answers \in Seq(Answered) /\ Len(answers) = Chunks(request)
      /\ DOMAIN answers = 1 .. Chunks(request)
      /\ \A i \in 1 .. Chunks(request) : answers[i] = Unanswered
  <2>1. Chunks(request) \in Nat
    BY ChunkBounds
  <2>2. Unanswered \in Answered
    BY EmptySeq DEF Unanswered, Answered
  <2> QED
    BY <2>1, <2>2
<1>2. Started("refreshAll", <<>>, <<>>, TRUE, request) =
        [status |-> "waiting", kind |-> "refreshAll", wanted |-> <<>>, values |-> <<>>,
         refresh |-> TRUE, request |-> request, since |-> chain, answers |-> answers]
  BY DEF Started
<1>3. chain \in [Address -> Value]
  BY DEF TypeOK
<1> HIDE DEF answers
<1>4. ASSUME NEW refresh \in BOOLEAN
      PROVE  LET started == [status |-> "waiting", kind |-> "refreshAll", wanted |-> <<>>,
                             values |-> <<>>, refresh |-> refresh, request |-> request,
                             since |-> chain, answers |-> answers]
             IN  started \in WaitingCall /\ started.answers = answers
  BY <1>1, <1>3, EmptySeq DEF WaitingCall
<1>5. TRUE \in BOOLEAN
  OBVIOUS
<1>6. /\ Started("refreshAll", <<>>, <<>>, TRUE, request) \in WaitingCall
      /\ Started("refreshAll", <<>>, <<>>, TRUE, request).answers = answers
  BY <1>2, <1>4, <1>5, Zenon
<1> QED
  BY <1>1, <1>6, Zenon

\* refreshAll asks for what is cached, in the cache's order (fetcher.ts:292).
LEMMA RefreshAllKeeps ==
  ASSUME FetchIInv, NEW c \in Calls, RefreshAll(c)
  PROVE  FetchIInv'
<1> DEFINE request == [i \in DOMAIN cache |-> cache[i].key]
           started == Started("refreshAll", <<>>, <<>>, TRUE, request)
<1>1. /\ TypeOK /\ ~Waiting(c) /\ chain' = chain /\ cache' = cache
      /\ held' = held /\ overrun' = overrun
      /\ call' = [call EXCEPT ![c] = started] /\ call'[c] = started
  BY DEF RefreshAll, FetchIInv, TypeOK
<1>2. /\ Len(cache) \in Nat /\ DOMAIN cache = 1 .. Len(cache)
      /\ \A i \in DOMAIN cache : cache[i].key \in Address
  <2>1. cache \in Seq(Entry)
    BY <1>1 DEF TypeOK, Entry
  <2>2. \A entry \in Entry : entry.key \in Address
    BY DEF Entry
  <2> QED
    BY <2>1, <2>2, LenProperties, ElementOfSeq
<1>3. request \in Seq(Address) /\ Len(request) = Len(cache) /\ DOMAIN request = DOMAIN cache
      /\ \A i \in DOMAIN request : cache[i].key = request[i]
  BY <1>2
<1> HIDE DEF request
<1>4. /\ started \in WaitingCall /\ Len(started.answers) = Chunks(request)
      /\ \A i \in DOMAIN started.answers : started.answers[i] = Unanswered
  <2>1. /\ started \in WaitingCall /\ Len(started.answers) = Chunks(request)
        /\ DOMAIN started.answers = 1 .. Chunks(request)
        /\ \A i \in 1 .. Chunks(request) : started.answers[i] = Unanswered
    BY <1>1, <1>3, RefreshAllStarts
  <2> QED
    BY <2>1
<1>5. started.since = chain /\ started.kind = "refreshAll" /\ started.request = request
  BY DEF Started
<1> HIDE DEF started
<1>6. AsksForTheRest(c)'
  BY <1>1, <1>5 DEF AsksForTheRest
<1>7. RefreshesFromFirst(c)'
  BY <1>1, <1>2, <1>3, <1>5 DEF RefreshesFromFirst
<1> QED
  BY <1>1, <1>4, <1>5, <1>6, <1>7, StartKeeps

\* listPoolsWithParams makes one request.
LEMMA ListPoolsKeeps ==
  ASSUME FetchIInv, NEW c \in Calls, ListPoolsWithParams(c)
  PROVE  FetchIInv'
<1> DEFINE plain   == Started("pools", <<>>, <<>>, TRUE, <<>>)
           started == [plain EXCEPT !.answers = <<Unanswered>>]
<1>1. /\ TypeOK /\ ~Waiting(c) /\ chain' = chain /\ cache' = cache
      /\ held' = held /\ overrun' = overrun
      /\ call' = [call EXCEPT ![c] = started] /\ call'[c] = started
  BY DEF ListPoolsWithParams, FetchIInv, TypeOK
<1>2. plain \in WaitingCall
  BY <1>1, StartedType, EmptySeq
<1>3. <<Unanswered>> \in Seq(Answered) /\ Len(<<Unanswered>>) = 1 /\ DOMAIN <<Unanswered>> = 1 .. 1
      /\ \A i \in 1 .. 1 : <<Unanswered>>[i] = Unanswered
  BY EmptySeq DEF Unanswered, Answered
<1>4. plain.since = chain /\ plain.kind = "pools"
  BY DEF Started
<1> HIDE DEF plain
<1>5. /\ started \in WaitingCall /\ started.answers = <<Unanswered>>
      /\ started.since = chain /\ started.kind = "pools"
  BY <1>2, <1>3, <1>4 DEF WaitingCall
<1> HIDE DEF started
<1>6. AsksForTheRest(c)' /\ RefreshesFromFirst(c)'
  BY <1>1, <1>5 DEF AsksForTheRest, RefreshesFromFirst
<1> QED
  BY <1>1, <1>3, <1>5, <1>6, StartKeeps

\* When all answers are there and none is an error, what they hold together is
\* complete, and in the order it was asked for.
LEMMA AnswersComplete ==
  ASSUME FetchIInv, NEW c \in Calls, Waiting(c), AllAnswered(c), ~HasError(c)
  PROVE  Data(c) \in Seq(Value) /\ Served(call[c].request, Data(c), call[c].since, held)
<1> DEFINE answers == call[c].answers
           parts   == [i \in DOMAIN answers |-> answers[i].data]
<1>1. call[c] \in WaitingCall /\ AnswersMatch(c)
  BY CallTypes DEF FetchIInv, CallInv
<1>2. call[c].request \in Seq(Address) /\ answers \in Seq(Answered)
  BY <1>1 DEF WaitingCall
<1>3. /\ Len(answers) \in Nat /\ DOMAIN answers = 1 .. Len(answers)
      /\ \A i \in DOMAIN answers : answers[i].data \in Seq(Value)
  <2>1. \A answer \in Answered : answer.data \in Seq(Value)
    BY DEF Answered
  <2> QED
    BY <1>2, <2>1, LenProperties, ElementOfSeq
<1>4. \A i \in DOMAIN answers : answers[i] # Unanswered /\ answers[i] # RpcError
  BY DEF AllAnswered, HasError
<1>5. Data(c) = FlattenSeq(parts)
  BY DEF Data
<1> HIDE DEF answers
<1>6. parts \in Seq(Seq(Value)) /\ Len(parts) = Len(answers) /\ DOMAIN parts = DOMAIN answers
      /\ \A i \in DOMAIN answers : parts[i] = answers[i].data
  BY <1>3
<1> HIDE DEF parts
<1>7. CASE call[c].kind = "pools"
  <2>1. Len(answers) = 1 /\ Served(call[c].request, answers[1].data, call[c].since, held)
    <3>1. Len(answers) = 1 /\ Serves(call[c].request, answers[1], call[c].since, held)
      BY <1>1, <1>7 DEF AnswersMatch, answers
    <3>2. 1 \in DOMAIN answers
      BY <1>3, <3>1
    <3> QED
      BY <1>4, <3>1, <3>2 DEF Serves
  <2>2. FlattenSeq(parts) = parts[1]
    <3>1. PICK g : /\ g[0] = <<>>
                   /\ \A n \in 1 .. Len(parts) : g[n] = g[n - 1] \o parts[n]
                   /\ FlattenSeq(parts) = g[Len(parts)]
      BY <1>6, JoinUnrolled
    <3>2. 1 \in 1 .. Len(parts) /\ Len(parts) = 1 /\ 1 - 1 = 0
      BY <1>6, <2>1
    <3>3. g[1] = g[1 - 1] \o parts[1] /\ FlattenSeq(parts) = g[1]
      BY <3>1, <3>2
    <3>4. g[1] = <<>> \o parts[1]
      BY <3>1, <3>2, <3>3
    <3>5. parts[1] \in Seq(Value)
      BY <1>6, <3>2, ElementOfSeq
    <3> QED
      BY <3>3, <3>4, <3>5, ConcatEmptySeq
  <2>3. parts[1] = answers[1].data /\ parts[1] \in Seq(Value)
    BY <1>3, <1>6, <2>1
  <2> QED
    BY <1>5, <2>1, <2>2, <2>3
<1>8. CASE call[c].kind # "pools"
  <2>1. /\ Len(answers) = Chunks(call[c].request)
        /\ \A i \in DOMAIN answers :
             Serves(ChunkOf(call[c].request, i), answers[i], call[c].since, held)
    BY <1>1, <1>8 DEF AnswersMatch, answers
  <2>2. \A i \in DOMAIN parts : Served(ChunkOf(call[c].request, i), parts[i], call[c].since, held)
    BY <1>4, <1>6, <2>1 DEF Serves
  <2> QED
    BY <1>2, <1>5, <1>6, <2>1, <2>2, ChunksJoin
<1> QED
  BY <1>7, <1>8

\* What is put into the cache for an answered request has been on chain, each
\* account's under its own key.
LEMMA PutAllKeeps ==
  ASSUME FetchIInv, NEW c \in Calls, Waiting(c), Complete(c), held' = held, overrun' = overrun,
         cache' = PutAll(call[c].request, Data(c))
  PROVE  /\ cache' \in Seq(Entry) /\ KeysOnce(cache') /\ CacheHeld' /\ Len(cache) <= Len(cache')
         /\ \A i \in DOMAIN cache : cache'[i].key = cache[i].key
<1>1. Data(c) \in Seq(Value) /\ Served(call[c].request, Data(c), call[c].since, held)
  BY AnswersComplete DEF Complete
<1>2. call[c].request \in Seq(Address)
  BY CallTypes DEF FetchIInv, WaitingCall
<1>3. cache \in Seq(Entry) /\ KeysOnce(cache) /\ CacheHeld
  BY DEF FetchIInv, TypeOK, Entry, KeysOnce
<1> DEFINE new == PutAll(call[c].request, Data(c))
<1>4. /\ new \in Seq(Entry) /\ KeysOnce(new) /\ Len(cache) <= Len(new)
      /\ \A i \in DOMAIN cache : new[i].key = cache[i].key
      /\ \A i \in DOMAIN new :
           \/ i \in DOMAIN cache /\ new[i] = cache[i]
           \/ \E n \in DOMAIN call[c].request :
                new[i] = [key |-> call[c].request[n], value |-> Data(c)[n]]
  BY <1>1, <1>2, <1>3, PutAllProperties DEF Served
<1> HIDE DEF new
<1>5. \A i \in DOMAIN new : KnownIn(held, overrun, new[i].key, new[i].value)
  <2> SUFFICES ASSUME NEW i \in DOMAIN new PROVE KnownIn(held, overrun, new[i].key, new[i].value)
    OBVIOUS
  <2>1. CASE i \in DOMAIN cache /\ new[i] = cache[i]
    BY <1>3, <2>1 DEF CacheHeld
  <2>2. CASE \E n \in DOMAIN call[c].request :
               new[i] = [key |-> call[c].request[n], value |-> Data(c)[n]]
    BY <1>1, <2>2 DEF Served, Serving, KnownIn
  <2> QED
    BY <1>4, <2>1, <2>2
<1>6. cache' = new
  BY DEF new
<1> QED
  BY <1>4, <1>5, <1>6 DEF CacheHeld

\* A list that has its answers returns a value for each account: the cached one,
\* or the one the request for it has brought (fetcher.ts:353-366).
LEMMA ReadEndKeeps ==
  ASSUME FetchIInv, NEW c \in Calls, ReadEnd(c)
  PROVE  FetchIInv'
<1> DEFINE k       == call[c]
           missing == Missing(k.values)
           result  == [i \in DOMAIN k.values |->
                         IF k.values[i] # Undefined THEN k.values[i]
                         ELSE Data(c)[CHOOSE j \in DOMAIN missing : missing[j] = i]]
           ended   == Returned(k.wanted, result, k.refresh, k.since)
<1>1. /\ Waiting(c) /\ k.kind = "read" /\ Complete(c) /\ chain' = chain
      /\ held' = held /\ overrun' = overrun /\ cache' = PutAll(k.request, Data(c))
      /\ call' = [call EXCEPT ![c] = ended] /\ call'[c] = ended
  BY DEF ReadEnd, FetchIInv, TypeOK
<1>2. /\ cache' \in Seq(Entry) /\ KeysOnce(cache') /\ CacheHeld' /\ Len(cache) <= Len(cache')
      /\ \A i \in DOMAIN cache : cache'[i].key = cache[i].key
  BY <1>1, PutAllKeeps
<1>3. /\ Data(c) \in Seq(Value) /\ Served(k.request, Data(c), k.since, held)
  BY <1>1, AnswersComplete DEF Complete
<1>4. k \in WaitingCall /\ AsksForTheRest(c)
  BY <1>1, CallTypes DEF FetchIInv, CallInv
<1>5. /\ k.values \in Seq(Value \cup {Undefined}) /\ k.wanted \in Seq(Address)
      /\ k.refresh \in BOOLEAN /\ k.since \in [Address -> Value] /\ k.request \in Seq(Address)
  BY <1>4 DEF WaitingCall
<1>6. /\ DOMAIN k.values = DOMAIN k.wanted
      /\ \A i \in DOMAIN k.values :
           k.values[i] # Undefined => ~k.refresh /\ KnownIn(held, overrun, k.wanted[i], k.values[i])
      /\ k.request = [j \in DOMAIN missing |-> k.wanted[missing[j]]]
  BY <1>1, <1>4 DEF AsksForTheRest
<1>7. /\ missing \in Seq(DOMAIN k.values)
      /\ \A i \in DOMAIN k.values :
           k.values[i] = Undefined => \E j \in DOMAIN missing : missing[j] = i
  BY <1>5, MissingProperties
<1> HIDE DEF missing
<1>8. ASSUME NEW i \in DOMAIN k.values
      PROVE  /\ result[i] \in Value
             /\ KnownIn(held, overrun, k.wanted[i], result[i])
             /\ k.refresh => result[i].version >= k.since[k.wanted[i]].version
  <2>1. CASE k.values[i] # Undefined
    <3>1. k.values[i] \in Value
      BY <1>5, <2>1, LenProperties, ElementOfSeq
    <3> QED
      BY <1>6, <2>1, <3>1
  <2>2. CASE k.values[i] = Undefined
    <3> DEFINE j == CHOOSE j \in DOMAIN missing : missing[j] = i
    <3>1. j \in DOMAIN missing /\ missing[j] = i
      BY <1>7, <2>2
    <3>2. result[i] = Data(c)[j]
      BY <2>2
    <3> HIDE DEF j
    <3>3. j \in DOMAIN k.request /\ k.request[j] = k.wanted[i]
      BY <1>6, <3>1
    <3>4. /\ k.since[k.request[j]].version <= Data(c)[j].version
          /\ KnownIn(held, overrun, k.request[j], Data(c)[j])
      BY <1>3, <3>3 DEF Served, Serving, KnownIn
    <3>5. Data(c)[j] \in Value
      <4>1. j \in 1 .. Len(Data(c))
        BY <1>3, <1>5, <3>3, LenProperties DEF Served
      <4> QED
        BY <1>3, <4>1, ElementOfSeq
    <3>6. k.since[k.request[j]].version \in Int /\ Data(c)[j].version \in Int
      <4>1. k.request[j] \in Address
        BY <1>5, <3>3, LenProperties, ElementOfSeq
      <4> QED
        BY <1>5, <3>5, <4>1, Versions
    <3> QED
      BY <3>2, <3>3, <3>4, <3>5, <3>6
  <2> QED
    BY <2>1, <2>2
<1>9. result \in Seq(Value) /\ DOMAIN result = DOMAIN k.wanted
  <2>1. /\ Len(k.values) \in Nat /\ DOMAIN result = 1 .. Len(k.values)
        /\ result = [i \in 1 .. Len(k.values) |-> result[i]]
    BY <1>5, LenProperties
  <2>2. DOMAIN k.values = 1 .. Len(k.values) /\ DOMAIN result = DOMAIN k.values
    BY <1>5, LenProperties
  <2> HIDE DEF result
  <2> QED
    BY <1>6, <1>8, <2>1, <2>2
<1> HIDE DEF result
<1>10. ended \in ReturnedCall /\ ended.status = "returned"
  BY <1>5, <1>9 DEF Returned, ReturnedCall
<1>11. ReturnsHeld(c)'
  <2>1. /\ ended.values = result /\ ended.wanted = k.wanted
        /\ ended.refresh = k.refresh /\ ended.since = k.since
    BY DEF Returned
  <2> HIDE DEF ended, k
  <2>2. SUFFICES /\ DOMAIN ended.values = DOMAIN ended.wanted
                 /\ \A i \in DOMAIN ended.wanted :
                      /\ KnownIn(held, overrun, ended.wanted[i], ended.values[i])
                      /\ ended.refresh =>
                           ended.values[i].version >= ended.since[ended.wanted[i]].version
    BY <1>1 DEF ReturnsHeld
  <2> QED
    BY <1>6, <1>8, <1>9, <2>1
<1>12. FailedByRpc(c)'
  BY <1>1, <1>10 DEF FailedByRpc, Has
<1>13. overrun \subseteq overrun' /\ overrun' \subseteq Address
  BY <1>1 DEF FetchIInv, TypeOK
<1> HIDE DEF ended
<1> QED
  BY <1>1, <1>2, <1>10, <1>11, <1>12, <1>13, EndKeeps DEF Call

\* The i-th entry there is now gets the i-th account that was asked for, and keys
\* keep their places: it is the account of its own key (fetcher.ts:295).
LEMMA RefreshAllEndKeeps ==
  ASSUME FetchIInv, NEW c \in Calls, RefreshAllEnd(c)
  PROVE  /\ FetchIInv'
         /\ Len(cache') = Len(cache)
         /\ \A i \in DOMAIN call[c].request :
              i \in DOMAIN cache' /\ cache'[i].value.version >= call[c].since[cache'[i].key].version
<1> DEFINE k     == call[c]
           data  == Data(c)
           new   == [i \in DOMAIN cache |-> UpdatedEntry(i, data)]
           ended == Returned(<<>>, <<>>, TRUE, k.since)
<1>1. /\ TypeOK /\ CacheHeld /\ Waiting(c) /\ k.kind = "refreshAll" /\ Complete(c) /\ chain' = chain
      /\ held' = held /\ overrun' = overrun \cup (Keys \ Range(k.request))
      /\ cache' = new /\ call' = [call EXCEPT ![c] = ended] /\ call'[c] = ended
  BY DEF RefreshAllEnd, FetchIInv, TypeOK
<1>2. data \in Seq(Value) /\ Served(k.request, data, k.since, held)
  BY <1>1, AnswersComplete DEF Complete
<1>3. k \in WaitingCall /\ RefreshesFromFirst(c)
  BY <1>1, CallTypes DEF FetchIInv, CallInv
<1>4. k.request \in Seq(Address) /\ k.since \in [Address -> Value]
  BY <1>3 DEF WaitingCall
<1>5. /\ Len(k.request) <= Len(cache)
      /\ \A i \in DOMAIN k.request : cache[i].key = k.request[i]
  BY <1>1, <1>3 DEF RefreshesFromFirst
<1>6. /\ cache \in Seq(Entry) /\ Len(cache) \in Nat /\ DOMAIN cache = 1 .. Len(cache)
      /\ \A i \in DOMAIN cache : cache[i] \in Entry
  <2>1. cache \in Seq(Entry)
    BY <1>1 DEF TypeOK, Entry
  <2> QED
    BY <2>1, LenProperties, ElementOfSeq
<1>7. /\ Len(k.request) \in Nat /\ DOMAIN k.request = 1 .. Len(k.request)
      /\ DOMAIN data = DOMAIN k.request
      /\ \A i \in DOMAIN data : data[i] \in Value
  BY <1>2, <1>4, LenProperties, ElementOfSeq DEF Served
<1> HIDE DEF data, k
<1>8. ASSUME NEW i \in DOMAIN cache
      PROVE  /\ UpdatedEntry(i, data) \in Entry
             /\ UpdatedEntry(i, data).key = cache[i].key
             /\ KnownIn(held, overrun', cache[i].key, UpdatedEntry(i, data).value)
             /\ i \in DOMAIN k.request =>
                  UpdatedEntry(i, data).value.version >= k.since[cache[i].key].version
  <2>1. cache[i] \in Entry /\ cache[i].key \in Address
    BY <1>1, <1>6 DEF TypeOK, Entry
  <2>2. CASE i \in DOMAIN data
    <3>1. UpdatedEntry(i, data) = [cache[i] EXCEPT !.value = data[i]]
      BY <2>2 DEF UpdatedEntry
    <3>2. /\ k.since[cache[i].key].version <= data[i].version /\ data[i] \in Value
          /\ KnownIn(held, overrun', cache[i].key, data[i])
      BY <1>2, <1>5, <1>7, <2>2 DEF Served, Serving, KnownIn
    <3>3. k.since[cache[i].key].version \in Int /\ data[i].version \in Int
      BY <1>4, <2>1, <3>2, Versions
    <3>4. /\ UpdatedEntry(i, data) \in Entry
          /\ UpdatedEntry(i, data).key = cache[i].key /\ UpdatedEntry(i, data).value = data[i]
      BY <2>1, <3>1, <3>2 DEF Entry
    <3> QED
      BY <3>2, <3>3, <3>4
  <2>3. CASE i \notin DOMAIN data
    <3>1. UpdatedEntry(i, data) = [cache[i] EXCEPT !.value = Null]
      BY <2>3 DEF UpdatedEntry
    <3>2. Null \in Value /\ KnownIn(held, overrun', cache[i].key, Null)
      <4>1. cache[i].key \notin Range(k.request)
        BY <1>1, <1>5, <1>6, <1>7, <2>3 DEF TypeOK, Range
      <4>2. cache[i].key \in overrun'
        BY <1>1, <4>1 DEF Keys
      <4> QED
        BY <4>2 DEF KnownIn, Value
    <3>3. /\ UpdatedEntry(i, data) \in Entry
          /\ UpdatedEntry(i, data).key = cache[i].key /\ UpdatedEntry(i, data).value = Null
      BY <2>1, <3>1, <3>2 DEF Entry
    <3> QED
      BY <1>7, <2>3, <3>2, <3>3
  <2> QED
    BY <2>2, <2>3
<1>9. /\ new \in Seq(Entry) /\ Len(new) = Len(cache) /\ DOMAIN new = DOMAIN cache
      /\ \A i \in DOMAIN cache : new[i] = UpdatedEntry(i, data)
  BY <1>6, <1>8
<1> HIDE DEF new
<1>10. KeysOnce(new) /\ \A i \in DOMAIN cache : new[i].key = cache[i].key
  BY <1>1, <1>8, <1>9 DEF KeysOnce, TypeOK
<1>11. CacheHeld'
  BY <1>1, <1>8, <1>9 DEF CacheHeld
<1>12. ended \in ReturnedCall /\ ended.status = "returned" /\ ended.wanted = <<>> /\ ended.values = <<>>
  BY <1>4, EmptySeq DEF Returned, ReturnedCall
<1> HIDE DEF ended
<1>13. ReturnsHeld(c)' /\ FailedByRpc(c)'
  BY <1>1, <1>12 DEF ReturnsHeld, FailedByRpc, Has
<1>14. FetchIInv'
  <2>1. /\ cache' \in Seq(Entry) /\ KeysOnce(cache') /\ Len(cache) <= Len(cache')
        /\ \A i \in DOMAIN cache : cache'[i].key = cache[i].key
    BY <1>1, <1>6, <1>9, <1>10
  <2>2. ended \in Call /\ chain' = chain /\ held' = held /\ call' = [call EXCEPT ![c] = ended]
    BY <1>1, <1>12 DEF Call
  <2>3. overrun \subseteq overrun' /\ overrun' \subseteq Address
    <3>1. Keys \subseteq Address
      BY <1>6 DEF Keys, Entry
    <3> QED
      BY <1>1, <3>1 DEF TypeOK
  <2> QED
    BY <1>11, <1>12, <1>13, <2>1, <2>2, <2>3, EndKeeps
<1>15. \A i \in DOMAIN k.request : i \in DOMAIN cache
  BY <1>5, <1>6, <1>7
<1> QED
  BY <1>1, <1>8, <1>9, <1>14, <1>15 DEF k

\* listPoolsWithParams caches and returns what the node has answered.
LEMMA ListPoolsEndKeeps ==
  ASSUME FetchIInv, NEW c \in Calls, ListPoolsWithParamsEnd(c)
  PROVE  FetchIInv'
<1> DEFINE k     == call[c]
           ended == Returned(k.request, Data(c), TRUE, k.since)
<1>1. /\ Waiting(c) /\ Complete(c) /\ chain' = chain
      /\ held' = held /\ overrun' = overrun /\ cache' = PutAll(k.request, Data(c))
      /\ call' = [call EXCEPT ![c] = ended] /\ call'[c] = ended
  BY DEF ListPoolsWithParamsEnd, FetchIInv, TypeOK
<1>2. /\ cache' \in Seq(Entry) /\ KeysOnce(cache') /\ CacheHeld' /\ Len(cache) <= Len(cache')
      /\ \A i \in DOMAIN cache : cache'[i].key = cache[i].key
  BY <1>1, PutAllKeeps
<1>3. Data(c) \in Seq(Value) /\ Served(k.request, Data(c), k.since, held)
  BY <1>1, AnswersComplete DEF Complete
<1>4. k.request \in Seq(Address) /\ k.since \in [Address -> Value]
  BY <1>1, CallTypes DEF FetchIInv, WaitingCall
<1>5. /\ ended \in ReturnedCall /\ ended.status = "returned"
      /\ ended.wanted = k.request /\ ended.values = Data(c) /\ ended.since = k.since
  BY <1>3, <1>4 DEF Returned, ReturnedCall
<1>6. DOMAIN Data(c) = DOMAIN k.request
  BY <1>3, <1>4, LenProperties DEF Served
<1>7. \A i \in DOMAIN k.request :
        /\ KnownIn(held, overrun, k.request[i], Data(c)[i])
        /\ Data(c)[i].version >= k.since[k.request[i]].version
  <2> SUFFICES ASSUME NEW i \in DOMAIN k.request
               PROVE  /\ KnownIn(held, overrun, k.request[i], Data(c)[i])
                      /\ Data(c)[i].version >= k.since[k.request[i]].version
    OBVIOUS
  <2>1. /\ k.since[k.request[i]].version <= Data(c)[i].version
        /\ KnownIn(held, overrun, k.request[i], Data(c)[i])
    BY <1>3 DEF Served, Serving, KnownIn
  <2>2. Data(c)[i].version \in Int /\ k.since[k.request[i]].version \in Int
    BY <1>3, <1>4, <1>6, LenProperties, ElementOfSeq, Versions
  <2> QED
    BY <2>1, <2>2
<1> HIDE DEF ended, k
<1>8. ReturnsHeld(c)' /\ FailedByRpc(c)'
  BY <1>1, <1>5, <1>6, <1>7 DEF ReturnsHeld, FailedByRpc, Has
<1>9. overrun \subseteq overrun' /\ overrun' \subseteq Address
  BY <1>1 DEF FetchIInv, TypeOK
<1> QED
  BY <1>1, <1>2, <1>5, <1>8, <1>9, EndKeeps DEF Call

\* The pools that exist, as the node lists them.
LEMMA PoolsListed ==
  ASSUME NEW S, S \subseteq Pools
  PROVE  SetToSeq(S) \in Seq(Address)
<1>1. IsFiniteSet(S) /\ S \subseteq Address
  BY FetcherAssumption, FS_Subset
<1>2. Cardinality(S) \in Nat /\ ExistsBijection(1 .. Cardinality(S), S)
  BY <1>1, FS_CardinalityType
<1>3. \E f \in [1 .. Cardinality(S) -> S] : IsInjective(f)
  BY <1>2 DEF ExistsBijection, Bijection, Injection
<1>4. SetToSeq(S) \in [1 .. Cardinality(S) -> S]
  BY <1>3 DEF SetToSeq
<1> QED
  BY <1>1, <1>2, <1>4

\* The node answers one of the requests with its accounts, or with an error.
LEMMA AnswerKeeps ==
  ASSUME FetchIInv, NEW c \in Calls, Waiting(c), NEW i \in DOMAIN call[c].answers, Answer(c, i)
  PROVE  FetchIInv'
<1> DEFINE k == call[c]
           request == IF k.kind = "pools" THEN SetToSeq({a \in Pools : chain[a] # Null})
                      ELSE k.request
           asked   == IF k.kind = "pools" THEN request ELSE ChunkOf(request, i)
           data    == [j \in DOMAIN asked |-> chain[asked[j]]]
<1>1. /\ TypeOK /\ ChainHeld /\ CacheHeld /\ chain' = chain /\ cache' = cache /\ CallInv(c)
      /\ held' = held /\ overrun' = overrun
      /\ chain \in [Address -> Value] /\ call \in [Calls -> Call]
  BY DEF Answer, FetchIInv, TypeOK
<1>2. k \in WaitingCall
  BY <1>1, CallTypes
<1>3. PICK answer \in {RpcError, Result(data)} :
        call' = [call EXCEPT ![c].request = request, ![c].answers[i] = answer]
  BY DEF Answer
<1>4. /\ k.request \in Seq(Address) /\ k.answers \in Seq(Answered)
      /\ k.since \in [Address -> Value]
      /\ k.values \in Seq(Value \cup {Undefined})
  BY <1>2 DEF WaitingCall
<1>5. request \in Seq(Address)
  <2>1. {a \in Pools : chain[a] # Null} \subseteq Pools
    OBVIOUS
  <2> QED
    BY <1>4, <2>1, PoolsListed
<1>6. /\ k.kind # "pools" => request = k.request /\ asked = ChunkOf(request, i)
      /\ k.kind = "pools" => asked = request
  OBVIOUS
<1> HIDE DEF request
<1>7. /\ Len(k.answers) \in Nat /\ DOMAIN k.answers = 1 .. Len(k.answers)
      /\ i \in 1 .. Len(k.answers)
      /\ k.kind # "pools" => Len(k.answers) = Chunks(k.request)
      /\ k.kind = "pools" => Len(k.answers) = 1
  BY <1>1, <1>4, LenProperties DEF CallInv, AnswersMatch
<1>8. asked \in Seq(Address)
  <2>1. CASE k.kind = "pools"
    BY <1>5, <1>6, <2>1
  <2>2. CASE k.kind # "pools"
    <3>1. i - 1 \in 0 .. Chunks(request) /\ i - 1 < Chunks(request) /\ (i - 1) + 1 = i
      BY <1>6, <1>7, <2>2
    <3>2. ChunkOf(request, (i - 1) + 1) \in Seq(Address)
      BY <1>5, <3>1, ChunkProperties
    <3> QED
      BY <1>6, <2>2, <3>1, <3>2
  <2> QED
    BY <2>1, <2>2
<1> HIDE DEF asked
<1>9. /\ Len(asked) \in Nat /\ DOMAIN asked = 1 .. Len(asked)
      /\ \A j \in DOMAIN asked : asked[j] \in Address /\ chain[asked[j]] \in Value
  BY <1>1, <1>8, LenProperties, ElementOfSeq
<1>10. data \in Seq(Value) /\ Len(data) = Len(asked) /\ \A j \in DOMAIN asked : data[j] = chain[asked[j]]
  BY <1>9
<1> HIDE DEF data
<1>11. Served(asked, data, k.since, held)
  <2> SUFFICES ASSUME NEW j \in DOMAIN asked
               PROVE  Serving(asked[j], data[j], k.since, held)
    BY <1>10 DEF Served
  <2>1. k.since[asked[j]].version <= chain[asked[j]].version /\ chain[asked[j]] \in held[asked[j]]
    BY <1>1, <1>9 DEF CallInv, BegunBefore, ChainHeld
  <2>2. data[j] = chain[asked[j]]
    BY <1>9, <1>10
  <2> QED
    BY <2>1, <2>2 DEF Serving
<1>12. answer \in Answered /\ Serves(asked, answer, k.since, held)
  <2>1. RpcError \in Answered /\ Serves(asked, RpcError, k.since, held)
    BY EmptySeq DEF RpcError, Answered, Serves
  <2>2. Result(data) \in Answered /\ Result(data).data = data
    BY <1>10 DEF Result, Answered
  <2>3. Serves(asked, Result(data), k.since, held)
    BY <1>11, <2>2 DEF Serves
  <2> QED
    BY <2>1, <2>2, <2>3
<1> DEFINE new == [[k EXCEPT !.request = request] EXCEPT !.answers = [k.answers EXCEPT ![i] = answer]]
<1>13. call'[c] = new /\ \A d \in Calls \ {c} : call'[d] = call[d]
  BY <1>1, <1>2, <1>3 DEF WaitingCall
<1>14. /\ new.status = k.status /\ new.kind = k.kind /\ new.wanted = k.wanted /\ new.values = k.values
       /\ new.refresh = k.refresh /\ new.since = k.since /\ new.request = request
       /\ new.answers = [k.answers EXCEPT ![i] = answer]
  BY <1>2 DEF WaitingCall
<1>15. /\ new.answers \in Seq(Answered) /\ Len(new.answers) = Len(k.answers)
       /\ DOMAIN new.answers = DOMAIN k.answers
       /\ \A n \in DOMAIN k.answers : new.answers[n] = IF n = i THEN answer ELSE k.answers[n]
  BY <1>4, <1>7, <1>12, <1>14, ExceptSeq
<1>16. new \in WaitingCall
  BY <1>2, <1>5, <1>14, <1>15 DEF WaitingCall
<1> HIDE DEF new
<1>17. TypeOK' /\ ChainHeld' /\ CacheHeld'
  <2>1. call' \in [Calls -> Call]
    <3>1. \A d \in Calls : call'[d] \in Call
      BY <1>1, <1>13, <1>16 DEF Call
    <3>2. call' = [d \in Calls |-> call'[d]]
      BY <1>1, <1>3
    <3> QED
      BY <3>1, <3>2
  <2> QED
    BY <1>1, <2>1 DEF TypeOK, ChainHeld, CacheHeld
<1>18. /\ Waiting(c)' /\ ~Has(c, "returned")' /\ ~Has(c, "failed")'
  BY <1>13, <1>14 DEF Waiting, Has
<1>19. BegunBefore(c)'
  BY <1>1, <1>13, <1>14 DEF CallInv, BegunBefore
<1>20. AnswersMatch(c)'
  <2>1. CASE k.kind = "pools"
    <3>1. i = 1 /\ 1 \in DOMAIN k.answers
      <4>1. Len(k.answers) = 1
        BY <1>7, <2>1
      <4>2. i \in 1 .. 1
        BY <1>7, <4>1
      <4> QED
        BY <1>7, <4>2
    <3>2. Serves(new.request, new.answers[1], new.since, held)
      BY <1>6, <1>12, <1>14, <1>15, <2>1, <3>1
    <3> QED
      BY <1>1, <1>7, <1>13, <1>14, <1>15, <2>1, <3>2 DEF AnswersMatch
  <2>2. CASE k.kind # "pools"
    <3>1. \A n \in DOMAIN k.answers : Serves(ChunkOf(k.request, n), k.answers[n], k.since, held)
      BY <1>1, <2>2 DEF CallInv, AnswersMatch
    <3>2. \A n \in DOMAIN new.answers : Serves(ChunkOf(new.request, n), new.answers[n], new.since, held)
      BY <1>6, <1>12, <1>14, <1>15, <2>2, <3>1
    <3> QED
      BY <1>1, <1>6, <1>7, <1>13, <1>14, <1>15, <2>2, <3>2 DEF AnswersMatch
  <2> QED
    BY <2>1, <2>2
<1>21. AsksForTheRest(c)'
  BY <1>1, <1>6, <1>13, <1>14 DEF CallInv, AsksForTheRest
<1>22. RefreshesFromFirst(c)'
  BY <1>1, <1>6, <1>13, <1>14 DEF CallInv, RefreshesFromFirst
<1>23. CallInv(c)'
  BY <1>18, <1>19, <1>20, <1>21, <1>22 DEF CallInv, ReturnsHeld, FailedByRpc
<1>24. /\ Onward
       /\ Len(cache) <= Len(cache') /\ \A i_1 \in DOMAIN cache : cache'[i_1].key = cache[i_1].key
  BY <1>1, Versions, LenProperties DEF TypeOK, Onward
<1> QED
  BY <1>13, <1>17, <1>23, <1>24, OneCall

\* A call fails on an error only: answers that are all there are enough
\* (fetcher.ts:387, 399).
LEMMA CallFailsKeeps ==
  ASSUME FetchIInv, NEW c \in Calls, CallFails(c)
  PROVE  FetchIInv'
<1> DEFINE ended == [status |-> "failed", answers |-> call[c].answers]
<1>1. /\ TypeOK /\ CacheHeld /\ Waiting(c) /\ chain' = chain /\ cache' = cache
      /\ held' = held /\ overrun' = overrun
      /\ call' = [call EXCEPT ![c] = ended] /\ call'[c] = ended
  BY DEF CallFails, FetchIInv, TypeOK
<1>2. HasError(c)
  <2>1. ASSUME AllAnswered(c), ~Complete(c), ~HasError(c) PROVE FALSE
    <3>1. Served(call[c].request, Data(c), call[c].since, held)
      BY <1>1, <2>1, AnswersComplete
    <3> QED
      BY <2>1, <3>1 DEF Complete, Served
  <2> QED
    BY <2>1 DEF CallFails
<1>3. ended \in Call /\ ended.status = "failed" /\ ended.answers = call[c].answers
  BY <1>1, CallTypes DEF Call, WaitingCall
<1> HIDE DEF ended
<1>4. ReturnsHeld(c)' /\ FailedByRpc(c)'
  BY <1>1, <1>2, <1>3 DEF ReturnsHeld, FailedByRpc, Has, HasError
<1>5. /\ cache' \in Seq(Entry) /\ KeysOnce(cache') /\ CacheHeld'
      /\ Len(cache) <= Len(cache') /\ \A i \in DOMAIN cache : cache'[i].key = cache[i].key
  BY <1>1, LenProperties DEF TypeOK, Entry, KeysOnce, CacheHeld
<1>6. overrun \subseteq overrun' /\ overrun' \subseteq Address
  BY <1>1 DEF TypeOK
<1> QED
  BY <1>1, <1>3, <1>4, <1>5, <1>6, EndKeeps

\* Someone writes an account.
LEMMA WriteKeeps ==
  ASSUME FetchIInv, NEW a \in Address, Write(a)
  PROVE  FetchIInv'
<1> DEFINE new == Account(a, chain[a].version + 1)
<1>1. /\ TypeOK /\ ChainHeld /\ CacheHeld /\ cache' = cache /\ call' = call /\ overrun' = overrun
      /\ chain \in [Address -> Value] /\ chain[a].version < MaxVersion
      /\ held \in [Address -> SUBSET Value]
      /\ chain' = [chain EXCEPT ![a] = new] /\ held' = [held EXCEPT ![a] = @ \cup {new}]
  BY DEF Write, FetchIInv, TypeOK
<1>2. /\ new \in Value /\ new.version = chain[a].version + 1
      /\ \A b \in Address : chain[b].version \in Int
  <2>1. chain[a].version \in Int /\ chain[a].version >= 0 /\ \A b \in Address : chain[b].version \in Int
    BY <1>1, Versions
  <2>2. chain[a].version + 1 \in 1 .. MaxVersion
    BY <1>1, <2>1, FetcherAssumption
  <2> QED
    BY <2>1, <2>2 DEF Account, Value
<1> HIDE DEF new
<1>3. /\ chain' \in [Address -> Value] /\ held' \in [Address -> SUBSET Value]
      /\ Onward /\ ChainHeld'
  BY <1>1, <1>2 DEF Onward, ChainHeld
<1>4. \A i \in DOMAIN cache : cache[i].key \in Address
  <2>1. cache \in Seq(Entry)
    BY <1>1 DEF TypeOK, Entry
  <2>2. \A entry \in Entry : entry.key \in Address
    BY DEF Entry
  <2> QED
    BY <2>1, <2>2, LenProperties, ElementOfSeq
<1>5. CacheHeld'
  BY <1>1, <1>3, <1>4, KnownLater DEF CacheHeld
<1>6. TypeOK'
  BY <1>1, <1>3 DEF TypeOK
<1>7. /\ Len(cache) <= Len(cache') /\ \A i \in DOMAIN cache : cache'[i].key = cache[i].key
      /\ cache' \in Seq(Entry)
  BY <1>1, LenProperties DEF TypeOK, Entry
<1>8. \A c \in Calls : CallInv(c)'
  BY <1>1, <1>3, <1>7, OtherCallKept DEF FetchIInv
<1> QED
  BY <1>3, <1>5, <1>6, <1>8 DEF FetchIInv

\* The inductive invariant, step by step.
LEMMA FetchStep == ASSUME FetchIInv, [Next]_vars PROVE FetchIInv'
<1>1. CASE UNCHANGED vars
  BY <1>1 DEF vars, FetchIInv, TypeOK, ChainHeld, CacheHeld, CallInv, BegunBefore, AnswersMatch, AsksForTheRest,
              RefreshesFromFirst, ReturnsHeld, FailedByRpc, Waiting, Has, HasError
<1>2. CASE Next
  BY <1>2, ReadKeeps, ReadEndKeeps, RefreshAllKeeps, RefreshAllEndKeeps, ListPoolsKeeps,
     ListPoolsEndKeeps, CallFailsKeeps, AnswerKeeps, WriteKeeps DEF Next
<1> QED
  BY <1>1, <1>2

-----------------------------------------------------------------------------
(* The theorems *)

\* FetchIInv is an invariant, whatever order calls start and answers arrive in.
LEMMA FetchInvariant == Spec => []FetchIInv
<1>1. Init => FetchIInv
  BY FetchInit
<1>2. FetchIInv /\ [Next]_vars => FetchIInv'
  BY FetchStep
<1> QED
  BY <1>1, <1>2, PTL DEF Spec

\* A key is cached once, and what is returned is never undefined
\* (fetcher.ts:365).
THEOREM FetcherTypes == Spec => []TypeOK
BY FetchInvariant, PTL DEF FetchIInv

\* What is cached or returned for an account is something that this account has
\* held, for any chunk size, lists and interleaving of calls (fetcher.ts:295, 353),
\* or null where a refreshAll met an entry it had not asked for.
THEOREM NothingIsInvented == Spec => []NothingInvented
<1>1. FetchIInv => NothingInvented
  BY DEF FetchIInv, CacheHeld, CallInv, ReturnsHeld, NothingInvented, Known, KnownIn
<1> QED
  BY <1>1, FetchInvariant, PTL

\* A refresh never returns what is older than its own start (fetcher.ts:338).
THEOREM RefreshesAreFresh == Spec => []FreshWhenRefreshed
<1>1. FetchIInv => FreshWhenRefreshed
  BY DEF FetchIInv, CallInv, ReturnsHeld, FreshWhenRefreshed
<1> QED
  BY <1>1, FetchInvariant, PTL

\* The number of requests and of their accounts always adds up to what was asked
\* for: the check on it never fails a call (fetcher.ts:399).
THEOREM OnlyRpcFails == Spec => []FailsOnlyWithRpc
<1>1. FetchIInv => FailsOnlyWithRpc
  BY DEF FetchIInv, CallInv, FailedByRpc, FailsOnlyWithRpc
<1> QED
  BY <1>1, FetchInvariant, PTL

\* A refresh of all that no new key has come in the way of leaves nothing older
\* than its own start, although it does not look at the keys again (fetcher.ts:295).
THEOREM RefreshAllIsComplete == Spec => RefreshAllUpdatesWhatItAskedFor
<1> DEFINE Step ==
      \A c \in Calls : RefreshAllReturns(c) /\ Len(cache) = Len(call[c].request) =>
        \A i \in DOMAIN cache' :
          cache'[i].value.version >= call[c].since[cache'[i].key].version
<1>1. ASSUME FetchIInv, [Next]_vars PROVE Step
  <2> SUFFICES ASSUME NEW c \in Calls, RefreshAllReturns(c), Len(cache) = Len(call[c].request),
                      NEW i \in DOMAIN cache'
               PROVE  cache'[i].value.version >= call[c].since[cache'[i].key].version
    OBVIOUS
  <2>1. Waiting(c) /\ call[c].kind = "refreshAll" /\ call'[c].status = "returned"
    BY DEF RefreshAllReturns
  <2>2. call[c].status # "returned"
    BY <2>1 DEF Waiting
  <2>3. call \in [Calls -> Call] /\ call[c] \in WaitingCall
    BY <1>1, <2>1, CallTypes DEF FetchIInv, TypeOK
  <2>4. RefreshAllEnd(c)
    <3>1. Next
      BY <1>1, <2>1, <2>2 DEF vars
    <3>2. ~\E a \in Address : Write(a)
      BY <2>1, <2>2 DEF Write
    <3>3. ASSUME NEW d \in Calls, d # c, NEW k, call' = [call EXCEPT ![d] = k] PROVE FALSE
      BY <2>1, <2>2, <2>3, <3>3
    <3>4. ~CallFails(c)
      BY <2>1, <2>3 DEF CallFails
    <3>5. ASSUME NEW d \in Calls, NEW n \in DOMAIN call[d].answers, Waiting(d), Answer(d, n)
          PROVE  FALSE
      <4>1. PICK request, answer :
              call' = [call EXCEPT ![d].request = request, ![d].answers[n] = answer]
        BY <3>5 DEF Answer
      <4>2. CASE d = c
        BY <2>1, <2>2, <2>3, <4>1, <4>2 DEF WaitingCall
      <4>3. CASE d # c
        BY <2>1, <2>2, <2>3, <4>1, <4>3
      <4> QED
        BY <4>2, <4>3
    <3>6. \A d \in Calls : d # c =>
            /\ ~ReadEnd(d) /\ ~RefreshAll(d) /\ ~RefreshAllEnd(d) /\ ~ListPoolsWithParams(d)
            /\ ~ListPoolsWithParamsEnd(d) /\ ~CallFails(d)
            /\ \A wanted \in Wanted, refresh \in BOOLEAN : ~Read(d, wanted, refresh)
      BY <3>3 DEF ReadEnd, RefreshAll, RefreshAllEnd, ListPoolsWithParams, ListPoolsWithParamsEnd,
                  CallFails, Read
    <3>7. /\ ~ReadEnd(c) /\ ~RefreshAll(c) /\ ~ListPoolsWithParams(c) /\ ~ListPoolsWithParamsEnd(c)
          /\ \A wanted \in Wanted, refresh \in BOOLEAN : ~Read(c, wanted, refresh)
      BY <2>1 DEF ReadEnd, RefreshAll, ListPoolsWithParams, ListPoolsWithParamsEnd, Read
    <3> QED
      BY <3>1, <3>2, <3>4, <3>5, <3>6, <3>7 DEF Next
  <2>5. /\ Len(cache') = Len(cache)
        /\ \A n \in DOMAIN call[c].request :
             n \in DOMAIN cache' /\ cache'[n].value.version >= call[c].since[cache'[n].key].version
    BY <1>1, <2>4, RefreshAllEndKeeps
  <2>6. DOMAIN cache' = DOMAIN call[c].request
    <3>1. cache' \in Seq([key : Address, value : Value]) /\ call[c].request \in Seq(Address)
      BY <1>1, <2>3, FetchStep DEF FetchIInv, TypeOK, WaitingCall
    <3> QED
      BY <2>5, <3>1, LenProperties
  <2> QED
    BY <2>5, <2>6
<1>2. FetchIInv /\ [Next]_vars => [Step]_vars
  BY <1>1
<1> QED
  BY <1>2, FetchInvariant, PTL DEF Spec, RefreshAllUpdatesWhatItAskedFor
=============================================================================
