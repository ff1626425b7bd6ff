---------------------------- MODULE KeyfileProofs -----------------------------
(***************************************************************************)
(* What apply_keyfiles makes of a list of keyfiles, for lists of any       *)
(* length.                                                                 *)
(*                                                                         *)
(* The loop of apply_keyfiles is a recursive function of the position      *)
(* (ReadKeyfiles).  Its defining equation and what it computes are proved  *)
(* by induction: a set of numbers that holds 0 and each successor of its   *)
(* members holds all numbers (Induction, from the well-foundedness of <).  *)
(* For a regular list, whose keyfiles are not empty and are read to the    *)
(* end, the pool counts how often each file occurs (PoolIs, PoolCounts);   *)
(* so two regular lists give the same pool exactly when they hold the same *)
(* files equally often (KeyfilesTold).                                     *)
(***************************************************************************)
EXTENDS DataUnits, TLAPS, FiniteSetTheorems, WellFoundedInduction

-----------------------------------------------------------------------------
\* Induction

\* A set of numbers that holds 0 and the successor of each of its members
\* holds all: otherwise the least number outside has a predecessor inside.
LEMMA Induction ==
  ASSUME NEW S, 0 \in S, \A n \in Nat : n \in S => n + 1 \in S
  PROVE  Nat \subseteq S
<1> DEFINE R == OpToRel(<, Nat)
           T == Nat \ S
<1>1. SUFFICES ASSUME T # {} PROVE FALSE
  OBVIOUS
<1>2. IsWellFoundedOn(R, Nat)
  BY NatLessThanWellFounded
<1>3. \A x, y \in Nat : x < y => <<x, y>> \in R
  BY DEF OpToRel
<1> HIDE DEF R
<1>4. PICK x \in T : \A y \in T : ~(<<y, x>> \in R)
  BY <1>1, <1>2, WFMin
<1>5. x # 0 /\ x \in Nat
  BY <1>4
<1>6. x - 1 \in Nat /\ x - 1 < x /\ (x - 1) + 1 = x
  BY <1>5
<1>7. <<x - 1, x>> \in R
  BY <1>3, <1>5, <1>6
<1>8. x - 1 \notin T
  BY <1>4, <1>7
<1> QED BY <1>4, <1>5, <1>6, <1>8

\* The same for the numbers up to n.
LEMMA InductionUpTo ==
  ASSUME NEW n \in Nat, NEW S, 0 \in S, \A i \in 1 .. n : i - 1 \in S => i \in S
  PROVE  0 .. n \subseteq S
<1> DEFINE T == {i \in Nat : i <= n => i \in S}
<1>1. 0 \in T
  OBVIOUS
<1>2. ASSUME NEW i \in Nat, i \in T PROVE i + 1 \in T
  <2>1. CASE i + 1 <= n
    <3>1. i \in S /\ i + 1 \in 1 .. n /\ (i + 1) - 1 = i
      BY <1>2, <2>1
    <3>2. i + 1 \in S
      BY <3>1
    <3> QED BY <1>2, <3>2
  <2>2. CASE ~(i + 1 <= n)
    BY <1>2, <2>2
  <2> QED BY <2>1, <2>2
<1> HIDE DEF T
<1>3. Nat \subseteq T
  BY <1>1, <1>2, Induction
<1> QED BY <1>3 DEF T

-----------------------------------------------------------------------------
\* The recursive functions

\* ReadKeyfiles(paths) satisfies its defining equation.
LEMMA ReadKeyfilesDef ==
  ASSUME NEW paths, Len(paths) \in Nat, NEW step, step = ReadKeyfiles(paths)
  PROVE  step = [i \in 0 .. Len(paths) |->
                   IF i = 0 THEN NoKeyfiles ELSE ReadKeyfile(step[i - 1], paths[i])]
<1> DEFINE n == Len(paths)
           Body(g, i) == IF i = 0 THEN NoKeyfiles ELSE ReadKeyfile(g[i - 1], paths[i])
           Solves(g, m) == g = [i \in 0 .. m |-> Body(g, i)]
           S == {m \in Nat : \E g : Solves(g, m)}
<1>1. 0 \in S
  <2> DEFINE g == [i \in 0 .. 0 |-> NoKeyfiles]
  <2>1. Solves(g, 0)
    OBVIOUS
  <2> HIDE DEF g, Solves
  <2> QED BY <2>1
<1>2. ASSUME NEW m \in Nat, m \in S PROVE m + 1 \in S
  <2>1. PICK g : Solves(g, m)
    BY <1>2
  <2> DEFINE h == [i \in 0 .. m + 1 |-> IF i = m + 1 THEN Body(g, m + 1) ELSE g[i]]
  <2>2. ASSUME NEW i \in 0 .. m + 1 PROVE h[i] = Body(h, i)
    <3>1. CASE i = 0
      BY <2>1, <3>1
    <3>2. CASE i # 0
      <4>1. i - 1 \in 0 .. m /\ h[i - 1] = g[i - 1]
        BY <2>2, <3>2
      <4>2. Body(h, i) = Body(g, i)
        BY <4>1
      <4>3. i # m + 1 => i \in 0 .. m /\ g[i] = Body(g, i)
        BY <2>1, <2>2
      <4> HIDE DEF Body
      <4> QED BY <2>2, <4>2, <4>3
    <3> QED BY <3>1, <3>2
  <2>3. Solves(h, m + 1)
    <3> HIDE DEF Body
    <3>1. h = [i \in 0 .. m + 1 |-> h[i]]
      OBVIOUS
    <3> HIDE DEF h
    <3> QED BY <2>2, <3>1
  <2> HIDE DEF h, Solves
  <2> QED BY <2>3
<1>3. n \in S
  <2> HIDE DEF S
  <2> QED BY <1>1, <1>2, Induction
<1>4. ReadKeyfiles(paths) = CHOOSE g : Solves(g, n)
  BY DEF ReadKeyfiles
<1>5. \E g : Solves(g, n)
  BY <1>3
<1> HIDE DEF Solves
<1>6. Solves(step, n)
  BY <1>4, <1>5
<1> QED BY <1>6 DEF Solves

\* LengthUpTo(kfs) satisfies its defining equation.
LEMMA LengthUpToDef ==
  ASSUME NEW kfs, Len(kfs) \in Nat, NEW sum, sum = LengthUpTo(kfs)
  PROVE  sum = [i \in 0 .. Len(kfs) |->
                  IF i = 0 THEN 0 ELSE sum[i - 1] + KeyfileLength[kfs[i]]]
<1> DEFINE n == Len(kfs)
           Body(g, i) == IF i = 0 THEN 0 ELSE g[i - 1] + KeyfileLength[kfs[i]]
           Solves(g, m) == g = [i \in 0 .. m |-> Body(g, i)]
           S == {m \in Nat : \E g : Solves(g, m)}
<1>1. 0 \in S
  <2> DEFINE g == [i \in 0 .. 0 |-> 0]
  <2>1. Solves(g, 0)
    OBVIOUS
  <2> HIDE DEF g, Solves
  <2> QED BY <2>1
<1>2. ASSUME NEW m \in Nat, m \in S PROVE m + 1 \in S
  <2>1. PICK g : Solves(g, m)
    BY <1>2
  <2> DEFINE h == [i \in 0 .. m + 1 |-> IF i = m + 1 THEN Body(g, m + 1) ELSE g[i]]
  <2>2. ASSUME NEW i \in 0 .. m + 1 PROVE h[i] = Body(h, i)
    <3>1. CASE i = 0
      BY <2>1, <3>1
    <3>2. CASE i # 0
      <4>1. i - 1 \in 0 .. m /\ h[i - 1] = g[i - 1]
        BY <2>2, <3>2
      <4>2. Body(h, i) = Body(g, i)
        BY <4>1
      <4>3. i # m + 1 => i \in 0 .. m /\ g[i] = Body(g, i)
        BY <2>1, <2>2
      <4> HIDE DEF Body
      <4> QED BY <2>2, <4>2, <4>3
    <3> QED BY <3>1, <3>2
  <2>3. Solves(h, m + 1)
    <3> HIDE DEF Body
    <3>1. h = [i \in 0 .. m + 1 |-> h[i]]
      OBVIOUS
    <3> HIDE DEF h
    <3> QED BY <2>2, <3>1
  <2> HIDE DEF h, Solves
  <2> QED BY <2>3
<1>3. n \in S
  <2> HIDE DEF S
  <2> QED BY <1>1, <1>2, Induction
<1>4. LengthUpTo(kfs) = CHOOSE g : Solves(g, n)
  BY DEF LengthUpTo
<1>5. \E g : Solves(g, n)
  BY <1>3
<1> HIDE DEF Solves
<1>6. Solves(sum, n)
  BY <1>4, <1>5
<1> QED BY <1>6 DEF Solves

\* A list of keyfiles is a sequence of files that have a length.
LEMMA ListIs ==
  ASSUME NEW kfs \in KeyfileLists
  PROVE  /\ Len(kfs) \in Nat /\ DOMAIN kfs = 1 .. Len(kfs)
         /\ \A i \in 1 .. Len(kfs) :
              kfs[i] \in DOMAIN KeyfileLength /\ KeyfileLength[kfs[i]] \in Nat
BY KeyfileAssumption DEF KeyfileLists

\* A regular list is read to its end: no sum of leading lengths exceeds the limit.
LEMMA SumBounded ==
  ASSUME NEW kfs \in KeyfileLists, Regular(kfs), NEW sum, sum = LengthUpTo(kfs)
  PROVE  /\ sum[0] = 0
         /\ \A i \in 0 .. Len(kfs) : sum[i] \in Nat /\ sum[i] <= MAX_READ
         /\ \A i \in 1 .. Len(kfs) : sum[i] = sum[i - 1] + KeyfileLength[kfs[i]]
<1> DEFINE n == Len(kfs)
<1>1. n \in Nat /\ \A i \in 1 .. n : KeyfileLength[kfs[i]] \in Nat
  BY ListIs
<1>2. sum = [i \in 0 .. n |-> IF i = 0 THEN 0 ELSE sum[i - 1] + KeyfileLength[kfs[i]]]
  BY <1>1, LengthUpToDef
<1>3. sum[0] = 0 /\ \A i \in 1 .. n : sum[i] = sum[i - 1] + KeyfileLength[kfs[i]]
  BY <1>1, <1>2
<1>4. sum[n] <= MAX_READ /\ MAX_READ \in Nat
  BY KeyfileAssumption DEF Regular
<1> HIDE DEF n
<1>5. \A i \in 0 .. n : sum[i] \in Nat
  <2> DEFINE S == {i \in 0 .. n : sum[i] \in Nat}
  <2>1. 0 \in S
    BY <1>1, <1>3
  <2>2. \A i \in 1 .. n : i - 1 \in S => i \in S
    BY <1>1, <1>3
  <2> HIDE DEF S
  <2>3. 0 .. n \subseteq S
    BY <1>1, <2>1, <2>2, InductionUpTo
  <2> QED BY <2>3 DEF S
<1>6. \A i \in 0 .. n : sum[n - i] <= MAX_READ
  <2> DEFINE S == {i \in 0 .. n : sum[n - i] <= MAX_READ}
  <2>1. 0 \in S
    BY <1>1, <1>4
  <2>2. ASSUME NEW i \in 1 .. n, i - 1 \in S PROVE i \in S
    <3>1. n - (i - 1) \in 1 .. n /\ (n - (i - 1)) - 1 = n - i /\ n - i \in 0 .. n
      BY <1>1, <2>2
    <3>2. sum[n - (i - 1)] = sum[n - i] + KeyfileLength[kfs[n - (i - 1)]]
      BY <1>3, <3>1
    <3>3. /\ sum[n - i] \in Nat /\ sum[n - (i - 1)] <= MAX_READ
          /\ KeyfileLength[kfs[n - (i - 1)]] \in Nat
      BY <1>1, <1>5, <2>2, <3>1
    <3>4. sum[n - i] <= MAX_READ
      BY <1>4, <3>2, <3>3
    <3> QED BY <2>2, <3>4
  <2> HIDE DEF S
  <2>3. 0 .. n \subseteq S
    BY <1>1, <2>1, <2>2, InductionUpTo
  <2> QED BY <2>3 DEF S
<1>7. ASSUME NEW i \in 0 .. n PROVE sum[i] <= MAX_READ
  <2>1. n - i \in 0 .. n /\ n - (n - i) = i
    BY <1>1, <1>7
  <2> QED BY <1>6, <2>1
<1> QED BY <1>3, <1>5, <1>7 DEF n

-----------------------------------------------------------------------------
\* The pool of a regular list

\* What keyfile f contributes when it is read to its end
Part(f) == <<f, KeyfileLength[f]>>

\* The places of f among the first i keyfiles
Places(kfs, i, f) == {j \in 1 .. i : kfs[j] = f}

\* The pool after i keyfiles, each read to its end
PoolUpTo(kfs, i) ==
  [x \in {Part(kfs[j]) : j \in 1 .. i} |-> Cardinality(Places(kfs, i, x[1]))]

\* A file has finitely many places, and none when it does not occur.
LEMMA PlacesFinite ==
  ASSUME NEW kfs, NEW i \in Nat, NEW f
  PROVE  /\ IsFiniteSet(Places(kfs, i, f)) /\ Cardinality(Places(kfs, i, f)) \in Nat
         /\ Cardinality(Places(kfs, i, f)) = 0 <=> \A j \in 1 .. i : kfs[j] # f
<1>1. IsFiniteSet(1 .. i)
  BY FS_Interval
<1>2. Places(kfs, i, f) \in SUBSET (1 .. i)
  BY DEF Places
<1>3. IsFiniteSet(Places(kfs, i, f))
  BY <1>1, <1>2, FS_Subset
<1>4. Cardinality(Places(kfs, i, f)) \in Nat
  BY <1>3, FS_CardinalityType
<1>5. Cardinality(Places(kfs, i, f)) = 0 <=> Places(kfs, i, f) = {}
  BY <1>3, FS_EmptySet
<1>6. Places(kfs, i, f) = {} <=> \A j \in 1 .. i : kfs[j] # f
  BY DEF Places
<1> QED BY <1>3, <1>4, <1>5, <1>6

\* The next keyfile adds a place to the file that it is.
LEMMA PlacesNext ==
  ASSUME NEW kfs, NEW i \in Nat, i >= 1, NEW f
  PROVE  Cardinality(Places(kfs, i, f)) =
           Cardinality(Places(kfs, i - 1, f)) + (IF kfs[i] = f THEN 1 ELSE 0)
<1>1. i - 1 \in Nat
  OBVIOUS
<1>2. IsFiniteSet(Places(kfs, i - 1, f)) /\ Cardinality(Places(kfs, i - 1, f)) \in Nat
  BY <1>1, PlacesFinite
<1>3. CASE kfs[i] = f
  <2>1. Places(kfs, i, f) = Places(kfs, i - 1, f) \cup {i} /\ i \notin Places(kfs, i - 1, f)
    BY <1>3 DEF Places
  <2> QED BY <1>2, <1>3, <2>1, FS_AddElement
<1>4. CASE kfs[i] # f
  <2>1. Places(kfs, i, f) = Places(kfs, i - 1, f)
    BY <1>4 DEF Places
  <2> QED BY <1>2, <1>4, <2>1
<1> QED BY <1>3, <1>4

\* The next keyfile adds one copy of its part to the pool.
LEMMA PoolNext ==
  ASSUME NEW kfs, NEW i \in Nat, i >= 1
  PROVE  PoolUpTo(kfs, i) = PoolUpTo(kfs, i - 1) (+) SetToBag({Part(kfs[i])})
<1> DEFINE D(k) == {Part(kfs[j]) : j \in 1 .. k}
           C(k, x) == Cardinality(Places(kfs, k, x[1]))
           new == Part(kfs[i])
           old == PoolUpTo(kfs, i - 1)
           one == SetToBag({new})
<1>1. D(i) = D(i - 1) \cup {new}
  BY DEF Part
<1>2. DOMAIN old = D(i - 1) /\ \A x \in D(i - 1) : old[x] = C(i - 1, x)
  BY DEF PoolUpTo
<1>3. DOMAIN one = {new} /\ one[new] = 1
  BY DEF SetToBag
<1>4. PoolUpTo(kfs, i) = [x \in D(i) |-> C(i, x)]
  BY DEF PoolUpTo
<1>5. \A j, k : Part(kfs[j])[1] = kfs[j] /\ (kfs[j] = kfs[k] => Part(kfs[j]) = Part(kfs[k]))
  BY DEF Part
<1> HIDE DEF old, one
<1>6. ASSUME NEW x \in D(i)
      PROVE  C(i, x) = (IF x \in D(i - 1) THEN old[x] ELSE 0) + (IF x \in {new} THEN one[x] ELSE 0)
  <2>1. C(i, x) = C(i - 1, x) + (IF kfs[i] = x[1] THEN 1 ELSE 0) /\ C(i - 1, x) \in Nat
    <3>1. i - 1 \in Nat
      OBVIOUS
    <3> QED BY <3>1, PlacesNext, PlacesFinite
  <2>2. PICK k \in 1 .. i : x = Part(kfs[k])
    BY <1>6
  <2>3. kfs[i] = x[1] <=> x = new
    BY <1>5, <2>2
  <2>4. x \notin D(i - 1) => C(i - 1, x) = 0
    <3>1. SUFFICES ASSUME x \notin D(i - 1) PROVE \A j \in 1 .. i - 1 : kfs[j] # x[1]
      <4>1. i - 1 \in Nat
        OBVIOUS
      <4> QED BY <4>1, PlacesFinite
    <3>2. ASSUME NEW j \in 1 .. i - 1, kfs[j] = x[1] PROVE FALSE
      <4>1. Part(kfs[j]) = x
        BY <1>5, <2>2, <3>2
      <4> QED BY <3>1, <3>2, <4>1
    <3> QED BY <3>2
  <2> HIDE DEF D, C, new
  <2> QED BY <1>2, <1>3, <2>1, <2>3, <2>4
<1>7. old (+) one = [x \in D(i) |-> (IF x \in D(i - 1) THEN old[x] ELSE 0)
                                     + (IF x \in {new} THEN one[x] ELSE 0)]
  <2> HIDE DEF D, new
  <2> QED BY <1>1, <1>2, <1>3 DEF (+)
<1> HIDE DEF D, C, new
<1>8. PoolUpTo(kfs, i) = old (+) one
  BY <1>4, <1>6, <1>7
<1> QED BY <1>8 DEF old, one, new

\* A keyfile that is not empty and fits is read to its end.
LEMMA ReadWhole ==
  ASSUME NEW old, NEW path, old.ended = FALSE,
         NEW n, n = Smaller(KeyfileLength[path], MAX_READ - old.total), n # 0
  PROVE  ReadKeyfile(old, path) =
           [total |-> old.total + n, pool |-> old.pool (+) SetToBag({<<path, n>>}),
            ended |-> FALSE]
BY DEF ReadKeyfile

\* Reading a regular list leaves a pool that counts how often each file occurs.
LEMMA PoolIs ==
  ASSUME NEW kfs \in KeyfileLists, Regular(kfs)
  PROVE  ReadKeyfiles(kfs)[Len(kfs)].pool = PoolUpTo(kfs, Len(kfs))
<1> DEFINE n == Len(kfs)
           step == ReadKeyfiles(kfs)
           sum == LengthUpTo(kfs)
           At(i) == [total |-> sum[i], pool |-> PoolUpTo(kfs, i), ended |-> FALSE]
           S == {i \in 0 .. n : step[i] = At(i)}
<1>1. n \in Nat /\ \A i \in 1 .. n : KeyfileLength[kfs[i]] \in Nat /\ KeyfileLength[kfs[i]] > 0
  BY ListIs DEF Regular
<1>2. /\ sum[0] = 0
      /\ \A i \in 0 .. n : sum[i] \in Nat /\ sum[i] <= MAX_READ
      /\ \A i \in 1 .. n : sum[i] = sum[i - 1] + KeyfileLength[kfs[i]]
  BY SumBounded
<1>3. step = [i \in 0 .. n |->
                IF i = 0 THEN NoKeyfiles ELSE ReadKeyfile(step[i - 1], kfs[i])]
  BY <1>1, ReadKeyfilesDef
<1> HIDE DEF n, step, sum
<1>4. 0 \in S
  <2>1. step[0] = NoKeyfiles
    BY <1>1, <1>3
  <2>2. PoolUpTo(kfs, 0) = EmptyBag
    BY DEF PoolUpTo, EmptyBag, SetToBag
  <2>3. At(0) = [total |-> 0, pool |-> EmptyBag, ended |-> FALSE]
    BY <1>2, <2>2
  <2>4. step[0] = At(0)
    BY <2>1, <2>3 DEF NoKeyfiles
  <2> HIDE DEF At
  <2> QED BY <1>1, <2>4
<1>5. ASSUME NEW i \in 1 .. n, i - 1 \in S PROVE i \in S
  <2> DEFINE len == KeyfileLength[kfs[i]]
             old == At(i - 1)
  <2>1. /\ step[i] = ReadKeyfile(old, kfs[i])
        /\ i - 1 \in 0 .. n /\ i \in 0 .. n /\ i \in Nat /\ i >= 1
    BY <1>1, <1>3, <1>5
  <2>2. /\ len \in Nat /\ len > 0 /\ sum[i - 1] \in Nat /\ sum[i] = sum[i - 1] + len
        /\ sum[i] <= MAX_READ
    BY <1>1, <1>2, <1>5, <2>1
  <2>3. old.total = sum[i - 1] /\ old.pool = PoolUpTo(kfs, i - 1) /\ old.ended = FALSE
    OBVIOUS
  <2>4. Smaller(len, MAX_READ - sum[i - 1]) = len
    BY <2>2, KeyfileAssumption DEF Smaller
  <2> HIDE DEF old
  <2>5. ReadKeyfile(old, kfs[i]) =
          [total |-> sum[i - 1] + len,
           pool |-> PoolUpTo(kfs, i - 1) (+) SetToBag({<<kfs[i], len>>}),
           ended |-> FALSE]
    <3>1. len # 0
      BY <2>2
    <3> HIDE DEF len
    <3> QED BY <2>3, <2>4, <3>1, ReadWhole DEF len
  <2>6. PoolUpTo(kfs, i) = PoolUpTo(kfs, i - 1) (+) SetToBag({<<kfs[i], len>>})
    BY <2>1, PoolNext DEF Part
  <2> HIDE DEF len
  <2>7. step[i] = At(i)
    BY <2>1, <2>2, <2>5, <2>6
  <2> QED BY <2>1, <2>7
<1> HIDE DEF S
<1>6. 0 .. n \subseteq S
  BY <1>1, <1>4, <1>5, InductionUpTo
<1>7. n \in S
  BY <1>1, <1>6
<1>8. step[n].pool = PoolUpTo(kfs, n)
  BY <1>7 DEF S
<1> QED BY <1>8 DEF n, step

-----------------------------------------------------------------------------
\* Pools and files

\* The pool of a list counts a file as often as it occurs in the list.
LEMMA PoolCounts ==
  ASSUME NEW kfs \in KeyfileLists, NEW f, NEW pool, pool = PoolUpTo(kfs, Len(kfs))
  PROVE  /\ Times(f, kfs) \in Nat
         /\ Part(f) \in DOMAIN pool <=> Times(f, kfs) # 0
         /\ Part(f) \in DOMAIN pool => pool[Part(f)] = Times(f, kfs)
<1> DEFINE n == Len(kfs)
<1>1. n \in Nat /\ DOMAIN kfs = 1 .. n
  BY ListIs
<1>2. Times(f, kfs) = Cardinality(Places(kfs, n, f))
  BY <1>1 DEF Times, Places
<1> HIDE DEF n
<1>3. Times(f, kfs) \in Nat /\ (Times(f, kfs) = 0 <=> \A j \in 1 .. n : kfs[j] # f)
  BY <1>1, <1>2, PlacesFinite
<1>4. pool = [x \in {Part(kfs[j]) : j \in 1 .. n} |-> Cardinality(Places(kfs, n, x[1]))]
  BY DEF PoolUpTo, n
<1>5. Part(f)[1] = f /\ \A j \in 1 .. n : Part(kfs[j]) = Part(f) <=> kfs[j] = f
  BY DEF Part
<1>6. Part(f) \in DOMAIN pool <=> \E j \in 1 .. n : kfs[j] = f
  BY <1>4, <1>5
<1>7. Part(f) \in DOMAIN pool => pool[Part(f)] = Cardinality(Places(kfs, n, f))
  BY <1>4, <1>5
<1> QED BY <1>2, <1>3, <1>6, <1>7

\* Two lists fill the pool alike exactly when they hold the same files.
LEMMA PoolsTellFiles ==
  ASSUME NEW k \in KeyfileLists, NEW l \in KeyfileLists
  PROVE  PoolUpTo(k, Len(k)) = PoolUpTo(l, Len(l)) <=> SameFiles(k, l)
<1> DEFINE P == PoolUpTo(k, Len(k))
           Q == PoolUpTo(l, Len(l))
<1>1. \A f : /\ Part(f) \in DOMAIN P <=> Times(f, k) # 0
             /\ Part(f) \in DOMAIN P => P[Part(f)] = Times(f, k)
  BY PoolCounts
<1>2. \A f : /\ Part(f) \in DOMAIN Q <=> Times(f, l) # 0
             /\ Part(f) \in DOMAIN Q => Q[Part(f)] = Times(f, l)
  BY PoolCounts
<1>3. \A x \in DOMAIN P : \E f \in DOMAIN KeyfileLength : x = Part(f)
  BY ListIs DEF PoolUpTo
<1>4. \A x \in DOMAIN Q : \E f \in DOMAIN KeyfileLength : x = Part(f)
  BY ListIs DEF PoolUpTo
<1>5. P = [x \in DOMAIN P |-> P[x]] /\ Q = [x \in DOMAIN Q |-> Q[x]]
  BY DEF PoolUpTo
<1> HIDE DEF P, Q
<1>6. ASSUME P = Q PROVE SameFiles(k, l)
  <2>1. ASSUME NEW f PROVE Times(f, k) = Times(f, l)
    BY <1>1, <1>2, <1>6
  <2> QED BY <2>1 DEF SameFiles
<1>7. ASSUME SameFiles(k, l) PROVE P = Q
  <2>1. \A f \in DOMAIN KeyfileLength : Times(f, k) = Times(f, l)
    BY <1>7 DEF SameFiles
  <2>2. \A x \in DOMAIN P : x \in DOMAIN Q /\ P[x] = Q[x]
    BY <1>1, <1>2, <1>3, <2>1
  <2>3. \A x \in DOMAIN Q : x \in DOMAIN P
    BY <1>1, <1>2, <1>4, <2>1
  <2>4. DOMAIN P = DOMAIN Q
    BY <2>2, <2>3
  <2> QED BY <1>5, <2>2, <2>4
<1> QED BY <1>6, <1>7 DEF P, Q

\* What apply_keyfiles makes of a regular list: the pool of its files
LEMMA AppliedIs ==
  ASSUME NEW kfs \in KeyfileLists, Regular(kfs), NEW pw
  PROVE  ApplyKeyfiles(pw, kfs) =
           [pw |-> pw, pool |-> PoolUpTo(kfs, Len(kfs)), padded |-> kfs # <<>>]
<1>1. CASE kfs = <<>>
  <2>1. PoolUpTo(kfs, Len(kfs)) = EmptyBag
    BY <1>1 DEF PoolUpTo, EmptyBag, SetToBag
  <2> QED BY <1>1, <2>1 DEF ApplyKeyfiles
<1>2. CASE kfs # <<>>
  BY <1>2, PoolIs DEF ApplyKeyfiles
<1> QED BY <1>1, <1>2

\* Lists of the same files are both empty or both not.
LEMMA SameEmpty ==
  ASSUME NEW k \in KeyfileLists, NEW l \in KeyfileLists, SameFiles(k, l), k = <<>>
  PROVE  l = <<>>
<1>1. SUFFICES ASSUME l # <<>> PROVE FALSE
  OBVIOUS
<1>2. Len(l) \in Nat /\ Len(l) # 0
  BY <1>1, ListIs DEF KeyfileLists
<1>3. 1 \in 1 .. Len(l)
  BY <1>2
<1>4. PoolUpTo(k, Len(k)) = PoolUpTo(l, Len(l))
  BY PoolsTellFiles
<1>5. DOMAIN PoolUpTo(k, Len(k)) = {}
  BY DEF PoolUpTo
<1>6. Part(l[1]) \in DOMAIN PoolUpTo(l, Len(l))
  BY <1>3 DEF PoolUpTo
<1> QED BY <1>4, <1>5, <1>6

\* apply_keyfiles tells two regular lists apart exactly when they do not hold
\* the same files equally often: their order is lost, nothing else is.
LEMMA KeyfilesTold ==
  ASSUME NEW k \in KeyfileLists, NEW l \in KeyfileLists, Regular(k), Regular(l)
  PROVE  /\ SameFiles(k, l) => \A pw : ApplyKeyfiles(pw, k) = ApplyKeyfiles(pw, l)
         /\ \A pw, qw : ApplyKeyfiles(pw, k).pool = ApplyKeyfiles(qw, l).pool => SameFiles(k, l)
<1>1. ASSUME SameFiles(k, l), NEW pw PROVE ApplyKeyfiles(pw, k) = ApplyKeyfiles(pw, l)
  <2>1. PoolUpTo(k, Len(k)) = PoolUpTo(l, Len(l))
    BY <1>1, PoolsTellFiles
  <2>2. SameFiles(l, k)
    BY <1>1 DEF SameFiles
  <2>3. (k # <<>>) = (l # <<>>)
    BY <1>1, <2>2, SameEmpty
  <2>4. /\ ApplyKeyfiles(pw, k) =
             [pw |-> pw, pool |-> PoolUpTo(k, Len(k)), padded |-> k # <<>>]
        /\ ApplyKeyfiles(pw, l) =
             [pw |-> pw, pool |-> PoolUpTo(l, Len(l)), padded |-> l # <<>>]
    BY AppliedIs
  <2> QED BY <2>1, <2>3, <2>4
<1>2. ASSUME NEW pw, NEW qw, ApplyKeyfiles(pw, k).pool = ApplyKeyfiles(qw, l).pool
      PROVE  SameFiles(k, l)
  <2>1. ApplyKeyfiles(pw, k).pool = PoolUpTo(k, Len(k))
    BY AppliedIs
  <2>2. ApplyKeyfiles(qw, l).pool = PoolUpTo(l, Len(l))
    BY AppliedIs
  <2> QED BY <1>2, <2>1, <2>2, PoolsTellFiles
<1> QED BY <1>1, <1>2

=============================================================================
