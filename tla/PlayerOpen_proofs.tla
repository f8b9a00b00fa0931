-------------------------- MODULE PlayerOpen_proofs --------------------------
(* For every set of plugins, every file, ini file and parameters, and any   *)
(* number of sessions: the lists of plugins end and hold what is built in,  *)
(* a demuxer is shown the head of the file, what is played was chosen, and  *)
(* a player that played to its end leaves nothing open.                     *)
(*                                                                          *)
(* The lists are walked by a recursive function.  What it computes is shown *)
(* by induction on the length of the walk, which is taken from the least    *)
(* element of a set of numbers.                                             *)
EXTENDS PlayerOpen, FiniteSetTheorems, SequenceTheorems, TLAPS

-----------------------------------------------------------------------------
(* Numbers.                                                                 *)

\* A set of natural numbers has a least one: the intervals below its elements
\* are finite, and finite sets are well founded by inclusion.
LEMMA Least ==
  ASSUME NEW S \in SUBSET Nat, S # {}
  PROVE  \E x \in S : \A y \in S : x <= y
<1> DEFINE below(n) == 0 .. n - 1
           T == {below(n) : n \in S}
<1>1. \A n \in S : IsFiniteSet(below(n)) /\ below(n) \subseteq Nat
  BY FS_Interval
<1>2. T \subseteq FiniteSubsetsOf(Nat) /\ T # {}
  BY <1>1 DEF FiniteSubsetsOf
<1> HIDE DEF T
<1>3. PICK t \in T : \A u \in T : ~ (<<u, t>> \in StrictSubsetOrdering(Nat))
  BY <1>2, FS_StrictSubsetOrderingWellFounded, WFMin
<1>4. PICK x \in S : t = below(x)
  BY DEF T
<1>5. ASSUME NEW y \in S, y < x
      PROVE  FALSE
  <2>1. below(y) \in T
    BY DEF T
  <2>2. below(y) \subseteq below(x) /\ below(y) # below(x)
    <3>1. y \in below(x) /\ y \notin below(y)
      BY <1>5
    <3> QED BY <1>5, <3>1
  <2>3. <<below(y), below(x)>> \in StrictSubsetOrdering(Nat)
    BY <1>1, <2>2 DEF StrictSubsetOrdering
  <2> QED BY <1>3, <1>4, <2>1, <2>3
<1> QED BY <1>5

\* The smaller and the greater of two numbers.
LEMMA MinMax ==
  ASSUME NEW a \in Int, NEW b \in Int
  PROVE  /\ Min({a, b}) = IF a <= b THEN a ELSE b
         /\ Max({a, b}) = IF a >= b THEN a ELSE b
BY DEF Min, Max

-----------------------------------------------------------------------------
(* Walking a list.                                                          *)

LEMMA BoundNat == Bound \in Nat
BY PluginsAssumption, FS_CardinalityType DEF Bound

\* The pointers of list k up to the n-th.
Step(k, walk, i) ==
  IF i = 0 THEN head[k] ELSE IF walk[i - 1] = Null THEN Null ELSE next[walk[i - 1]]
IsWalk(k, walk, n) == walk = [i \in 0 .. n |-> Step(k, walk, i)]

LEMMA WalkExists ==
  ASSUME NEW k \in Kind, NEW n \in Nat
  PROVE  \E walk : IsWalk(k, walk, n)
<1> DEFINE Stuck == {m \in Nat : ~ \E walk : IsWalk(k, walk, m)}
<1> SUFFICES ASSUME Stuck # {} PROVE FALSE
  OBVIOUS
<1>1. PICK m \in Stuck : \A y \in Stuck : m <= y
  BY Least
<1>2. CASE m = 0
  <2>1. IsWalk(k, [i \in 0 .. 0 |-> head[k]], 0)
    BY DEF IsWalk, Step
  <2> QED BY <1>1, <1>2, <2>1
<1>3. CASE m # 0
  <2>1. m - 1 \in Nat /\ m - 1 \notin Stuck
    BY <1>1, <1>3
  <2>2. PICK w : IsWalk(k, w, m - 1)
    BY <2>1
  <2> DEFINE longer == [i \in 0 .. m |-> IF i = m THEN IF w[m - 1] = Null THEN Null ELSE next[w[m - 1]]
                                         ELSE w[i]]
  <2>3. \A i \in 0 .. m - 1 : w[i] = Step(k, w, i)
    BY <2>2 DEF IsWalk
  <2>4. \A i \in 0 .. m : longer[i] = Step(k, longer, i)
    BY <2>1, <2>3, <1>3 DEF Step
  <2>5. longer = [i \in 0 .. m |-> longer[i]]
    OBVIOUS
  <2> HIDE DEF longer
  <2>6. IsWalk(k, longer, m)
    BY <2>4, <2>5 DEF IsWalk
  <2> QED BY <1>1, <2>6
<1> QED BY <1>2, <1>3

LEMMA NthIs ==
  ASSUME NEW k \in Kind
  PROVE  \A i \in 0 .. Bound : Nth(k)[i] = Step(k, Nth(k), i)
<1>1. \E walk : IsWalk(k, walk, Bound)
  BY WalkExists, BoundNat
<1>2. Nth(k) = CHOOSE walk : IsWalk(k, walk, Bound)
  BY DEF Nth, IsWalk, Step
<1>3. IsWalk(k, Nth(k), Bound)
  BY <1>1, <1>2
<1> QED BY <1>3 DEF IsWalk

\* What First finds was looked for.
LEMMA FirstFits ==
  ASSUME NEW k, NEW fitting
  PROVE  First(k, fitting) \in fitting \cup {Null}
<1> DEFINE at == {n \in 0 .. Bound : Nth(k)[n] \in fitting}
<1>1. CASE at = {}
  BY <1>1 DEF First
<1>2. CASE at # {}
  <2>1. at \in SUBSET Nat
    BY BoundNat
  <2>2. \E n \in at : \A m \in at : n <= m
    BY <1>2, <2>1, Least
  <2>3. (CHOOSE n \in at : \A m \in at : n <= m) \in at
    BY <2>2
  <2> QED BY <1>2, <2>3 DEF First
<1> QED BY <1>1, <1>2

-----------------------------------------------------------------------------
(* The plugins in a list.                                                   *)

\* s are the n plugins of list k, from the head on.
IsList(k, n, s) ==
  /\ s \in [1 .. n -> Plugin]
  /\ \A i \in 1 .. n : KindOf(s[i]) = k
  /\ \A i, j \in 1 .. n : s[i] = s[j] => i = j
  /\ head[k] = IF n = 0 THEN Null ELSE s[1]
  /\ \A i \in 1 .. n : next[s[i]] = IF i = n THEN Null ELSE s[i + 1]

\* Distinct plugins are no more than there are.
LEMMA ListShort ==
  ASSUME NEW n \in Nat, NEW s \in [1 .. n -> Plugin],
         \A i, j \in 1 .. n : s[i] = s[j] => i = j
  PROVE  n <= Bound
<1>1. s \in Injection(1 .. n, Plugin)
  BY DEF Injection, IsInjective
<1>2. Cardinality(1 .. n) <= Cardinality(Plugin)
  BY <1>1, FS_Injection, PluginsAssumption
<1>3. Cardinality(1 .. n) = n
  BY FS_Interval
<1> QED BY <1>2, <1>3 DEF Bound

\* The walk goes through the list and then stays at Null.
LEMMA WalkList ==
  ASSUME NEW k \in Kind, NEW n \in Nat, NEW s, IsList(k, n, s)
  PROVE  \A i \in 0 .. Bound : Nth(k)[i] = IF i < n THEN s[i + 1] ELSE Null
<1> DEFINE Expected(i) == IF i < n THEN s[i + 1] ELSE Null
           Off == {i \in 0 .. Bound : Nth(k)[i] # Expected(i)}
<1> SUFFICES ASSUME Off # {} PROVE FALSE
  OBVIOUS
<1>1. Off \in SUBSET Nat
  BY BoundNat
<1>2. PICK m \in Off : \A y \in Off : m <= y
  BY <1>1, Least
<1>3. m \in Nat /\ m \in 0 .. Bound
  BY <1>1
<1>4. CASE m = 0
  <2>1. Nth(k)[0] = head[k]
    BY <1>3, <1>4, NthIs DEF Step
  <2> QED BY <1>2, <1>4, <2>1 DEF IsList
<1>5. CASE m # 0
  <2>1. m - 1 \in 0 .. Bound /\ m - 1 \notin Off
    BY <1>2, <1>3, <1>5, BoundNat
  <2>2. Nth(k)[m - 1] = Expected(m - 1)
    BY <2>1
  <2>3. Nth(k)[m] = IF Nth(k)[m - 1] = Null THEN Null ELSE next[Nth(k)[m - 1]]
    BY <1>3, <1>5, NthIs DEF Step
  <2>4. CASE m - 1 < n
    <3>1. m \in 1 .. n /\ Nth(k)[m - 1] = s[m] /\ s[m] \in Plugin
      BY <1>3, <1>5, <2>2, <2>4 DEF IsList
    <3>2. Nth(k)[m] = IF m = n THEN Null ELSE s[m + 1]
      BY <2>3, <3>1, PluginsAssumption DEF IsList
    <3> QED BY <1>2, <1>3, <3>1, <3>2
  <2>5. CASE ~(m - 1 < n)
    BY <1>2, <1>3, <2>2, <2>3, <2>5
  <2> QED BY <2>4, <2>5
<1> QED BY <1>4, <1>5

LEMMA ListFacts ==
  ASSUME NEW k \in Kind, NEW n \in Nat, NEW s, IsList(k, n, s)
  PROVE  n <= Bound /\ Ends(k) /\ Listed(k) = {s[i] : i \in 1 .. n}
<1>1. n <= Bound
  BY ListShort DEF IsList
<1>2. \A i \in 0 .. Bound : Nth(k)[i] = IF i < n THEN s[i + 1] ELSE Null
  BY WalkList
<1>3. Ends(k)
  BY <1>1, <1>2, BoundNat DEF Ends
<1>4. ASSUME NEW p \in Listed(k)
      PROVE  \E i \in 1 .. n : p = s[i]
  <2>1. PICK i \in 0 .. Bound : p = Nth(k)[i] /\ p # Null
    BY <1>4 DEF Listed
  <2>2. i < n /\ p = s[i + 1]
    BY <1>2, <2>1
  <2>3. i + 1 \in 1 .. n
    BY <2>2, BoundNat
  <2> QED BY <2>2, <2>3
<1>5. ASSUME NEW i \in 1 .. n
      PROVE  s[i] \in Listed(k)
  <2>1. i - 1 \in 0 .. Bound /\ i - 1 < n
    BY <1>1, BoundNat
  <2>2. Nth(k)[i - 1] = s[i]
    BY <1>2, <2>1
  <2>3. s[i] # Null
    BY PluginsAssumption DEF IsList
  <2> QED BY <2>1, <2>2, <2>3 DEF Listed
<1> QED BY <1>1, <1>3, <1>4, <1>5

-----------------------------------------------------------------------------
(* The lists stay lists.                                                    *)

\* The built-in plugins are in every list or, before they are registered, in
\* none.
InList(k, n, s) ==
  \A i \in DOMAIN Internal[k] : (\E j \in 1 .. n : s[j] = Internal[k][i]) <=> register_ok

ListInv ==
  /\ head \in [Kind -> Plugin \cup {Null}] /\ next \in [Plugin -> Plugin \cup {Null}]
  /\ register_ok \in BOOLEAN
  /\ \A k \in Kind : \E n \in Nat : \E s : IsList(k, n, s) /\ InList(k, n, s)

LEMMA ListsInitially ==
  ASSUME PluginsInit
  PROVE  ListInv
<1>1. head \in [Kind -> Plugin \cup {Null}] /\ next \in [Plugin -> Plugin \cup {Null}]
  BY DEF PluginsInit
<1>2. register_ok \in BOOLEAN /\ register_ok = FALSE
  BY DEF PluginsInit
<1>3. ASSUME NEW k \in Kind
      PROVE  IsList(k, 0, [i \in 1 .. 0 |-> Null]) /\ InList(k, 0, [i \in 1 .. 0 |-> Null])
  BY <1>2 DEF IsList, InList, PluginsInit
<1> QED BY <1>1, <1>2, <1>3 DEF ListInv

\* Internal[k] as a list: of kind k, without repetition, and where a plugin is.
LEMMA InternalFacts ==
  ASSUME NEW k \in Kind
  PROVE  /\ Len(Internal[k]) \in Nat /\ DOMAIN Internal[k] = 1 .. Len(Internal[k])
         /\ Internal[k] = <<>> <=> Len(Internal[k]) = 0
         /\ \A i \in 1 .. Len(Internal[k]) :
              /\ Internal[k][i] \in Plugin /\ KindOf(Internal[k][i]) = k
              /\ IsInternal(Internal[k][i]) /\ Place(Internal[k][i]) = i
         /\ \A i, j \in 1 .. Len(Internal[k]) : Internal[k][i] = Internal[k][j] => i = j
<1>1. Internal[k] \in Seq(Plugin)
  BY PluginsAssumption
<1>2. /\ Len(Internal[k]) \in Nat /\ DOMAIN Internal[k] = 1 .. Len(Internal[k])
      /\ \A i \in 1 .. Len(Internal[k]) : Internal[k][i] \in Plugin
  BY <1>1
<1>3. Internal[k] # <<>> => Len(Internal[k]) # 0
  BY <1>1, EmptySeq
<1>4. Internal[k] = <<>> => Len(Internal[k]) = 0
  BY EmptySeq
<1>5. \A i, j \in 1 .. Len(Internal[k]) :
        KindOf(Internal[k][i]) = k /\ (Internal[k][i] = Internal[k][j] => i = j)
  BY <1>2, PluginsAssumption DEF KindOf
<1>6. ASSUME NEW i \in 1 .. Len(Internal[k])
      PROVE  IsInternal(Internal[k][i]) /\ Place(Internal[k][i]) = i
  BY <1>2, <1>5 DEF IsInternal, Place
<1> QED BY <1>2, <1>3, <1>4, <1>5, <1>6

\* player_register_all puts the built-in plugins behind those of the
\* application.
LEMMA RegisterAllKeeps ==
  ASSUME ListInv, player_register_all
  PROVE  ListInv' /\ register_ok'
<1>1. CASE register_ok
  <2>1. UNCHANGED <<head, next, register_ok>>
    BY <1>1 DEF player_register_all, pluginvars
  <2> QED BY <1>1, <2>1 DEF ListInv, IsList, InList
<1>2. CASE ~register_ok
  <2>1. /\ register_ok' = TRUE
        /\ head' = [k \in Kind |-> IF head[k] = Null THEN FirstInternal(k) ELSE head[k]]
        /\ next' = [p \in Plugin |-> Appended(p)]
    BY <1>2 DEF player_register_all
  <2>2. ASSUME NEW k \in Kind
        PROVE  \E n \in Nat : \E s : IsList(k, n, s)' /\ InList(k, n, s)'
    <3>0. PICK n \in Nat : \E s : IsList(k, n, s) /\ InList(k, n, s)
      BY DEF ListInv
    <3>1. PICK s : IsList(k, n, s) /\ InList(k, n, s)
      BY <3>0
    <3> DEFINE m == Len(Internal[k])
               all == [i \in 1 .. n + m |-> IF i <= n THEN s[i] ELSE Internal[k][i - n]]
    <3>2. /\ m \in Nat /\ DOMAIN Internal[k] = 1 .. m /\ (Internal[k] = <<>> <=> m = 0)
          /\ \A i \in 1 .. m : /\ Internal[k][i] \in Plugin /\ KindOf(Internal[k][i]) = k
                              /\ IsInternal(Internal[k][i]) /\ Place(Internal[k][i]) = i
          /\ \A i, j \in 1 .. m : Internal[k][i] = Internal[k][j] => i = j
      BY InternalFacts
    <3> HIDE DEF m
    <3>3. \A i \in 1 .. m : \A j \in 1 .. n : s[j] # Internal[k][i]
      BY <1>2, <3>1, <3>2 DEF InList
    <3>4. \A i \in 1 .. n : s[i] \in Plugin /\ KindOf(s[i]) = k /\ s[i] # Null
      BY <3>1, PluginsAssumption DEF IsList
    <3>5. \A i \in 1 .. n : ~IsInternal(s[i])
      BY <3>2, <3>3, <3>4 DEF IsInternal
    <3>6. FirstInternal(k) = IF m = 0 THEN Null ELSE Internal[k][1]
      BY <3>2 DEF FirstInternal
    <3>7. /\ all \in [1 .. n + m -> Plugin]
          /\ \A i \in 1 .. n + m : KindOf(all[i]) = k
          /\ \A i, j \in 1 .. n + m : all[i] = all[j] => i = j
      <4>1. \A i \in 1 .. n + m : i > n => i - n \in 1 .. m
        BY <3>2
      <4>2. \A i \in 1 .. n + m : i <= n => i \in 1 .. n
        BY <3>2
      <4>3. all \in [1 .. n + m -> Plugin] /\ \A i \in 1 .. n + m : KindOf(all[i]) = k
        BY <3>2, <3>4, <4>1, <4>2
      <4>4. ASSUME NEW i \in 1 .. n + m, NEW j \in 1 .. n + m, all[i] = all[j]
            PROVE  i = j
        <5>1. CASE i <= n /\ j <= n
          BY <3>1, <4>2, <4>4, <5>1 DEF IsList
        <5>2. CASE i > n /\ j > n
          BY <3>2, <4>1, <4>4, <5>2
        <5>3. CASE i <= n /\ j > n
          BY <3>3, <4>1, <4>2, <4>4, <5>3
        <5>4. CASE i > n /\ j <= n
          BY <3>3, <4>1, <4>2, <4>4, <5>4
        <5> QED BY <5>1, <5>2, <5>3, <5>4
      <4> QED BY <4>3, <4>4
    <3>8. head'[k] = IF n + m = 0 THEN Null ELSE all[1]
      <4>1. head'[k] = IF head[k] = Null THEN FirstInternal(k) ELSE head[k]
        BY <2>1
      <4>2. CASE n = 0
        BY <3>1, <3>2, <3>6, <4>1, <4>2 DEF IsList
      <4>3. CASE n # 0
        <5>1. 1 \in 1 .. n /\ 1 \in 1 .. n + m /\ head[k] = s[1]
          BY <3>1, <3>2, <4>3 DEF IsList
        <5> QED BY <3>2, <3>4, <4>1, <4>3, <5>1
      <4> QED BY <4>2, <4>3
    <3>9. ASSUME NEW i \in 1 .. n + m
          PROVE  next'[all[i]] = IF i = n + m THEN Null ELSE all[i + 1]
      <4>1. next'[all[i]] = Appended(all[i])
        BY <2>1, <3>7
      <4>2. CASE i <= n
        <5>1. i \in 1 .. n /\ all[i] = s[i] /\ next[s[i]] = IF i = n THEN Null ELSE s[i + 1]
          BY <3>1, <4>2 DEF IsList
        <5>2. s[i] \in Listed(KindOf(s[i]))
          BY <3>1, <3>4, <5>1, ListFacts
        <5>3. Appended(s[i]) = IF next[s[i]] = Null THEN FirstInternal(k) ELSE next[s[i]]
          BY <3>4, <3>5, <5>1, <5>2 DEF Appended
        <5>4. CASE i = n
          BY <3>2, <3>6, <4>1, <5>1, <5>3, <5>4
        <5>5. CASE i # n
          <6>1. i + 1 \in 1 .. n /\ i + 1 \in 1 .. n + m
            BY <3>2, <5>1, <5>5
          <6> QED BY <3>2, <3>4, <4>1, <5>1, <5>3, <5>5, <6>1
        <5> QED BY <5>4, <5>5
      <4>3. CASE i > n
        <5>1. i - n \in 1 .. m /\ all[i] = Internal[k][i - n]
          BY <3>2, <4>3
        <5>2. Appended(all[i]) = IF i - n = m THEN Null ELSE Internal[k][(i - n) + 1]
          BY <3>2, <5>1 DEF Appended, m
        <5>3. i # n + m => i + 1 \in 1 .. n + m /\ all[i + 1] = Internal[k][(i - n) + 1]
          BY <3>2, <4>3
        <5> QED BY <3>2, <4>1, <5>1, <5>2, <5>3
      <4> QED BY <3>2, <4>2, <4>3
    <3>10. \A i \in 1 .. m : n + i \in 1 .. n + m /\ all[n + i] = Internal[k][i]
      BY <3>2
    <3> HIDE DEF all
    <3>11. IsList(k, n + m, all)'
      BY <3>7, <3>8, <3>9 DEF IsList
    <3>12. InList(k, n + m, all)'
      BY <2>1, <3>2, <3>10 DEF InList
    <3>13. n + m \in Nat
      BY <3>2
    <3> QED BY <3>11, <3>12, <3>13
  <2>3. ASSUME NEW k \in Kind
        PROVE  FirstInternal(k) \in Plugin \cup {Null}
    <3>1. Internal[k] # <<>> => 1 \in 1 .. Len(Internal[k])
      BY InternalFacts
    <3> QED BY <3>1, InternalFacts DEF FirstInternal
  <2>4. \A p \in Plugin : Appended(p) \in Plugin \cup {Null}
    <3> TAKE p \in Plugin
    <3>1. CASE IsInternal(p)
      <4>1. PICK i \in DOMAIN Internal[KindOf(p)] : Internal[KindOf(p)][i] = p
        BY <3>1 DEF IsInternal
      <4>2. KindOf(p) \in Kind
        BY PluginsAssumption DEF KindOf
      <4>3. i \in 1 .. Len(Internal[KindOf(p)]) /\ Place(p) = i
        BY <4>1, <4>2, InternalFacts
      <4>4. i # Len(Internal[KindOf(p)]) => i + 1 \in 1 .. Len(Internal[KindOf(p)])
        BY <4>2, <4>3, InternalFacts
      <4>5. \A j \in 1 .. Len(Internal[KindOf(p)]) : Internal[KindOf(p)][j] \in Plugin
        BY <4>2, InternalFacts
      <4> QED BY <3>1, <4>3, <4>4, <4>5 DEF Appended
    <3>2. CASE ~IsInternal(p)
      <4>1. KindOf(p) \in Kind
        BY PluginsAssumption DEF KindOf
      <4>2. next[p] \in Plugin \cup {Null} /\ FirstInternal(KindOf(p)) \in Plugin \cup {Null}
        BY <2>3, <4>1 DEF ListInv
      <4> QED BY <3>2, <4>2 DEF Appended
    <3> QED BY <3>1, <3>2
  <2>5. head' \in [Kind -> Plugin \cup {Null}] /\ next' \in [Plugin -> Plugin \cup {Null}]
    BY <2>1, <2>3, <2>4 DEF ListInv
  <2> QED BY <2>1, <2>2, <2>5 DEF ListInv
<1> QED BY <1>1, <1>2 DEF ListInv

\* An application puts a plugin of its own in front of its list once.
LEMMA PutInFrontKeeps ==
  ASSUME ListInv, NEW p \in Plugin, ~IsInternal(p), p \notin Listed(KindOf(p)),
         PutInFront(KindOf(p), p)
  PROVE  ListInv'
<1> DEFINE kind == KindOf(p)
<1>1. /\ head' = [head EXCEPT ![kind] = p]
      /\ next' = [next EXCEPT ![p] = head[kind]]
      /\ register_ok' = register_ok
  BY DEF PutInFront
<1>2. kind \in Kind
  BY PluginsAssumption DEF KindOf
<1>3. head[kind] \in Plugin \cup {Null} /\ p # Null
  BY <1>2, PluginsAssumption DEF ListInv
<1>4. head' \in [Kind -> Plugin \cup {Null}] /\ next' \in [Plugin -> Plugin \cup {Null}]
  BY <1>1, <1>2, <1>3 DEF ListInv
<1>5. ASSUME NEW k \in Kind
      PROVE  \E n \in Nat : \E s : IsList(k, n, s)' /\ InList(k, n, s)'
  <2>0. PICK n \in Nat : \E s : IsList(k, n, s) /\ InList(k, n, s)
    BY DEF ListInv
  <2>1. PICK s : IsList(k, n, s) /\ InList(k, n, s)
    BY <2>0
  <2>2. CASE k # kind
    <3>1. \A i \in 1 .. n : s[i] # p
      BY <2>1, <2>2 DEF IsList
    <3>2. head'[k] = head[k]
      BY <1>1, <2>2 DEF ListInv
    <3>3. \A i \in 1 .. n : next'[s[i]] = next[s[i]]
      BY <1>1, <2>1, <3>1 DEF IsList, ListInv
    <3>4. IsList(k, n, s)'
      BY <2>1, <3>2, <3>3 DEF IsList
    <3>5. InList(k, n, s)'
      BY <1>1, <2>1 DEF InList
    <3> QED BY <3>4, <3>5
  <2>3. CASE k = kind
    <3> DEFINE all == [i \in 1 .. n + 1 |-> IF i = 1 THEN p ELSE s[i - 1]]
    <3>1. \A i \in 1 .. n : s[i] \in Plugin /\ KindOf(s[i]) = k /\ s[i] # p
      <4>1. Listed(k) = {s[i] : i \in 1 .. n}
        BY <2>1, ListFacts
      <4> QED BY <2>1, <2>3, <4>1 DEF IsList
    <3>2. \A i \in 1 .. n + 1 : i # 1 => i - 1 \in 1 .. n
      OBVIOUS
    <3>3. all \in [1 .. n + 1 -> Plugin] /\ \A i \in 1 .. n + 1 : KindOf(all[i]) = k
      BY <2>3, <3>1, <3>2
    <3>4. ASSUME NEW i \in 1 .. n + 1, NEW j \in 1 .. n + 1, all[i] = all[j]
          PROVE  i = j
      <4>1. CASE i = 1 \/ j = 1
        BY <3>1, <3>2, <3>4, <4>1
      <4>2. CASE i # 1 /\ j # 1
        BY <2>1, <3>2, <3>4, <4>2 DEF IsList
      <4> QED BY <4>1, <4>2
    <3>5. head'[k] = all[1] /\ 1 \in 1 .. n + 1 /\ n + 1 # 0 /\ n + 1 \in Nat
      BY <1>1, <1>2, <2>3 DEF ListInv
    <3>6. ASSUME NEW i \in 1 .. n + 1
          PROVE  next'[all[i]] = IF i = n + 1 THEN Null ELSE all[i + 1]
      <4>1. CASE i = 1
        <5>1. next'[p] = head[k] /\ all[i] = p
          BY <1>1, <2>3, <4>1 DEF ListInv
        <5>2. head[k] = IF n = 0 THEN Null ELSE s[1]
          BY <2>1 DEF IsList
        <5>3. n # 0 => all[2] = s[1]
          OBVIOUS
        <5> QED BY <4>1, <5>1, <5>2, <5>3
      <4>2. CASE i # 1
        <5>1. i - 1 \in 1 .. n /\ all[i] = s[i - 1]
          BY <3>2, <4>2
        <5>2. next'[s[i - 1]] = next[s[i - 1]]
          BY <1>1, <3>1, <5>1 DEF ListInv
        <5>3. next[s[i - 1]] = IF i - 1 = n THEN Null ELSE s[(i - 1) + 1]
          BY <2>1, <5>1 DEF IsList
        <5>4. i # n + 1 => all[i + 1] = s[(i - 1) + 1]
          BY <4>2
        <5> QED BY <5>1, <5>2, <5>3, <5>4
      <4> QED BY <4>1, <4>2
    <3>7. ASSUME NEW i \in DOMAIN Internal[k]
          PROVE  (\E j \in 1 .. n + 1 : all[j] = Internal[k][i]) <=> register_ok'
      <4>1. IsInternal(Internal[k][i])
        BY <3>7, InternalFacts
      <4>2. Internal[k][i] # p
        BY <4>1
      <4>3. \A j \in 1 .. n : j + 1 \in 1 .. n + 1 /\ all[j + 1] = s[j]
        OBVIOUS
      <4>4. (\E j \in 1 .. n : s[j] = Internal[k][i]) <=> register_ok
        BY <2>1 DEF InList
      <4>5. (\E j \in 1 .. n + 1 : all[j] = Internal[k][i])
              <=> (\E j \in 1 .. n : s[j] = Internal[k][i])
        BY <3>2, <4>2, <4>3
      <4> QED BY <1>1, <4>4, <4>5
    <3> HIDE DEF all
    <3>8. IsList(k, n + 1, all)'
      BY <3>3, <3>4, <3>5, <3>6 DEF IsList
    <3>9. InList(k, n + 1, all)'
      BY <3>7 DEF InList
    <3> QED BY <3>5, <3>8, <3>9
  <2> QED BY <2>2, <2>3
<1>6. register_ok' \in BOOLEAN
  BY <1>1 DEF ListInv
<1> QED BY <1>4, <1>5, <1>6 DEF ListInv

\* The lists are what head, next and register_ok make them.
LEMMA ListKept ==
  ASSUME ListInv, UNCHANGED <<head, next, register_ok>>
  PROVE  ListInv'
<1>1. head' = head /\ next' = next /\ register_ok' = register_ok
  OBVIOUS
<1>2. ASSUME NEW k \in Kind
      PROVE  \E n \in Nat : \E s : IsList(k, n, s)' /\ InList(k, n, s)'
  <2>1. PICK n \in Nat : \E s : IsList(k, n, s) /\ InList(k, n, s)
    BY DEF ListInv
  <2>2. PICK s : IsList(k, n, s) /\ InList(k, n, s)
    BY <2>1
  <2>3. IsList(k, n, s)'
    BY <1>1, <2>2 DEF IsList
  <2>4. InList(k, n, s)'
    BY <1>1, <2>2 DEF InList
  <2> QED BY <2>3, <2>4
<1>3. head' \in [Kind -> Plugin \cup {Null}] /\ next' \in [Plugin -> Plugin \cup {Null}]
      /\ register_ok' \in BOOLEAN
  BY <1>1 DEF ListInv
<1> QED BY <1>2, <1>3 DEF ListInv

\* The lists are dropped whatever their plugins still point to.
LEMMA RemoveAllKeeps ==
  ASSUME ListInv, player_remove_all
  PROVE  ListInv'
<1>1. CASE ~register_ok
  <2>1. UNCHANGED <<head, next, register_ok>>
    BY <1>1 DEF player_remove_all, pluginvars
  <2> QED BY <2>1, ListKept
<1>2. CASE register_ok
  <2>1. register_ok' = FALSE /\ head' = [k \in Kind |-> Null] /\ next' = next
    BY <1>2 DEF player_remove_all
  <2>2. ASSUME NEW k \in Kind
        PROVE  IsList(k, 0, [i \in 1 .. 0 |-> Null])' /\ InList(k, 0, [i \in 1 .. 0 |-> Null])'
    BY <2>1 DEF IsList, InList
  <2> QED BY <2>1, <2>2 DEF ListInv
<1> QED BY <1>1, <1>2

\* The lists are lists until a plugin is registered again.
DoubledInv == ~doubled => ListInv

\* Nothing else writes the lists.
LEMMA ListStep ==
  ASSUME DoubledInv, [Next]_vars
  PROVE  DoubledInv'
<1>1. ASSUME UNCHANGED pluginvars, doubled' = doubled PROVE DoubledInv'
  <2>1. UNCHANGED <<head, next, register_ok>>
    BY <1>1 DEF pluginvars
  <2> QED BY <1>1, <2>1, ListKept DEF DoubledInv
<1>2. CASE dtplayer_init
  BY <1>2, RegisterAllKeeps DEF dtplayer_init, DoubledInv
<1>3. CASE register_plugin
  <2> SUFFICES ASSUME ~doubled' PROVE ListInv'
    BY DEF DoubledInv
  <2>1. PICK p \in External :
          /\ dtplayer_register_plugin(p)
          /\ doubled' = (doubled \/ (KindOf(p) # "vd" /\ p \in Listed(KindOf(p))))
    BY <1>3 DEF register_plugin
  <2>2. p \in Plugin /\ ~IsInternal(p)
    BY PlayerOpenAssumption
  <2>3. ListInv /\ (KindOf(p) # "vd" => p \notin Listed(KindOf(p)))
    BY <2>1 DEF DoubledInv
  <2>4. CASE KindOf(p) \in {"ao", "vo", "so", "vf"} /\ register_unchecked(p)
    <3>1. PutInFront(KindOf(p), p) /\ p \notin Listed(KindOf(p))
      BY <2>3, <2>4 DEF register_unchecked, KindOf
    <3> QED BY <2>2, <2>3, <3>1, PutInFrontKeeps
  <2>5. CASE KindOf(p) = "vd" /\ register_vdec_ext(p)
    <3>1. CASE p \in Listed("vd")
      <4>1. UNCHANGED <<head, next, register_ok>>
        BY <2>5, <3>1 DEF register_vdec_ext, pluginvars
      <4> QED BY <2>3, <4>1, ListKept
    <3>2. CASE p \notin Listed("vd")
      <4>1. PutInFront(KindOf(p), p) /\ p \notin Listed(KindOf(p))
        BY <2>5, <3>2 DEF register_vdec_ext
      <4> QED BY <2>2, <2>3, <4>1, PutInFrontKeeps
    <3> QED BY <3>1, <3>2
  <2> QED BY <2>1, <2>4, <2>5 DEF dtplayer_register_plugin, KindOf
<1>4. CASE quit_remove
  BY <1>4, RemoveAllKeeps DEF quit_remove, history, DoubledInv
<1>5. CASE open_file
  BY <1>1, <1>5 DEF open_file, playeropenvars, stream_open, probe_data, probe_nothing, probe_eof,
                    seek_back, demuxer_select, demuxer_open
<1>6. CASE cache
  BY <1>1, <1>6 DEF cache, cache_thread, playeropenvars
<1>7. CASE player_init \/ info_only
  BY <1>1, <1>7 DEF player_init, info_only, Keep, playeropenvars, history
<1>8. CASE player_service_init \/ player_host_init \/ start_io_thread
  BY <1>1, <1>8 DEF player_service_init, player_host_init, start_io_thread, Keep, history
<1>9. CASE host_reads_outside \/ prepare_fails
  BY <1>1, <1>9 DEF host_reads_outside, prepare_fails, Keep, playeropenvars
<1>10. CASE demuxer_read_frame
  BY <1>1, <1>10 DEF demuxer_read_frame, history
<1>11. CASE quit
  BY <1>1, <1>11 DEF quit
<1>12. CASE UNCHANGED vars
  BY <1>1, <1>12 DEF vars, playeropenvars
<1> QED
  BY <1>2, <1>3, <1>4, <1>5, <1>6, <1>7, <1>8, <1>9, <1>10, <1>11, <1>12 DEF Next

-----------------------------------------------------------------------------
(* The inductive invariant.                                                 *)

\* Where the application's thread is once the file has been opened so far.
Opening == {"stream", "probe", "seek_back", "select", "setup", "init"}
Demuxed == {"setup", "init", "inited", "host", "io", "playing", "joining"}
Prepared == {"inited", "host", "io", "playing"}

\* There is no player.
Idle == {"idle", "crashed"}

\* Unless a player was opened too early, no event loop has the lists still to
\* drop while there is a player; the loops that have it to do had a player.
LoopInv ==
  /\ leaving \in 0 .. session
  /\ app \notin Idle => leaving < session
  /\ app \notin Idle /\ ~hasty => register_ok /\ leaving = 0

\* What a session holds whose player has been released.
Left == {"context", "aac_ctx"}

\* What is held was acquired by a session that has been; only the session
\* that is open has threads, and it can close its file, if it holds one.
HeldInv ==
  /\ session \in 0 .. MaxSessions /\ ended \subseteq 1 .. session /\ reading \subseteq 1 .. session
  /\ priv \in [Stream -> Nat]
  /\ held \subseteq (1 .. session) \X Resource
  /\ \A h \in held :
       /\ h[1] \in ended => h[2] \in Left
       /\ h[2] \in {"service", "host", "io"} =>
            h[1] = session /\ app \in {"host", "io", "playing", "joining", "crashed"}
  /\ app \notin Idle => session > 0 /\ session \notin ended
  /\ app = "stream" => \A h \in held : h[1] = session => h[2] \in {"player", "context"}
  /\ app \in Opened =>
       IF stream = Null THEN <<session, "file">> \notin held /\ <<session, "cache">> \notin held
       ELSE priv["file"] = session /\ <<session, "file">> \in held

\* While the file is probed what was read so far is its head, unless the
\* thread of another session's cache has read from it; the thread of its own
\* cache has read what is in the cache.
InOrder ==
  /\ \A i \in 1 .. Len(probe) : probe[i] = i - 1
  /\ stream = "cache" => /\ info["file"].pos = Len(ring)
                         /\ \A i \in 1 .. Len(ring) : ring[i] = i - 1
  /\ app = "probe" /\ Len(probe) < ProbeSize => info[stream].pos = Len(probe)
  /\ app = "select" /\ stream # Null => info[stream].pos = 0 /\ ~info[stream].eof

ProbeInv ==
  /\ job \in Job /\ stream \in Stream \cup {Null}
  /\ session \in Nat /\ reading \subseteq 1 .. session
  /\ app \in Probing \cup {"stream"} => session > 0
  /\ info \in [Stream -> [pos : Nat, eof : BOOLEAN]]
  /\ ring \in Seq(Nat) /\ probe \in Seq(Nat) /\ Len(probe) <= ProbeSize
  /\ app \in {"probe", "seek_back"} => stream \in Stream
  /\ app = "stream" => session \notin reading
  /\ app \in Probing /\ session \in reading => stream = "cache"
  /\ app \in Probing /\ ~strayed => InOrder

\* The tracks are chosen from what the demuxer found, and stay chosen.
ChosenInv ==
  /\ app \notin Idle => setting = dt_update_setting(job.ini)
  /\ app \in Demuxed /\ Handles[demuxer].format = "aac" => job.file.format = "aac"
  /\ app \in Prepared => ctrl = Ctrl
  /\ app \in {"io", "playing"} =>
       /\ host.sync_enable => host.has_audio /\ host.has_video
       /\ host.vd # Null /\ job.para.disable_hw_vcodec => ~Handles[host.vd].hw
  /\ app \in Opening \cup {"inited", "host", "io"} => frame = Null
  /\ app = "playing" /\ frame # Null =>
       \/ frame = [type |-> "audio", track |-> <<"audio", ctrl.ast>>]
       \/ frame = [type |-> "video", track |-> <<"video", ctrl.vst>>]
       \/ frame = [type |-> "sub", track |-> <<"sub", ctrl.sst>>]

-----------------------------------------------------------------------------
(* What is held.                                                            *)

LEMMA HeldInitially ==
  ASSUME Init
  PROVE  HeldInv
<1>1. MaxSessions \in Nat
  BY MediaOpenAssumption
<1> QED BY <1>1 DEF Init, OpenInit, HeldInv, Idle, Opened

\* Something more is held by the session that is open.
LEMMA HoldKeeps ==
  ASSUME HeldInv, NEW r \in SUBSET Resource, app \notin Idle, Hold(r)
  PROVE  /\ held' \subseteq (1 .. session) \X Resource
         /\ \A h \in held' : h \in held \/ (h[1] = session /\ h[2] \in r)
         /\ held \subseteq held'
         /\ \A x \in r : <<session, x>> \in held'
         /\ \A x \in Resource \ r : <<session, x>> \in held' <=> <<session, x>> \in held
<1>1. session \in 1 .. session
  BY MediaOpenAssumption DEF HeldInv
<1>2. held' = held \cup ({session} \X r)
  BY DEF Hold
<1>3. held' \subseteq (1 .. session) \X Resource
  BY <1>1, <1>2 DEF HeldInv
<1> QED BY <1>2, <1>3

\* The thread goes on with the file that is open.
LEMMA HeldGoesOn ==
  ASSUME HeldInv, app \in Opened, app' \in Opened, NEW r \in SUBSET (Resource \ {"file", "cache"}), Hold(r),
         UNCHANGED <<session, stream, priv, ended>>, reading' \subseteq 1 .. session,
         app \in {"host", "io", "playing", "joining"} => app' \in {"host", "io", "playing", "joining"},
         app' \notin {"host", "io", "playing", "joining"} => r \cap {"service", "host", "io"} = {}
  PROVE  HeldInv'
<1>1. app \notin Idle /\ app' \notin Idle /\ app' # "stream"
  BY DEF Opened, Idle
<1>2. /\ held' \subseteq (1 .. session) \X Resource
      /\ \A h \in held' : h \in held \/ (h[1] = session /\ h[2] \in r)
      /\ held \subseteq held'
  BY <1>1, HoldKeeps
<1>3. \A x \in {"file", "cache"} : <<session, x>> \in held' <=> <<session, x>> \in held
  BY <1>1, HoldKeeps DEF Resource
<1>4. ASSUME NEW h \in held'
      PROVE  /\ h[1] \in ended => h[2] \in Left
             /\ h[2] \in {"service", "host", "io"} =>
                  h[1] = session /\ app' \in {"host", "io", "playing", "joining", "crashed"}
  <2>1. session \notin ended
    BY <1>1 DEF HeldInv
  <2>2. CASE h \in held
    BY <2>2 DEF HeldInv, Opened
  <2>3. CASE h[1] = session /\ h[2] \in r
    BY <2>1, <2>3
  <2> QED BY <1>2, <2>2, <2>3
<1>5. \/ stream = Null /\ <<session, "file">> \notin held /\ <<session, "cache">> \notin held
      \/ stream # Null /\ priv["file"] = session /\ <<session, "file">> \in held
  BY DEF HeldInv
<1>6. session > 0 /\ session \notin ended
  BY <1>1 DEF HeldInv
<1> QED BY <1>1, <1>2, <1>3, <1>4, <1>5, <1>6 DEF HeldInv

\* The thread goes on and acquires nothing.
LEMMA HeldUnchanged ==
  ASSUME HeldInv, app \in Opened, app' \in Opened,
         UNCHANGED <<session, stream, priv, held, ended>>, reading' \subseteq 1 .. session,
         app \in {"host", "io", "playing", "joining"} => app' \in {"host", "io", "playing", "joining"}
  PROVE  HeldInv'
<1>1. Hold({})
  BY DEF Hold
<1> QED BY <1>1, HeldGoesOn

\* The player is given up before it has threads.
LEMMA HeldGivenUp ==
  ASSUME HeldInv, app \notin Idle, app \notin {"host", "io", "playing", "joining"}, app' = "idle",
         UNCHANGED <<session, priv, ended, reading>>,
         held' \subseteq held \cup ({session} \X {"aac_ctx", "ffmpeg_ctx"})
  PROVE  HeldInv'
<1>1. session \in 1 .. session /\ session \notin ended
  BY MediaOpenAssumption DEF HeldInv
<1>2. held' \subseteq (1 .. session) \X Resource
  BY <1>1 DEF HeldInv, Resource
<1>3. ASSUME NEW h \in held'
      PROVE  /\ h[1] \in ended => h[2] \in Left
             /\ h[2] \notin {"service", "host", "io"}
  <2>1. CASE h \in held
    BY <2>1 DEF HeldInv, Idle
  <2>2. CASE h \in {session} \X {"aac_ctx", "ffmpeg_ctx"}
    BY <1>1, <2>2
  <2> QED BY <2>1, <2>2
<1> QED BY <1>2, <1>3 DEF HeldInv, Idle, Opened

LEMMA HeldStep ==
  ASSUME HeldInv, [Next]_vars
  PROVE  HeldInv'
<1>1. MaxSessions \in Nat /\ session \in Nat
  BY MediaOpenAssumption DEF HeldInv
<1>2. ASSUME UNCHANGED <<session, stream, priv, held, ended, reading, app>>
      PROVE  HeldInv'
  BY <1>2 DEF HeldInv
<1>3. reading \subseteq 1 .. session
  BY DEF HeldInv
<1>4. CASE dtplayer_init
  <2>1. /\ app = "idle" /\ app' = "stream" /\ session' = session + 1 /\ session < MaxSessions
        /\ held' = held \cup ({session'} \X {"player", "context"})
        /\ UNCHANGED <<stream, priv, ended, reading>>
    BY <1>4 DEF dtplayer_init
  <2>2. 1 .. session \subseteq 1 .. session + 1 /\ session + 1 \notin 1 .. session
        /\ session + 1 \in 0 .. MaxSessions /\ session + 1 > 0 /\ session + 1 \in 1 .. session + 1
    BY <1>1, <2>1
  <2>3. \A h \in held : h[1] \in 1 .. session /\ h[2] \notin {"service", "host", "io"}
    BY <2>1 DEF HeldInv
  <2>4. held' \subseteq (1 .. session') \X Resource
    BY <2>1, <2>2 DEF HeldInv, Resource
  <2>5. ASSUME NEW h \in held'
        PROVE  /\ h[1] \in ended' => h[2] \in Left
               /\ h[2] \notin {"service", "host", "io"}
               /\ h[1] = session' => h[2] \in {"player", "context"}
    <3>1. CASE h \in held
      BY <2>1, <2>2, <2>3, <3>1 DEF HeldInv
    <3>2. CASE h \in {session'} \X {"player", "context"}
      BY <2>1, <2>2, <3>2 DEF HeldInv
    <3> QED BY <2>1, <3>1, <3>2
  <2>6. session' \notin ended' /\ ended' \subseteq 1 .. session' /\ reading' \subseteq 1 .. session'
    BY <2>1, <2>2 DEF HeldInv
  <2>7. priv' \in [Stream -> Nat]
    BY <2>1 DEF HeldInv
  <2> QED BY <2>1, <2>2, <2>4, <2>5, <2>6, <2>7 DEF HeldInv, Idle, Opened
<1>5. CASE stream_open /\ ended' = ended
  <2>1. app = "stream" /\ session' = session /\ session \in 1 .. session /\ app \notin Idle
    BY <1>5, MediaOpenAssumption DEF stream_open, HeldInv, Idle
  <2>2. \A h \in held : h[1] = session => h[2] \in {"player", "context"}
    BY <2>1 DEF HeldInv
  <2>3. session > 0 /\ session \notin ended
    BY <2>1 DEF HeldInv
  <2>4. CASE stream_select(job.file) = Null \/ ~job.file.readable
    <3>1. stream' = Null /\ app' = "select" /\ UNCHANGED <<priv, reading, held>>
      BY <1>5, <2>4 DEF stream_open
    <3>2. <<session, "file">> \notin held /\ <<session, "cache">> \notin held
      BY <2>2
    <3>3. \A h \in held : h[2] \notin {"service", "host", "io"}
      BY <2>1 DEF HeldInv
    <3> QED BY <1>5, <2>1, <2>3, <3>1, <3>2, <3>3 DEF HeldInv, Idle, Opened
  <2>5. CASE ~(stream_select(job.file) = Null \/ ~job.file.readable)
    <3> DEFINE r == {"file"} \cup (IF setting.stream_cache THEN {"cache"} ELSE {})
                            \cup (IF setting.demuxer_probe THEN {"probe_buf"} ELSE {})
    <3>1. /\ Hold(r) /\ stream' \in Stream /\ app' \in {"probe", "select"}
          /\ priv' = [priv EXCEPT !["file"] = session,
                                  !["cache"] = IF setting.stream_cache THEN session ELSE @]
          /\ reading' = IF setting.stream_cache THEN reading \cup {session} ELSE reading
      BY <1>5, <2>5 DEF stream_open, Stream
    <3>2. priv' \in [Stream -> Nat] /\ priv'["file"] = session
      BY <1>1, <3>1 DEF HeldInv, Stream
    <3>3. r \in SUBSET Resource /\ "file" \in r /\ r \cap {"service", "host", "io"} = {}
      BY DEF Resource
    <3> HIDE DEF r
    <3>4. /\ held' \subseteq (1 .. session) \X Resource
          /\ \A h \in held' : h \in held \/ (h[1] = session /\ h[2] \in r)
          /\ <<session, "file">> \in held'
      BY <2>1, <3>1, <3>3, HoldKeeps
    <3>5. ASSUME NEW h \in held'
          PROVE  /\ h[1] \in ended => h[2] \in Left
                 /\ h[2] \notin {"service", "host", "io"}
      <4>1. CASE h \in held
        BY <2>1, <4>1 DEF HeldInv
      <4>2. CASE h[1] = session /\ h[2] \in r
        BY <2>3, <3>3, <4>2
      <4> QED BY <3>4, <4>1, <4>2
    <3>6. reading' \subseteq 1 .. session
      BY <1>3, <2>1, <3>1
    <3>7. stream' # Null
      BY <3>1, MediaOpenAssumption
    <3> QED BY <1>5, <2>1, <2>3, <3>1, <3>2, <3>4, <3>5, <3>6, <3>7 DEF HeldInv, Idle, Opened
  <2> QED BY <2>4, <2>5
<1>6. CASE probe_data /\ ended' = ended
  BY <1>3, <1>6, HeldUnchanged DEF probe_data, Opened
<1>7. ASSUME ProbeEnds, app = "probe", UNCHANGED <<session, stream, priv, reading, ended>> PROVE HeldInv'
  <2>1. CASE app' = "seek_back" /\ held' = held
    BY <1>3, <1>7, <2>1, HeldUnchanged DEF Opened
  <2>2. CASE GiveUp
    BY <1>7, <2>2, HeldGivenUp DEF GiveUp, Idle
  <2> QED BY <1>7, <2>1, <2>2 DEF ProbeEnds
<1>8. CASE probe_nothing /\ ended' = ended
  <2>1. CASE UNCHANGED <<app, held>>
    BY <1>2, <1>8, <2>1 DEF probe_nothing
  <2> QED BY <1>7, <1>8, <2>1 DEF probe_nothing
<1>9. CASE probe_eof /\ ended' = ended
  BY <1>7, <1>9 DEF probe_eof
<1>10. CASE seek_back /\ ended' = ended
  <2>1. app = "seek_back" /\ app' = "select" /\ UNCHANGED <<session, stream, priv, held>>
        /\ reading' \in {reading, reading \cup {session}}
    BY <1>10 DEF seek_back, stream_rewind
  <2>2. session \in 1 .. session
    BY <2>1, MediaOpenAssumption DEF HeldInv, Idle
  <2>3. reading' \subseteq 1 .. session
    BY <1>3, <2>1, <2>2
  <2> QED BY <1>10, <2>1, <2>3, HeldUnchanged DEF Opened
<1>11. CASE demuxer_select /\ ended' = ended
  <2>1. app = "select" /\ UNCHANGED <<session, stream, priv, reading>>
    BY <1>11 DEF demuxer_select
  <2>2. CASE GiveUp
    BY <1>11, <2>1, <2>2, HeldGivenUp DEF GiveUp, Idle
  <2>3. CASE app' = "setup" /\ held' = held
    BY <1>3, <1>11, <2>1, <2>3, HeldUnchanged DEF Opened
  <2> QED BY <1>11, <2>2, <2>3 DEF demuxer_select
<1>12. CASE demuxer_open /\ ended' = ended
  <2>1. app = "setup" /\ UNCHANGED <<session, stream, priv, reading, ended>>
    BY <1>12 DEF demuxer_open
  <2>2. Context \in {"aac_ctx", "ffmpeg_ctx"}
    BY DEF Context
  <2>3. CASE /\ app' = "idle"
             /\ held' = (held \cup {<<session, Context>>}) \ ({session} \X {"player", "context"})
    <3>1. held' \subseteq held \cup ({session} \X {"aac_ctx", "ffmpeg_ctx"})
      BY <2>2, <2>3
    <3> QED BY <2>1, <2>3, <3>1, HeldGivenUp DEF Idle
  <2>4. CASE app' = "init" /\ Hold({Context, "tracks"})
    <3>1. {Context, "tracks"} \in SUBSET (Resource \ {"file", "cache"})
          /\ {Context, "tracks"} \cap {"service", "host", "io"} = {}
      BY <2>2 DEF Resource
    <3> QED BY <1>3, <2>1, <2>4, <3>1, HeldGoesOn DEF Opened
  <2> QED BY <1>12, <2>3, <2>4 DEF demuxer_open
<1>13. CASE cache
  <2>1. UNCHANGED <<session, stream, priv, held, ended>> /\ app' \in {app, "crashed"}
    BY <1>13 DEF cache, cache_thread, playeropenvars
  <2>2. reading' \subseteq 1 .. session
    BY <1>3, <1>13 DEF cache, cache_thread
  <2>3. app' = "crashed" \/ app' = app
    BY <2>1
  <2> QED BY <2>1, <2>2, <2>3 DEF HeldInv, Idle, Opened
<1>14. CASE register_plugin
  BY <1>2, <1>14 DEF register_plugin, openvars
<1>15. CASE player_init
  <2>1. app = "init" /\ UNCHANGED <<session, stream, priv, reading, ended>>
    BY <1>15 DEF player_init, Keep, history
  <2>2. CASE app' = "inited" /\ held' = held
    BY <1>3, <2>1, <2>2, HeldUnchanged DEF Opened
  <2>3. CASE app' = "idle" /\ held' = held \ {<<session, "player">>}
    BY <2>1, <2>3, HeldGivenUp DEF Idle
  <2> QED BY <1>15, <2>2, <2>3 DEF player_init
<1>16. CASE info_only
  BY <1>16, HeldGivenUp DEF info_only, Keep, playeropenvars, Idle
<1>17. CASE player_service_init
  <2>1. Hold({"service"}) /\ app = "inited" /\ app' = "host"
        /\ UNCHANGED <<session, stream, priv, reading, ended>>
    BY <1>17 DEF player_service_init, Keep, history
  <2>2. {"service"} \in SUBSET (Resource \ {"file", "cache"})
    BY DEF Resource
  <2> QED BY <1>3, <2>1, <2>2, HeldGoesOn DEF Opened
<1>18. CASE player_host_init
  <2>1. Hold({"host"}) /\ app = "host" /\ app' = "io" /\ UNCHANGED <<session, stream, priv, reading, ended>>
    BY <1>18 DEF player_host_init, Keep, history
  <2>2. {"host"} \in SUBSET (Resource \ {"file", "cache"})
    BY DEF Resource
  <2> QED BY <1>3, <2>1, <2>2, HeldGoesOn DEF Opened
<1>19. CASE host_reads_outside
  <2>1. app = "host" /\ app' = "crashed" /\ UNCHANGED <<session, stream, priv, reading, ended, held>>
    BY <1>19 DEF host_reads_outside, Keep, playeropenvars
  <2> QED BY <2>1 DEF HeldInv, Idle, Opened
<1>20. CASE prepare_fails
  BY <1>3, <1>20, HeldUnchanged DEF prepare_fails, Keep, playeropenvars, Opened
<1>21. CASE start_io_thread
  <2>1. Hold({"io"}) /\ app = "io" /\ app' = "playing" /\ UNCHANGED <<session, stream, priv, reading, ended>>
    BY <1>21 DEF start_io_thread, Keep, history
  <2>2. {"io"} \in SUBSET (Resource \ {"file", "cache"})
    BY DEF Resource
  <2> QED BY <1>3, <2>1, <2>2, HeldGoesOn DEF Opened
<1>22. CASE demuxer_read_frame
  BY <1>2, <1>22 DEF demuxer_read_frame, history
<1>23. CASE quit
  <2>1. /\ app = "playing" /\ app' = "idle" /\ session' = session
        /\ held' = demuxer_close \ ({session} \X {"io", "host", "service", "player"})
        /\ priv' = [s \in Stream |-> IF stream # Null /\ s = "file" THEN 0 ELSE priv[s]]
        /\ ended' = ended \cup {session} /\ reading' = reading \ {session}
    BY <1>23 DEF quit
  <2>2. priv' \in [Stream -> Nat]
    BY <2>1 DEF HeldInv
  <2>3. session \in 1 .. session
    BY <1>1, <2>1 DEF HeldInv, Idle
  <2>4. held' \subseteq held
    BY <2>1 DEF demuxer_close, stream_close
  <2>5. held' \subseteq (1 .. session) \X Resource
    BY <2>4 DEF HeldInv
  <2>6. <<session, "file">> \notin held' /\ <<session, "cache">> \notin held'
    <3>1. CASE stream = Null
      BY <2>1, <2>4, <3>1 DEF HeldInv, Opened
    <3>2. CASE stream # Null
      BY <2>1, <3>2 DEF demuxer_close, stream_close, HeldInv, Opened
    <3> QED BY <3>1, <3>2
  <2>7. ASSUME NEW h \in held', h[1] = session
        PROVE  h[2] \in Left
    <3>1. h = <<session, h[2]>> /\ h[2] \in Resource
      BY <2>5, <2>7
    <3>2. h \notin {session} \X {"ffmpeg_ctx", "tracks", "probe_buf", "io", "host", "service", "player"}
      BY <2>1, <2>7 DEF demuxer_close, stream_close
    <3>3. h[2] \notin {"ffmpeg_ctx", "tracks", "probe_buf", "io", "host", "service", "player"}
      BY <3>1, <3>2
    <3>4. h[2] # "file" /\ h[2] # "cache"
      BY <2>6, <2>7, <3>1
    <3> QED BY <3>1, <3>3, <3>4 DEF Resource, Left
  <2>8. ASSUME NEW h \in held'
        PROVE  /\ h[1] \in ended' => h[2] \in Left
               /\ h[2] \notin {"service", "host", "io"}
    <3>1. CASE h[1] = session
      BY <2>7, <2>8, <3>1 DEF Left
    <3>2. CASE h[1] # session
      BY <2>1, <2>4, <2>8, <3>2 DEF HeldInv
    <3> QED BY <3>1, <3>2
  <2>9. session \in 0 .. MaxSessions /\ ended' \subseteq 1 .. session /\ reading' \subseteq 1 .. session
    BY <1>3, <2>1, <2>3 DEF HeldInv
  <2> QED BY <2>1, <2>2, <2>5, <2>8, <2>9 DEF HeldInv, Idle, Opened
<1>24. CASE quit_remove
  BY <1>2, <1>24 DEF quit_remove, openvars, history
<1>25. CASE UNCHANGED vars
  BY <1>2, <1>25 DEF vars, openvars, playeropenvars
<1> QED
  BY <1>4, <1>5, <1>6, <1>8, <1>9, <1>10, <1>11, <1>12, <1>13, <1>14, <1>15, <1>16, <1>17,
     <1>18, <1>19, <1>20, <1>21, <1>22, <1>23, <1>24, <1>25 DEF Next, open_file, playeropenvars

-----------------------------------------------------------------------------
(* The head of the file.                                                    *)

LEMMA ProbeInitially ==
  ASSUME Init
  PROVE  ProbeInv
<1>1. info \in [Stream -> [pos : Nat, eof : BOOLEAN]]
  BY DEF Init, OpenInit
<1>2. probe = <<>> /\ ring = <<>> /\ app = "idle" /\ job \in Job /\ stream = Null /\ session = 0 /\ reading = {}
  BY DEF Init, OpenInit
<1>3. ProbeSize \in Nat
  BY MediaOpenAssumption
<1> QED BY <1>1, <1>2, <1>3 DEF ProbeInv, Probing

\* What is read goes behind what is in the buffer, as far as it fits.
LEMMA ReadIntoProbe ==
  ASSUME ProbeInv, probe_data
  PROVE  ProbeInv'
<1>1. PICK n \in stream_read :
        /\ n > 0
        /\ Read(n)
        /\ probe' = IF Full THEN probe ELSE buf_put(n)
        /\ app' = IF Full \/ Len(probe) + n = ProbeSize THEN "seek_back" ELSE "probe"
  BY DEF probe_data
<1>2. app = "probe" /\ UNCHANGED <<stream, ring, job, session, reading, strayed>>
  BY DEF probe_data
<1>3. stream \in Stream /\ Pos \in Nat /\ Len(probe) \in Nat /\ ProbeSize \in Nat /\ Len(probe) <= ProbeSize
  BY <1>2, MediaOpenAssumption DEF ProbeInv, Pos
<1>4. n \in Nat /\ (stream = "cache" => n <= Len(ring) - Pos)
  <2>1. Len(ring) \in Nat /\ ReadOnce \in Nat
    BY MediaOpenAssumption DEF ProbeInv
  <2>2. CASE stream = "cache"
    <3>1. n \in IF Len(ring) <= Pos THEN {0} ELSE 1 .. Min({ReadOnce, Len(ring) - Pos})
      BY <1>1, <2>2 DEF stream_read
    <3>2. Len(ring) > Pos /\ n \in 1 .. Min({ReadOnce, Len(ring) - Pos})
      BY <1>1, <1>3, <2>1, <3>1
    <3>3. Min({ReadOnce, Len(ring) - Pos}) <= Len(ring) - Pos /\ Min({ReadOnce, Len(ring) - Pos}) \in Int
      BY <1>3, <2>1, MinMax
    <3> QED BY <1>3, <2>1, <3>2, <3>3
  <2>3. CASE stream # "cache"
    <3>1. stream_read \subseteq Int
      BY <2>3 DEF stream_read
    <3> QED BY <1>1, <2>3, <3>1
  <2> QED BY <2>2, <2>3
<1>5. Max({n, 0}) = n
  <2>1. n \in Int /\ n >= 0 /\ 0 \in Int
    BY <1>4
  <2> QED BY <2>1, MinMax
<1>6. info' = [info EXCEPT ![stream] = [pos |-> @.pos + n, eof |-> @.eof \/ n < 0]]
  BY <1>1, <1>5 DEF Read
<1>7. /\ info' \in [Stream -> [pos : Nat, eof : BOOLEAN]]
      /\ info'[stream].pos = Pos + n
      /\ \A s \in Stream : s # stream => info'[s] = info[s]
  <2>1. [pos |-> info[stream].pos + n, eof |-> info[stream].eof \/ n < 0] \in [pos : Nat, eof : BOOLEAN]
    BY <1>3, <1>4 DEF ProbeInv
  <2> QED BY <1>3, <1>6, <2>1 DEF ProbeInv, Pos
<1>8. app' \in {"probe", "seek_back"} /\ app \in Probing
  BY <1>1, <1>2 DEF Probing
<1>9. stream = "cache" => info'["file"] = info["file"]
  BY <1>7 DEF Stream
<1>10. CASE Full
  BY <1>1, <1>2, <1>3, <1>7, <1>8, <1>9, <1>10 DEF ProbeInv, InOrder, Full
<1>11. CASE ~Full
  <2> DEFINE m == Min({n, ProbeSize - Len(probe)})
             new == [i \in 1 .. m |-> Block(Pos + i - 1)]
  <2>1. Len(probe) < ProbeSize
    BY <1>2, <1>3, <1>11 DEF Full
  <2>2. m = IF n <= ProbeSize - Len(probe) THEN n ELSE ProbeSize - Len(probe)
    BY <1>3, <1>4, MinMax
  <2>3. m \in Nat /\ m <= n /\ Len(probe) + m <= ProbeSize
    BY <1>3, <1>4, <2>1, <2>2
  <2> HIDE DEF m
  <2>4. \A i \in 1 .. m : /\ new[i] \in Nat
                          /\ ~strayed => new[i] = Pos + i - 1
    <3> TAKE i \in 1 .. m
    <3>1. CASE stream = "cache"
      <4>1. (Pos + i - 1) + 1 \in 1 .. Len(ring)
        BY <1>3, <1>4, <2>3, <3>1 DEF ProbeInv
      <4>2. new[i] = ring[(Pos + i - 1) + 1]
        BY <3>1 DEF Block
      <4>3. ring[(Pos + i - 1) + 1] \in Nat
        BY <4>1 DEF ProbeInv
      <4>4. ~strayed => ring[(Pos + i - 1) + 1] = ((Pos + i - 1) + 1) - 1
        BY <1>8, <3>1, <4>1 DEF ProbeInv, InOrder
      <4> QED BY <1>3, <2>3, <4>2, <4>3, <4>4
    <3>2. CASE stream # "cache"
      BY <1>3, <2>3, <3>2 DEF Block
    <3> QED BY <3>1, <3>2
  <2>5. new \in Seq(Nat) /\ Len(new) = m
    <3>1. new \in [1 .. m -> Nat]
      BY <2>4
    <3> QED BY <2>3, <3>1
  <2>6. probe' = probe \o new
    BY <1>1, <1>11 DEF buf_put, m
  <2> HIDE DEF new
  <2>7. probe' \in Seq(Nat) /\ Len(probe') = Len(probe) + m
    BY <2>5, <2>6, ConcatProperties DEF ProbeInv
  <2>8. ASSUME ~strayed
        PROVE  InOrder'
    <3>1. Pos = Len(probe) /\ \A i \in 1 .. Len(probe) : probe[i] = i - 1
      BY <1>2, <1>8, <2>1, <2>8 DEF ProbeInv, InOrder, Pos
    <3>2. ASSUME NEW i \in 1 .. Len(probe')
          PROVE  probe'[i] = i - 1
      <4>1. CASE i <= Len(probe)
        <5>1. probe'[i] = probe[i] /\ i \in 1 .. Len(probe)
          BY <1>3, <2>5, <2>6, <2>7, <4>1, ConcatProperties DEF ProbeInv
        <5> QED BY <3>1, <5>1
      <4>2. CASE i > Len(probe)
        <5>1. i - Len(probe) \in 1 .. m
          BY <1>3, <2>3, <2>7, <4>2
        <5>2. probe'[i] = new[i - Len(probe)]
          BY <1>3, <2>5, <2>6, <2>7, <4>2, ConcatProperties DEF ProbeInv
        <5> QED BY <1>3, <2>4, <2>8, <3>1, <5>1, <5>2
      <4> QED BY <1>3, <4>1, <4>2
    <3>3. Len(probe') < ProbeSize => m = n
      BY <1>3, <1>4, <2>2, <2>7
    <3>4. stream = "cache" => /\ info["file"].pos = Len(ring)
                              /\ \A i \in 1 .. Len(ring) : ring[i] = i - 1
      BY <1>8, <2>8 DEF ProbeInv, InOrder
    <3> QED BY <1>2, <1>3, <1>7, <1>8, <1>9, <2>7, <3>1, <3>2, <3>3, <3>4 DEF InOrder
  <2> QED BY <1>2, <1>3, <1>7, <1>8, <2>3, <2>7, <2>8 DEF ProbeInv
<1> QED BY <1>10, <1>11

\* The cache threads leave what was read in order as long as none of them is
\* another session's.
LEMMA CacheKeepsOrder ==
  ASSUME ProbeInv, cache_thread
  PROVE  ProbeInv'
<1> DEFINE here == priv["file"] = session /\ app \in Probing
           more == here /\ info["file"].pos < job.file.size
<1>1. PICK s \in reading :
        /\ info' = IF more THEN [info EXCEPT !["file"].pos = @ + 1]
                   ELSE IF here THEN [info EXCEPT !["file"].eof = TRUE] ELSE info
        /\ ring' = IF more /\ s = session THEN Append(ring, info["file"].pos) ELSE ring
        /\ reading' = IF more \/ priv["file"] = 0 THEN reading ELSE reading \ {s}
        /\ strayed' = (strayed \/ (here /\ s # session))
  BY DEF cache_thread
<1>2. UNCHANGED <<session, job, stream, probe>> /\ app' \in {app, "crashed"}
  BY DEF cache_thread
<1>3. reading' \subseteq reading
  BY <1>1
<1>4. "file" \in Stream /\ info["file"].pos \in Nat
  BY DEF Stream, ProbeInv
<1>5. info' \in [Stream -> [pos : Nat, eof : BOOLEAN]]
  <2>1. info \in [Stream -> [pos : Nat, eof : BOOLEAN]] /\ info["file"].pos + 1 \in Nat
    BY <1>4 DEF ProbeInv
  <2>2. CASE more
    <3>1. info' = [info EXCEPT !["file"].pos = info["file"].pos + 1]
      BY <1>1, <2>2
    <3> QED BY <1>4, <2>1, <3>1
  <2>3. CASE ~more /\ here
    <3>1. info' = [info EXCEPT !["file"].eof = TRUE]
      BY <1>1, <2>3
    <3> QED BY <1>4, <2>1, <3>1
  <2>4. CASE ~here
    BY <1>1, <2>1, <2>4
  <2> QED BY <2>2, <2>3, <2>4
<1>6. ring' \in Seq(Nat)
  BY <1>1, <1>4 DEF ProbeInv
<1>7. ASSUME app' \in Probing, ~strayed'
      PROVE  InOrder'
  <2>1. app' = app /\ app \in Probing /\ ~strayed /\ InOrder
    BY <1>1, <1>2, <1>7 DEF Probing, ProbeInv
  <2>2. CASE ~here
    BY <1>1, <1>2, <2>1, <2>2 DEF InOrder
  <2>3. CASE here
    <3>1. s = session /\ stream = "cache"
      BY <1>1, <1>7, <2>1, <2>3 DEF ProbeInv
    <3>2. info'["cache"] = info["cache"]
      BY <1>1 DEF ProbeInv, Stream
    <3>3. info["file"].pos = Len(ring) /\ \A i \in 1 .. Len(ring) : ring[i] = i - 1
      BY <2>1, <3>1 DEF InOrder
    <3>4. info'["file"].pos = Len(ring') /\ \A i \in 1 .. Len(ring') : ring'[i] = i - 1
      <4>1. CASE more
        <5>1. ring' = Append(ring, Len(ring)) /\ info'["file"].pos = Len(ring) + 1
          BY <1>1, <1>4, <3>1, <3>3, <4>1 DEF ProbeInv
        <5>2. Len(ring') = Len(ring) + 1
          BY <5>1 DEF ProbeInv
        <5>3. ASSUME NEW i \in 1 .. Len(ring')
              PROVE  ring'[i] = i - 1
          <6>1. CASE i = Len(ring) + 1
            BY <5>1, <6>1 DEF ProbeInv
          <6>2. CASE i # Len(ring) + 1
            <7>1. i \in 1 .. Len(ring)
              BY <5>2, <6>2 DEF ProbeInv
            <7> QED BY <3>3, <5>1, <7>1 DEF ProbeInv
          <6> QED BY <6>1, <6>2
        <5> QED BY <5>1, <5>2, <5>3
      <4>2. CASE ~more
        <5>1. ring' = ring /\ info'["file"].pos = info["file"].pos
          BY <1>1, <1>4, <4>2 DEF ProbeInv
        <5> QED BY <3>3, <5>1
      <4> QED BY <4>1, <4>2
    <3> QED BY <1>2, <2>1, <3>1, <3>2, <3>4 DEF InOrder
  <2> QED BY <2>2, <2>3
<1>8. reading' \subseteq 1 .. session /\ (app' = app => (app = "stream" => session \notin reading'))
  BY <1>3 DEF ProbeInv
<1> QED BY <1>2, <1>3, <1>5, <1>6, <1>7, <1>8 DEF ProbeInv, Probing

LEMMA ProbeStep ==
  ASSUME ProbeInv, [Next]_vars
  PROVE  ProbeInv'
<1>1. ASSUME UNCHANGED <<info, ring, probe, stream, job, session, reading, strayed>>,
             app' \notin {"stream", "probe", "seek_back", "select"} \/ app' = app
      PROVE  ProbeInv'
  BY <1>1 DEF ProbeInv, InOrder, Probing
<1>2. ASSUME UNCHANGED <<ring, probe, stream, job, session, reading>>,
             info' \in [Stream -> [pos : Nat, eof : BOOLEAN]],
             app' \notin {"stream", "probe", "seek_back", "select"}
      PROVE  ProbeInv'
  BY <1>2 DEF ProbeInv, Probing
<1>3. ASSUME DemuxerReads
      PROVE  info' \in [Stream -> [pos : Nat, eof : BOOLEAN]]
  <2>1. job.file.size \in Nat
    BY MediaOpenAssumption DEF ProbeInv
  <2>2. CASE info' = info
    BY <2>2 DEF ProbeInv
  <2>3. CASE /\ stream # Null
             /\ info' = [info EXCEPT ![stream] = [pos |-> job.file.size, eof |-> TRUE]]
    <3>1. [pos |-> job.file.size, eof |-> TRUE] \in [pos : Nat, eof : BOOLEAN]
      BY <2>1
    <3> QED BY <2>3, <3>1 DEF ProbeInv
  <2> QED BY <1>3, <2>2, <2>3 DEF DemuxerReads
<1>4. ASSUME UNCHANGED <<ring, probe, stream, job, session, reading, strayed>>, app = "probe", app' = "seek_back",
             info' \in [Stream -> [pos : Nat, eof : BOOLEAN]], \A x \in Stream : info'[x].pos = info[x].pos
      PROVE  ProbeInv'
  <2>1. stream \in Stream /\ "file" \in Stream /\ app \in Probing /\ app' \in Probing
    BY <1>4 DEF ProbeInv, Stream, Probing
  <2> QED BY <1>4, <2>1 DEF ProbeInv, InOrder
<1>5. CASE dtplayer_init
  <2>1. /\ app' = "stream" /\ session' = session + 1 /\ job' \in Job
        /\ UNCHANGED <<stream, info, ring, probe, reading>>
    BY <1>5 DEF dtplayer_init
  <2>2. reading \subseteq 1 .. session + 1 /\ session + 1 \notin reading
    BY DEF ProbeInv
  <2> QED BY <2>1, <2>2 DEF ProbeInv, Probing
<1>6. CASE stream_open
  <2>1. app = "stream" /\ probe' = <<>> /\ UNCHANGED <<job, session>> /\ session \notin reading
    BY <1>6 DEF stream_open, ProbeInv
  <2>2. ProbeSize \in Nat /\ ProbeSize > 0
    BY MediaOpenAssumption
  <2>3. CASE stream' = Null /\ app' = "select" /\ UNCHANGED <<info, ring, reading>>
    <3>1. Null # "cache"
      BY MediaOpenAssumption DEF Stream
    <3> QED BY <2>1, <2>2, <2>3, <3>1 DEF ProbeInv, InOrder
  <2>4. CASE /\ stream' = IF setting.stream_cache THEN "cache" ELSE "file"
             /\ info' = OpenedInfo /\ ring' = <<>>
             /\ reading' = IF setting.stream_cache THEN reading \cup {session} ELSE reading
             /\ app' = IF setting.demuxer_probe THEN "probe" ELSE "select"
    <3>1. Fresh \in [pos : Nat, eof : BOOLEAN] /\ Fresh.pos = 0 /\ Fresh.eof = FALSE
      BY DEF Fresh
    <3>2. /\ info' \in [Stream -> [pos : Nat, eof : BOOLEAN]] /\ stream' \in Stream
          /\ info'[stream'] = Fresh /\ info'["file"] = Fresh
      BY <2>4, <3>1 DEF OpenedInfo, ProbeInv, Stream
    <3>3. reading' \subseteq 1 .. session /\ (session \in reading' => stream' = "cache")
      <4>1. session \in 1 .. session
        BY <2>1 DEF ProbeInv
      <4> QED BY <2>1, <2>4, <4>1 DEF ProbeInv
    <3>4. InOrder'
      BY <2>1, <2>2, <2>4, <3>1, <3>2 DEF InOrder
    <3> QED BY <2>1, <2>2, <2>4, <3>2, <3>3, <3>4 DEF ProbeInv
  <2> QED BY <1>6, <2>3, <2>4 DEF stream_open
<1>7. CASE probe_data
  BY <1>7, ReadIntoProbe
<1>8. CASE probe_nothing
  <2>1. app = "probe" /\ UNCHANGED <<info, ring, probe, stream, job, session, reading, strayed>>
    BY <1>8 DEF probe_nothing
  <2>2. CASE app' = "seek_back"
    <3>1. info' \in [Stream -> [pos : Nat, eof : BOOLEAN]] /\ \A x \in Stream : info'[x].pos = info[x].pos
      BY <2>1 DEF ProbeInv
    <3> QED BY <1>4, <2>1, <2>2, <3>1
  <2>3. CASE app' \in {app, "idle"}
    BY <1>1, <2>1, <2>3
  <2> QED BY <1>8, <2>2, <2>3 DEF probe_nothing, ProbeEnds, GiveUp
<1>9. CASE probe_eof
  <2>1. /\ app = "probe" /\ app' \in {"seek_back", "idle"}
        /\ UNCHANGED <<ring, probe, stream, job, session, reading, strayed>>
        /\ info' = [info EXCEPT ![stream] = [pos |-> @.pos + Max({-1, 0}), eof |-> @.eof \/ -1 < 0]]
    BY <1>9 DEF probe_eof, ProbeEnds, GiveUp, Read
  <2>2. Max({-1, 0}) = 0
    BY MinMax
  <2>3. stream \in Stream
    BY <2>1 DEF ProbeInv
  <2>4. info[stream] \in [pos : Nat, eof : BOOLEAN]
    BY <2>3 DEF ProbeInv
  <2>5. info' = [info EXCEPT ![stream] = [pos |-> info[stream].pos, eof |-> TRUE]]
    <3>1. info[stream].pos + Max({-1, 0}) = info[stream].pos
      BY <2>2, <2>4
    <3>2. (info[stream].eof \/ -1 < 0) = TRUE
      OBVIOUS
    <3> QED BY <2>1, <3>1, <3>2
  <2>6. info' \in [Stream -> [pos : Nat, eof : BOOLEAN]] /\ \A x \in Stream : info'[x].pos = info[x].pos
    <3>1. [pos |-> info[stream].pos, eof |-> TRUE] \in [pos : Nat, eof : BOOLEAN]
      BY <2>4
    <3> QED BY <2>3, <2>5, <3>1 DEF ProbeInv
  <2> QED BY <1>2, <1>4, <2>1, <2>6
<1>10. CASE seek_back
  <2>1. /\ app = "seek_back" /\ app' = "select" /\ UNCHANGED <<stream, probe, job, session, strayed>>
    BY <1>10 DEF seek_back
  <2>2. stream \in Stream /\ app \in Probing /\ app' \in Probing /\ session \in Nat
    BY <2>1 DEF ProbeInv, Probing
  <2>3. Fresh \in [pos : Nat, eof : BOOLEAN] /\ Fresh.pos = 0 /\ Fresh.eof = FALSE
    BY DEF Fresh
  <2>4. CASE info' = [info EXCEPT ![stream] = Fresh] /\ UNCHANGED <<ring, reading>>
    <3>1. /\ info' \in [Stream -> [pos : Nat, eof : BOOLEAN]] /\ info'[stream] = Fresh
          /\ stream = "cache" => info'["file"] = info["file"]
      BY <2>2, <2>3, <2>4 DEF ProbeInv, Stream
    <3>2. InOrder => InOrder'
      BY <2>1, <2>3, <2>4, <3>1 DEF InOrder
    <3> QED BY <2>1, <2>2, <2>4, <3>1, <3>2 DEF ProbeInv
  <2>5. CASE /\ stream = "cache" /\ info' = [info EXCEPT !["cache"] = Fresh, !["file"] = Fresh]
             /\ ring' = <<>> /\ reading' = reading \cup {session}
    <3>1. info' \in [Stream -> [pos : Nat, eof : BOOLEAN]] /\ info'["cache"] = Fresh /\ info'["file"] = Fresh
      BY <2>3, <2>5 DEF ProbeInv, Stream
    <3>2. InOrder => InOrder'
      BY <2>1, <2>3, <2>5, <3>1 DEF InOrder
    <3>3. reading' \subseteq 1 .. session
      <4>1. session \in 1 .. session
        BY <2>2 DEF ProbeInv
      <4> QED BY <2>5, <4>1 DEF ProbeInv
    <3> QED BY <2>1, <2>2, <2>5, <3>1, <3>2, <3>3 DEF ProbeInv
  <2> QED BY <1>10, <2>4, <2>5 DEF seek_back, stream_rewind
<1>11. CASE demuxer_select
  BY <1>1, <1>11 DEF demuxer_select, GiveUp
<1>12. CASE demuxer_open
  <2>1. DemuxerReads /\ app' \in {"idle", "init"} /\ UNCHANGED <<ring, probe, stream, job, session, reading>>
    BY <1>12 DEF demuxer_open
  <2> QED BY <1>2, <1>3, <2>1
<1>13. CASE cache
  BY <1>13, CacheKeepsOrder DEF cache
<1>14. CASE register_plugin
  BY <1>1, <1>14 DEF register_plugin, openvars
<1>15. CASE player_init \/ info_only \/ prepare_fails \/ host_reads_outside
  BY <1>1, <1>15 DEF player_init, info_only, prepare_fails, host_reads_outside, Keep
<1>16. CASE player_service_init \/ player_host_init \/ start_io_thread
  BY <1>1, <1>16 DEF player_service_init, player_host_init, start_io_thread, Keep
<1>17. CASE demuxer_read_frame
  <2>1. DemuxerReads /\ app = "playing" /\ UNCHANGED <<app, ring, probe, stream, job, session, reading>>
    BY <1>17 DEF demuxer_read_frame
  <2> QED BY <1>2, <1>3, <2>1
<1>18. CASE quit
  <2>1. /\ app' = "idle" /\ reading' = reading \ {session} /\ stream' = Null
        /\ UNCHANGED <<session, job, info, ring, probe>>
    BY <1>18 DEF quit
  <2> QED BY <2>1 DEF ProbeInv, Probing
<1>19. CASE quit_remove
  BY <1>1, <1>19 DEF quit_remove, openvars
<1>20. CASE UNCHANGED vars
  BY <1>1, <1>20 DEF vars, openvars
<1> QED
  BY <1>5, <1>6, <1>7, <1>8, <1>9, <1>10, <1>11, <1>12, <1>13, <1>14, <1>15, <1>16, <1>17,
     <1>18, <1>19, <1>20 DEF Next, open_file

-----------------------------------------------------------------------------
(* What is chosen.                                                          *)

\* The track that is played is in the file, or has the negative number that
\* was asked for.
InFile(t, wanted, ini, num) == t \in 0 .. num - 1 \/ Below(t, wanted, ini)

\* A number beyond the tracks is not chosen.
LEMMA ChosenInFile ==
  ASSUME NEW wanted \in Int, NEW ini \in Int, NEW num \in Nat \ {0}, NEW all \in Nat, num <= all
  PROVE  InFile(Chosen(wanted, ini, num), wanted, ini, all)
BY DEF Chosen, InFile, Below

\* The ini file gives an index of a track or none.
LEMMA SettingIndex ==
  ASSUME NEW j \in Job, NEW k \in {"audio_index", "video_index", "sub_index"}
  PROVE  dt_update_setting(j.ini)[k] \in Int
<1>1. k \in DOMAIN Default /\ Default[k] \in Int
  BY DEF Default
<1>2. k \in DOMAIN j.ini => j.ini[k] \in Int
  BY MediaOpenAssumption
<1> QED BY <1>1, <1>2 DEF dt_update_setting

\* What the ini file says of sound and picture is read.
LEMMA SettingSays ==
  ASSUME setting = dt_update_setting(job.ini), NEW k \in {"noaudio", "novideo"}, Says(k)
  PROVE  setting[k]
<1>1. k \in DOMAIN Default
  BY DEF Default
<1> QED BY <1>1 DEF dt_update_setting, Says

\* The demuxer lists no track that is not in the file.
LEMMA TracksInFile ==
  ASSUME job \in Job, Handles[demuxer].format = "aac" => job.file.format = "aac"
  PROVE  /\ media_info.ast \in 0 .. job.file.ast
         /\ media_info.vst \in 0 .. job.file.vst
         /\ media_info.sst \in 0 .. job.file.sst
<1>1. /\ job.file.ast \in Nat /\ job.file.vst \in Nat /\ job.file.sst \in Nat
      /\ job.file.format = "aac" => job.file.ast > 0
  BY MediaOpenAssumption
<1>2. CASE Handles[demuxer].format = "aac"
  BY <1>1, <1>2 DEF media_info, demuxer_aac_setup_info
<1>3. CASE Handles[demuxer].format # "aac"
  BY <1>1, <1>3 DEF media_info, demuxer_ffmpeg_setup_info
<1> QED BY <1>2, <1>3

\* What player_init chooses is in the file and was not ruled out.
LEMMA CtrlFits ==
  ASSUME job \in Job, setting = dt_update_setting(job.ini),
         Handles[demuxer].format = "aac" => job.file.format = "aac"
  PROVE  /\ Ctrl.audio => /\ InFile(Ctrl.ast, job.para.audio_index, setting.audio_index, job.file.ast)
                          /\ ~job.para.disable_audio /\ ~Says("noaudio")
         /\ Ctrl.video => /\ InFile(Ctrl.vst, job.para.video_index, setting.video_index, job.file.vst)
                          /\ ~job.para.disable_video /\ ~Says("novideo")
         /\ Ctrl.sub => /\ InFile(Ctrl.sst, job.para.sub_index, setting.sub_index, job.file.sst)
                        /\ ~job.para.disable_sub
         /\ Ctrl.disable_hw_vcodec = job.para.disable_hw_vcodec
<1>1. /\ job.file.ast \in Nat /\ job.file.vst \in Nat /\ job.file.sst \in Nat
      /\ {job.para.audio_index, job.para.video_index, job.para.sub_index} \subseteq Int
  BY MediaOpenAssumption
<1>2. /\ setting.audio_index \in Int
      /\ setting.video_index \in Int
      /\ setting.sub_index \in Int
  BY SettingIndex
<1>3. /\ media_info.ast \in 0 .. job.file.ast
      /\ media_info.vst \in 0 .. job.file.vst
      /\ media_info.sst \in 0 .. job.file.sst
  BY TracksInFile
<1>4. media_info.ast > 0 =>
        InFile(Chosen(job.para.audio_index, setting.audio_index, media_info.ast),
               job.para.audio_index, setting.audio_index, job.file.ast)
  BY <1>1, <1>2, <1>3, ChosenInFile
<1>5. media_info.vst > 0 =>
        InFile(Chosen(job.para.video_index, setting.video_index, media_info.vst),
               job.para.video_index, setting.video_index, job.file.vst)
  BY <1>1, <1>2, <1>3, ChosenInFile
<1>6. media_info.sst > 0 =>
        InFile(Chosen(job.para.sub_index, setting.sub_index, media_info.sst),
               job.para.sub_index, setting.sub_index, job.file.sst)
  BY <1>1, <1>2, <1>3, ChosenInFile
<1>7. (Says("noaudio") => setting.noaudio) /\ (Says("novideo") => setting.novideo)
  BY SettingSays
<1> QED BY <1>4, <1>5, <1>6, <1>7 DEF Ctrl

\* A hardware decoder is passed over where it is disabled.
LEMMA NoHardware ==
  ASSUME NEW f, NEW disable_hw, disable_hw, select_video_decoder(f, disable_hw) # Null
  PROVE  ~Handles[select_video_decoder(f, disable_hw)].hw
<1>1. select_video_decoder(f, disable_hw)
        \in {p \in OfFormat(f) : disable_hw /\ Handles[p].hw => Handles[p].format = Any}
  BY FirstFits DEF select_video_decoder
<1> QED BY <1>1, HardwareAssumption DEF OfFormat

\* A packet for the host is one of a chosen track.
LEMMA PacketOfTrack ==
  ASSUME NEW t, TypeOf(t) # "unknown"
  PROVE  \/ TypeOf(t) = "audio" /\ t = <<"audio", ctrl.ast>>
         \/ TypeOf(t) = "video" /\ t = <<"video", ctrl.vst>>
         \/ TypeOf(t) = "sub" /\ t = <<"sub", ctrl.sst>>
<1>1. CASE t = <<"video", ctrl.vst>> /\ ctrl.video
  BY <1>1 DEF TypeOf
<1>2. CASE ~(t = <<"video", ctrl.vst>> /\ ctrl.video) /\ t = <<"audio", ctrl.ast>> /\ ctrl.audio
  BY <1>2 DEF TypeOf
<1>3. CASE /\ ~(t = <<"video", ctrl.vst>> /\ ctrl.video)
           /\ ~(t = <<"audio", ctrl.ast>> /\ ctrl.audio)
           /\ t = <<"sub", ctrl.sst>> /\ ctrl.sub
  BY <1>3 DEF TypeOf
<1>4. CASE /\ ~(t = <<"video", ctrl.vst>> /\ ctrl.video)
           /\ ~(t = <<"audio", ctrl.ast>> /\ ctrl.audio)
           /\ ~(t = <<"sub", ctrl.sst>> /\ ctrl.sub)
  BY <1>4 DEF TypeOf
<1> QED BY <1>1, <1>2, <1>3, <1>4

LEMMA ChosenInitially ==
  ASSUME Init
  PROVE  ChosenInv
BY DEF Init, OpenInit, ChosenInv, Demuxed, Prepared, Opening, Idle

LEMMA ChosenStep ==
  ASSUME ChosenInv, ProbeInv, [Next]_vars
  PROVE  ChosenInv'
<1>1. ASSUME app' \in Idle PROVE ChosenInv'
  BY <1>1 DEF ChosenInv, Demuxed, Prepared, Opening, Idle
<1>2. ASSUME UNCHANGED <<app, job, setting, demuxer, ctrl, host, frame>> PROVE ChosenInv'
  BY <1>2 DEF ChosenInv, Ctrl, media_info, demuxer_ffmpeg_setup_info
<1>3. ASSUME app \in Opening, app' \in {"stream", "probe", "seek_back", "select"},
             UNCHANGED <<job, setting, frame>>
      PROVE  ChosenInv'
  BY <1>3 DEF ChosenInv, Opening, Demuxed, Prepared, Idle
<1>4. CASE dtplayer_init
  <2>1. app' = "stream" /\ setting' = dt_update_setting(job'.ini) /\ frame' = Null
    BY <1>4 DEF dtplayer_init
  <2> QED BY <2>1 DEF ChosenInv, Opening, Demuxed, Prepared, Idle
<1>5. CASE stream_open /\ UNCHANGED playeropenvars
  BY <1>3, <1>5 DEF stream_open, playeropenvars, Opening
<1>6. CASE probe_data /\ UNCHANGED playeropenvars
  BY <1>3, <1>6 DEF probe_data, playeropenvars, Opening
<1>7. CASE probe_nothing /\ UNCHANGED playeropenvars
  BY <1>1, <1>3, <1>7 DEF probe_nothing, ProbeEnds, GiveUp, playeropenvars, Opening, Idle
<1>8. CASE probe_eof /\ UNCHANGED playeropenvars
  BY <1>1, <1>3, <1>8 DEF probe_eof, ProbeEnds, GiveUp, playeropenvars, Opening, Idle
<1>9. CASE seek_back /\ UNCHANGED playeropenvars
  BY <1>3, <1>9 DEF seek_back, playeropenvars, Opening
<1>10. CASE demuxer_select /\ UNCHANGED playeropenvars
  <2>1. app = "select" /\ UNCHANGED <<job, setting, frame>>
    BY <1>10 DEF demuxer_select, playeropenvars
  <2>2. CASE app' = "setup" /\ demuxer' # Null
    <3>1. demuxer' = First("demuxer", {p \in Plugin : KindOf(p) = "demuxer" /\ Likes(p)})
      BY <1>10 DEF demuxer_select
    <3>2. demuxer' \in {p \in Plugin : KindOf(p) = "demuxer" /\ Likes(p)}
      BY <2>2, <3>1, FirstFits
    <3>3. Likes(demuxer')
      BY <3>2
    <3>4. Handles[demuxer'].format = "aac" => job.file.format = "aac"
      BY <3>3 DEF Likes
    <3> QED BY <2>1, <2>2, <3>4 DEF ChosenInv, Opening, Demuxed, Prepared, Idle
  <2> QED BY <1>1, <1>10, <2>2 DEF demuxer_select, GiveUp, Idle
<1>11. CASE demuxer_open /\ UNCHANGED playeropenvars
  <2>1. app = "setup" /\ app' \in {"init", "idle"} /\ UNCHANGED <<job, setting, demuxer, frame>>
    BY <1>11 DEF demuxer_open, playeropenvars
  <2> QED BY <1>1, <2>1 DEF ChosenInv, Opening, Demuxed, Prepared, Idle
<1>12. CASE cache
  BY <1>1, <1>2, <1>12 DEF cache, cache_thread, playeropenvars, Idle
<1>13. CASE register_plugin
  BY <1>2, <1>13 DEF register_plugin, openvars
<1>14. CASE player_init
  <2>1. app = "init" /\ app' \in {"inited", "idle"} /\ ctrl' = Ctrl /\ UNCHANGED <<job, setting, demuxer, frame>>
    BY <1>14 DEF player_init, Keep
  <2>2. Ctrl' = Ctrl
    BY <2>1 DEF Ctrl, media_info, demuxer_ffmpeg_setup_info
  <2> QED BY <1>1, <2>1, <2>2 DEF ChosenInv, Opening, Demuxed, Prepared, Idle
<1>15. CASE info_only
  BY <1>1, <1>15 DEF info_only, Idle
<1>16. CASE player_service_init
  <2>1. app = "inited" /\ app' = "host" /\ UNCHANGED <<job, setting, demuxer, ctrl, frame>>
    BY <1>16 DEF player_service_init, Keep
  <2>2. Ctrl' = Ctrl
    BY <2>1 DEF Ctrl, media_info, demuxer_ffmpeg_setup_info
  <2> QED BY <2>1, <2>2 DEF ChosenInv, Opening, Demuxed, Prepared, Idle
<1>17. CASE player_host_init
  <2>1. app = "host" /\ app' = "io" /\ host' = HostPara /\ UNCHANGED <<job, setting, demuxer, ctrl, frame>>
    BY <1>17 DEF player_host_init, Keep
  <2>2. Ctrl' = Ctrl
    BY <2>1 DEF Ctrl, media_info, demuxer_ffmpeg_setup_info
  <2>3. ctrl = Ctrl /\ setting = dt_update_setting(job.ini)
        /\ (Handles[demuxer].format = "aac" => job.file.format = "aac") /\ frame = Null
    BY <2>1 DEF ChosenInv, Opening, Demuxed, Prepared, Idle
  <2>4. ctrl.disable_hw_vcodec = job.para.disable_hw_vcodec
    BY <2>3, CtrlFits DEF ProbeInv
  <2>5. HostPara.sync_enable => HostPara.has_audio /\ HostPara.has_video
    BY DEF HostPara
  <2>6. HostPara.vd # Null => HostPara.vd = select_video_decoder(job.file.vfmt, ctrl.disable_hw_vcodec)
    BY DEF HostPara
  <2>7. HostPara.vd # Null /\ job.para.disable_hw_vcodec => ~Handles[HostPara.vd].hw
    BY <2>4, <2>6, NoHardware
  <2> QED BY <2>1, <2>2, <2>3, <2>5, <2>7 DEF ChosenInv, Opening, Demuxed, Prepared, Idle
<1>18. CASE host_reads_outside
  BY <1>1, <1>18 DEF host_reads_outside, Idle
<1>24. CASE prepare_fails
  <2>1. app = "host" /\ app' = "joining" /\ UNCHANGED <<job, setting, demuxer>>
    BY <1>24 DEF prepare_fails, Keep
  <2> QED BY <2>1 DEF ChosenInv, Opening, Demuxed, Prepared, Idle
<1>19. CASE start_io_thread
  <2>1. app = "io" /\ app' = "playing" /\ UNCHANGED <<job, setting, demuxer, ctrl, host, frame>>
    BY <1>19 DEF start_io_thread, Keep
  <2>2. Ctrl' = Ctrl
    BY <2>1 DEF Ctrl, media_info, demuxer_ffmpeg_setup_info
  <2> QED BY <2>1, <2>2 DEF ChosenInv, Opening, Demuxed, Prepared, Idle
<1>20. CASE demuxer_read_frame
  <2>1. PICK t \in Track : frame' = IF TypeOf(t) = "unknown" THEN frame ELSE [type |-> TypeOf(t), track |-> t]
    BY <1>20 DEF demuxer_read_frame
  <2>2. app = "playing" /\ app' = "playing" /\ UNCHANGED <<job, setting, demuxer, ctrl, host>>
    BY <1>20 DEF demuxer_read_frame
  <2>3. Ctrl' = Ctrl
    BY <2>2 DEF Ctrl, media_info, demuxer_ffmpeg_setup_info
  <2>4. frame' # Null =>
          \/ frame' = [type |-> "audio", track |-> <<"audio", ctrl.ast>>]
          \/ frame' = [type |-> "video", track |-> <<"video", ctrl.vst>>]
          \/ frame' = [type |-> "sub", track |-> <<"sub", ctrl.sst>>]
    <3>1. CASE TypeOf(t) = "unknown"
      BY <2>1, <2>2, <3>1 DEF ChosenInv
    <3>2. CASE TypeOf(t) # "unknown"
      BY <2>1, <3>2, PacketOfTrack
    <3> QED BY <3>1, <3>2
  <2> QED BY <2>2, <2>3, <2>4 DEF ChosenInv, Opening, Demuxed, Prepared, Idle
<1>21. CASE quit
  BY <1>1, <1>21 DEF quit, Idle
<1>22. CASE quit_remove
  BY <1>2, <1>22 DEF quit_remove, openvars
<1>23. CASE UNCHANGED vars
  BY <1>2, <1>23 DEF vars, openvars, playeropenvars
<1> QED
  BY <1>4, <1>5, <1>6, <1>7, <1>8, <1>9, <1>10, <1>11, <1>12, <1>13, <1>14, <1>15, <1>16, <1>17,
     <1>18, <1>19, <1>20, <1>21, <1>22, <1>23, <1>24 DEF Next, open_file, playeropenvars

-----------------------------------------------------------------------------
(* Where the threads are.                                                   *)

LEMMA LoopInitially ==
  ASSUME Init
  PROVE  LoopInv
BY DEF Init, OpenInit, LoopInv, Idle

\* An application that waits for the last act of an event loop before it
\* opens a player finds the lists built as long as it has one.
LEMMA LoopStep ==
  ASSUME LoopInv, session \in Nat, [Next]_vars
  PROVE  LoopInv'
<1>1. ASSUME UNCHANGED <<session, register_ok, leaving, hasty>>, app' \in Idle \/ app \notin Idle
      PROVE  LoopInv'
  BY <1>1 DEF LoopInv
<1>2. CASE dtplayer_init
  <2>1. register_ok'
    BY <1>2 DEF dtplayer_init, player_register_all, pluginvars
  <2>2. /\ leaving' = leaving /\ session' = session + 1
        /\ hasty' = (hasty \/ leaving > 0)
    BY <1>2 DEF dtplayer_init
  <2>3. leaving' \in 0 .. session' /\ leaving' < session'
    BY <2>2 DEF LoopInv
  <2>4. leaving > 0 \/ leaving = 0
    BY DEF LoopInv
  <2>5. ~hasty' => leaving' = 0
    BY <2>2, <2>4
  <2> QED BY <2>1, <2>3, <2>5 DEF LoopInv
<1>3. CASE register_plugin
  <2>1. UNCHANGED <<app, session, leaving, hasty>>
    BY <1>3 DEF register_plugin, openvars
  <2>2. register_ok' = register_ok
    BY <1>3 DEF register_plugin, dtplayer_register_plugin, register_unchecked, register_vdec_ext,
                PutInFront, pluginvars
  <2> QED BY <1>1, <2>1, <2>2 DEF LoopInv
<1>4. ASSUME UNCHANGED <<session, pluginvars, playeropenvars>>, app \in Opening PROVE LoopInv'
  BY <1>1, <1>4 DEF pluginvars, playeropenvars, Opening, Idle
<1>5. CASE open_file
  BY <1>4, <1>5 DEF open_file, stream_open, probe_data, probe_nothing, probe_eof, seek_back,
                    demuxer_select, demuxer_open, Opening
<1>6. CASE cache
  <2>1. UNCHANGED <<session, register_ok, leaving, hasty>> /\ app' \in {app, "crashed"}
    BY <1>6 DEF cache, cache_thread, playeropenvars, pluginvars
  <2> QED BY <1>1, <2>1 DEF Idle
<1>7. CASE player_init
  BY <1>1, <1>7 DEF player_init, Keep, pluginvars, history, Idle
<1>8. CASE info_only
  BY <1>1, <1>8 DEF info_only, Keep, pluginvars, playeropenvars, Idle
<1>9. CASE player_service_init
  BY <1>1, <1>9 DEF player_service_init, Keep, pluginvars, history, Idle
<1>10. CASE player_host_init
  BY <1>1, <1>10 DEF player_host_init, Keep, pluginvars, history, Idle
<1>11. CASE host_reads_outside
  BY <1>1, <1>11 DEF host_reads_outside, Keep, pluginvars, playeropenvars, Idle
<1>12. CASE prepare_fails
  BY <1>1, <1>12 DEF prepare_fails, Keep, pluginvars, playeropenvars, Idle
<1>13. CASE start_io_thread
  BY <1>1, <1>13 DEF start_io_thread, Keep, pluginvars, history, Idle
<1>14. CASE demuxer_read_frame
  BY <1>1, <1>14 DEF demuxer_read_frame, pluginvars, history, Idle
<1>15. CASE quit
  <2>1. app \notin Idle /\ app' \in Idle /\ session' = session /\ leaving' = leaving + 1
    BY <1>15 DEF quit, Idle
  <2> QED BY <2>1 DEF LoopInv
<1>16. CASE quit_remove
  <2>1. leaving > 0 /\ leaving' = leaving - 1 /\ UNCHANGED <<app, session, hasty>>
    BY <1>16 DEF quit_remove, openvars, history
  <2> QED BY <2>1 DEF LoopInv
<1>17. CASE UNCHANGED vars
  <2>1. UNCHANGED <<app, session, register_ok, leaving, hasty>>
    BY <1>17 DEF vars, openvars, playeropenvars, pluginvars
  <2> QED BY <1>1, <2>1 DEF LoopInv
<1> QED
  BY <1>2, <1>3, <1>5, <1>6, <1>7, <1>8, <1>9, <1>10, <1>11, <1>12, <1>13, <1>14, <1>15, <1>16,
     <1>17 DEF Next

-----------------------------------------------------------------------------
(* The properties.                                                          *)

LEMMA HeldAlways == Spec => []HeldInv
BY HeldInitially, HeldStep, PTL DEF Spec

LEMMA ProbeAlways == Spec => []ProbeInv
BY ProbeInitially, ProbeStep, PTL DEF Spec

\* A demuxer is chosen by the head of the file and then finds the stream at
\* its head, whatever was read at a time, wherever the probe was cut short
\* and whatever earlier sessions left in the streams, as long as no thread of
\* theirs has read from the file (dtdemuxer.c:231-286, stream_cache.c:393-435).
THEOREM OpenProbes == Spec => []ProbeIsHead
<1>1. ProbeInv => ProbeIsHead
  BY DEF ProbeInv, InOrder, Probing, ProbeIsHead, AtHead, Pos
<1> QED BY <1>1, ProbeAlways, PTL

\* What is played is in the file, or has the negative number that was asked
\* for, and was not ruled out, for every file, ini file and set of parameters
\* (dtplayer.c:88-249, dtplayer_host.c:18-175).
THEOREM OpenPlaysChosen == Spec => []PlaysWhatWasChosen
<1>1. ProbeInv /\ ChosenInv => PlaysWhatWasChosen
  <2> SUFFICES ASSUME ProbeInv, ChosenInv, app \in {"io", "playing"} PROVE PlaysWhatWasChosen
    BY DEF PlaysWhatWasChosen
  <2>1. /\ job \in Job /\ setting = dt_update_setting(job.ini) /\ ctrl = Ctrl
        /\ Handles[demuxer].format = "aac" => job.file.format = "aac"
    BY DEF ProbeInv, ChosenInv, Demuxed, Prepared, Idle
  <2>2. /\ ctrl.audio => /\ InFile(ctrl.ast, job.para.audio_index, setting.audio_index, job.file.ast)
                         /\ ~job.para.disable_audio /\ ~Says("noaudio")
        /\ ctrl.video => /\ InFile(ctrl.vst, job.para.video_index, setting.video_index, job.file.vst)
                         /\ ~job.para.disable_video /\ ~Says("novideo")
        /\ ctrl.sub => /\ InFile(ctrl.sst, job.para.sub_index, setting.sub_index, job.file.sst)
                       /\ ~job.para.disable_sub
    BY <2>1, CtrlFits
  <2>3. /\ host.sync_enable => host.has_audio /\ host.has_video
        /\ host.vd # Null /\ job.para.disable_hw_vcodec => ~Handles[host.vd].hw
    BY DEF ChosenInv
  <2>4. frame # Null => frame.track = [audio |-> <<"audio", ctrl.ast>>,
                                       video |-> <<"video", ctrl.vst>>,
                                       sub |-> <<"sub", ctrl.sst>>][frame.type]
    BY DEF ChosenInv, Opening
  <2> QED BY <2>2, <2>3, <2>4 DEF PlaysWhatWasChosen, InFile
<1>2. Spec => []ChosenInv
  BY ChosenInitially, ChosenStep, ProbeAlways, PTL DEF Spec
<1> QED BY <1>1, <1>2, ProbeAlways, PTL

\* A player that has played to its end leaves the demuxer's context and what
\* the AAC demuxer allocated, and nothing else; a session that ended earlier
\* leaves no thread; and the file that is read is the current session's, open,
\* whatever the sessions before it left open (dtplayer.c:765-784).
THEOREM OpenLeavesNothing == Spec => []NothingLeftOpen
<1>1. HeldInv => NothingLeftOpen
  BY DEF HeldInv, NothingLeftOpen, Left
<1> QED BY <1>1, HeldAlways, PTL

\* Every list of plugins ends until one is registered again, and holds what is
\* built in while there is a player, until one is opened between the EXIT of
\* another and the removal that follows it (dtplayer.c:27-49, 778-781).
THEOREM OpenPlugins == Spec => []PluginsStay
<1>1. ASSUME DoubledInv, LoopInv PROVE PluginsStay
  <2> SUFFICES ASSUME ~doubled PROVE (\A k \in Kind : Ends(k)) /\ (~hasty => Present)
    BY DEF PluginsStay
  <2>1. ASSUME NEW k \in Kind
        PROVE  /\ Ends(k)
               /\ ~hasty /\ app \notin Idle => Range(Internal[k]) \subseteq Listed(k)
    <3>0. PICK n \in Nat : \E s : IsList(k, n, s) /\ InList(k, n, s)
      BY <1>1 DEF DoubledInv, ListInv
    <3>1. PICK s : IsList(k, n, s) /\ InList(k, n, s)
      BY <3>0
    <3>2. Ends(k) /\ Listed(k) = {s[i] : i \in 1 .. n}
      BY <3>1, ListFacts
    <3>3. ASSUME ~hasty, app \notin Idle, NEW p \in Range(Internal[k])
          PROVE  p \in Listed(k)
      <4>1. register_ok
        BY <1>1, <3>3 DEF LoopInv
      <4>2. PICK i \in DOMAIN Internal[k] : p = Internal[k][i]
        BY <3>3 DEF Range
      <4>3. \E j \in 1 .. n : s[j] = p
        BY <3>1, <4>1, <4>2 DEF InList
      <4> QED BY <3>2, <4>3
    <3> QED BY <3>2, <3>3
  <2> QED BY <2>1 DEF Present, Idle
<1>2. Init => DoubledInv /\ LoopInv
  BY ListsInitially, LoopInitially DEF Init, OpenInit, DoubledInv
<1>3. DoubledInv /\ LoopInv /\ ProbeInv /\ [Next]_vars => DoubledInv' /\ LoopInv'
  BY ListStep, LoopStep DEF ProbeInv
<1> QED BY <1>1, <1>2, <1>3, ProbeAlways, PTL DEF Spec

-----------------------------------------------------------------------------
(* Types.                                                                   *)

Typed ==
  /\ app \in Opening \cup {"idle", "inited", "host", "io", "playing", "joining", "crashed"}
  /\ loop \in {"none", "running"}
  /\ demuxer \in Plugin \cup {Null}

LEMMA TypedStep ==
  ASSUME Typed, [Next]_vars
  PROVE  Typed'
<1>1. app' \in Opening \cup {"idle", "inited", "host", "io", "playing", "joining", "crashed"}
  <2>1. ASSUME open_file PROVE app' \in Opening \cup {"idle"}
    BY <2>1 DEF open_file, stream_open, probe_data, probe_nothing, probe_eof, seek_back,
                demuxer_select, demuxer_open, ProbeEnds, GiveUp, Opening
  <2>2. ASSUME cache \/ register_plugin \/ quit_remove \/ demuxer_read_frame \/ UNCHANGED vars
        PROVE  app' \in {app, "crashed"}
    BY <2>2 DEF cache, cache_thread, register_plugin, quit_remove, demuxer_read_frame, openvars, vars
  <2>3. ASSUME dtplayer_init \/ player_init \/ info_only \/ player_service_init \/ player_host_init
                 \/ host_reads_outside \/ prepare_fails \/ start_io_thread \/ quit
        PROVE  app' \in {"stream", "idle", "inited", "host", "io", "playing", "joining", "crashed"}
    BY <2>3 DEF dtplayer_init, player_init, info_only, player_service_init, player_host_init,
                host_reads_outside, prepare_fails, start_io_thread, quit
  <2> QED BY <2>1, <2>2, <2>3 DEF Next, Typed, Opening
<1>2. loop' \in {"none", "running"}
  <2>1. ASSUME open_file \/ cache \/ register_plugin \/ quit_remove \/ UNCHANGED vars PROVE loop' = loop
    BY <2>1 DEF open_file, cache, register_plugin, quit_remove, playeropenvars, vars
  <2>2. ASSUME dtplayer_init \/ player_init \/ info_only \/ player_host_init \/ host_reads_outside
                 \/ prepare_fails \/ start_io_thread \/ demuxer_read_frame
        PROVE  loop' = loop
    BY <2>2 DEF dtplayer_init, player_init, info_only, player_host_init, host_reads_outside,
                prepare_fails, start_io_thread, demuxer_read_frame, playeropenvars
  <2>3. ASSUME player_service_init \/ quit PROVE loop' \in {"none", "running"}
    BY <2>3 DEF player_service_init, quit
  <2> QED BY <2>1, <2>2, <2>3 DEF Next, Typed
<1>3. demuxer' \in Plugin \cup {Null}
  <2>1. ASSUME demuxer_select PROVE demuxer' \in Plugin \cup {Null}
    <3>1. demuxer' \in {p \in Plugin : KindOf(p) = "demuxer" /\ Likes(p)} \cup {Null}
      BY <2>1, FirstFits DEF demuxer_select
    <3> QED BY <3>1
  <2>2. ASSUME open_file, ~demuxer_select PROVE demuxer' = demuxer
    BY <2>2 DEF open_file, stream_open, probe_data, probe_nothing, probe_eof, seek_back, demuxer_open
  <2>3. ASSUME cache \/ register_plugin \/ quit_remove \/ demuxer_read_frame \/ UNCHANGED vars
        PROVE  demuxer' = demuxer
    BY <2>3 DEF cache, cache_thread, register_plugin, quit_remove, demuxer_read_frame, openvars, vars
  <2>4. ASSUME dtplayer_init \/ player_init \/ info_only \/ player_service_init \/ player_host_init
                 \/ host_reads_outside \/ prepare_fails \/ start_io_thread \/ quit
        PROVE  demuxer' = demuxer
    BY <2>4 DEF dtplayer_init, player_init, info_only, player_service_init, player_host_init,
                host_reads_outside, prepare_fails, start_io_thread, quit, Keep
  <2> QED BY <2>1, <2>2, <2>3, <2>4 DEF Next, Typed
<1> QED BY <1>1, <1>2, <1>3 DEF Typed

\* Every variable keeps its type.
THEOREM OpenTyped == Spec => []TypeOK
<1>1. Init => Typed
  BY DEF Init, OpenInit, Typed
<1>2. ASSUME Typed, HeldInv, ProbeInv, LoopInv PROVE TypeOK
  <2>1. 1 .. session \subseteq 1 .. MaxSessions /\ 0 .. session \subseteq 0 .. MaxSessions
    BY <1>2, MediaOpenAssumption DEF HeldInv
  <2>2. held \subseteq (1 .. MaxSessions) \X Resource /\ reading \subseteq 1 .. MaxSessions
    BY <1>2, <2>1 DEF HeldInv
  <2>3. leaving \in 0 .. MaxSessions
    BY <1>2, <2>1 DEF LoopInv
  <2> QED BY <1>2, <2>2, <2>3 DEF Typed, HeldInv, ProbeInv, TypeOK, Opening
<1>3. Init => LoopInv
  BY LoopInitially
<1>4. LoopInv /\ ProbeInv /\ [Next]_vars => LoopInv'
  BY LoopStep DEF ProbeInv
<1> QED BY <1>1, <1>2, <1>3, <1>4, TypedStep, HeldAlways, ProbeAlways, PTL DEF Spec
=============================================================================
