------------------------ MODULE ResourceManage_proofs ------------------------
(***************************************************************************)
(* The object pool never hands an object out twice and never loses one,    *)
(* for any block size, any number of blocks and any limit, whatever        *)
(* pointers are put and however often.                                     *)
(***************************************************************************)
EXTENDS ResourceManage, TLAPS

PoolInv == TypeOK /\ NoDoubleHandout /\ NothingLost /\ FirstLifeFirst

\* What PoolInv says of a list l about to be popped, when the objects of all
\* blocks are A.  get() pops either unused_list_ or a new block.
ListOK(l, A) ==
  /\ l \in Seq(Pointers)
  /\ A \subseteq Objects
  /\ seen \subseteq A \cup {Null}
  /\ \A i, j \in 1..Len(l) : l[i] = l[j] /\ l[i] # Null => i = j
  /\ \A i \in 1..Len(l) : l[i] # Null => using[l[i]] # "self"
  /\ \A p \in A : using[p] = "self" \/ \E i \in 1..Len(l) : l[i] = p
  /\ \A p \in Objects : using[p] = "self" => p \in A /\ p \in seen
  /\ \A i \in 1..Len(l) : l[i] \in A \cup {Null}
  /\ \A i, j \in 1..Len(l) :
       i < j /\ l[i] \in seen \cup {Null} => l[j] \in seen \cup {Null}

\* Popping the front of a good list keeps the invariant.
LEMMA HandOutPreserves ==
  ASSUME NEW l, NEW A, ListOK(l, A), l # <<>>, HandOut(l),
         using \in [Pointers -> Entry], using[Null] # "self",
         allocated' = A, blocks' \in Nat, limit' \in Nat
  PROVE  PoolInv'
<1> DEFINE h == Head(l)
<1>1. /\ Len(l) \in Nat /\ Len(l) > 0
      /\ h = l[1] /\ h \in Pointers
      /\ unused' \in Seq(Pointers)
      /\ Len(unused') = Len(l) - 1
      /\ \A i \in 1..Len(unused') : unused'[i] = l[i + 1]
  BY DEF ListOK, HandOut
<1>2. /\ using' = [using EXCEPT ![h] = IF h = Null THEN "null" ELSE "self"]
      /\ seen' = seen \cup {h}
  BY DEF HandOut
<1>3. h \in A \cup {Null}
  BY <1>1 DEF ListOK
<1>4. TypeOK'
  BY <1>1, <1>2, <1>3 DEF TypeOK, ListOK, Entry
<1>5. NoDoubleHandout'
  <2>1. \A i \in 1..Len(unused') : unused'[i] # Null => unused'[i] # h
    BY <1>1 DEF ListOK
  <2>2. \A i, j \in 1..Len(unused') :
          unused'[i] = unused'[j] /\ unused'[i] # Null => i = j
    <3>1. TAKE i, j \in 1..Len(unused')
    <3>2. /\ i + 1 \in 1..Len(l) /\ unused'[i] = l[i + 1]
          /\ j + 1 \in 1..Len(l) /\ unused'[j] = l[j + 1]
      BY <1>1
    <3>3. l[i + 1] = l[j + 1] /\ l[i + 1] # Null => i + 1 = j + 1
      BY <3>2 DEF ListOK
    <3> QED BY <3>2, <3>3
  <2>3. \A i \in 1..Len(unused') :
          unused'[i] # Null => using'[unused'[i]] # "self"
    BY <1>1, <1>2, <2>1 DEF ListOK
  <2> QED BY <2>2, <2>3 DEF NoDoubleHandout
<1>6. NothingLost'
  <2>1. ASSUME NEW p \in A, using'[p] # "self"
        PROVE  \E i \in 1..Len(unused') : unused'[i] = p
    <3>1. p # h /\ using[p] # "self"
      BY <1>1, <1>2, <2>1, NullAssumption DEF ListOK, Pointers
    <3>2. PICK i \in 1..Len(l) : l[i] = p
      BY <3>1, <2>1 DEF ListOK
    <3>3. i - 1 \in 1..Len(unused') /\ unused'[i - 1] = p
      BY <3>1, <3>2, <1>1
    <3> QED BY <3>3
  <2>2. \A p \in Objects : using'[p] = "self" => p \in A
    BY <1>1, <1>2, <1>3, NullAssumption DEF ListOK, Pointers
  <2>3. \A i \in 1..Len(unused') : unused'[i] \in A \cup {Null}
    BY <1>1 DEF ListOK
  <2> QED BY <2>1, <2>2, <2>3 DEF NothingLost
<1>7. FirstLifeFirst'
  <2>1. ASSUME NEW i \in 1..Len(unused'), NEW j \in 1..Len(unused'), i < j,
               unused'[i] \in seen' \cup {Null}
        PROVE  unused'[j] \in seen' \cup {Null}
    <3>1. CASE unused'[i] \in seen \cup {Null}
      <4>1. i + 1 \in 1..Len(l) /\ j + 1 \in 1..Len(l) /\ i + 1 < j + 1
        BY <1>1, <2>1
      <4>2. l[j + 1] \in seen \cup {Null}
        BY <1>1, <3>1, <4>1 DEF ListOK
      <4> QED BY <1>1, <1>2, <4>2
    <3>2. CASE unused'[i] \notin seen \cup {Null}
      <4>1. l[i + 1] = l[1] /\ l[i + 1] # Null /\ i + 1 # 1
        BY <1>1, <1>2, <2>1, <3>2
      <4> QED BY <1>1, <4>1 DEF ListOK
    <3> QED BY <3>1, <3>2
  <2>2. \A p \in Objects : using'[p] = "self" => p \in seen'
    BY <1>1, <1>2 DEF ListOK, Pointers
  <2> QED BY <2>1, <2>2 DEF FirstLifeFirst
<1> QED BY <1>4, <1>5, <1>6, <1>7 DEF PoolInv

-----------------------------------------------------------------------------
LEMMA NewBlockOK ==
  ASSUME NEW A, A \subseteq Objects, NEW b \in [1..Unit -> Objects \ A],
         NewBlock(b, A)
  PROVE  /\ b \in Seq(Objects) /\ Len(b) = Unit /\ b # <<>>
         /\ \A i \in 1..Unit : b[i] \in Objects /\ b[i] \notin A
         /\ \A i, j \in 1..Unit : b[i] = b[j] => i = j
BY UnitAssumption DEF NewBlock

LEMMA InitPool == Init => PoolInv
<1> SUFFICES ASSUME Init PROVE PoolInv
  OBVIOUS
<1>1. /\ unused \in [1..Unit -> Objects \ {}]
      /\ NewBlock(unused, {})
  BY DEF Init, NewBlock
<1>2. /\ unused \in Seq(Objects) /\ Len(unused) = Unit
      /\ \A i \in 1..Unit : unused[i] \in Objects
      /\ \A i, j \in 1..Unit : unused[i] = unused[j] => i = j
  BY <1>1, NewBlockOK
<1>3. TypeOK
  BY <1>2, UnitAssumption DEF Init, TypeOK, Pointers, Entry
<1>4. NoDoubleHandout
  BY <1>2, UnitAssumption DEF Init, NoDoubleHandout, Pointers
<1>5. NothingLost
  BY <1>2, UnitAssumption DEF Init, NothingLost, Pointers
<1>6. FirstLifeFirst
  BY <1>2, NullAssumption DEF Init, FirstLifeFirst, Pointers
<1> QED BY <1>3, <1>4, <1>5, <1>6 DEF PoolInv

\* get() from the list.
LEMMA GetFreePool == PoolInv /\ GetFree => PoolInv'
<1> SUFFICES ASSUME PoolInv, GetFree PROVE PoolInv'
  OBVIOUS
<1>1. ListOK(unused, allocated)
  BY DEF PoolInv, TypeOK, NoDoubleHandout, NothingLost, FirstLifeFirst, ListOK
<1> QED
  BY <1>1, HandOutPreserves DEF PoolInv, TypeOK, GetFree

\* get() from a block just allocated.
LEMMA GetNewBlockPool == PoolInv /\ GetNewBlock => PoolInv'
<1> SUFFICES ASSUME PoolInv, GetNewBlock PROVE PoolInv'
  OBVIOUS
<1>1. PICK b \in [1..Unit -> Objects \ allocated] :
        /\ NewBlock(b, allocated)
        /\ HandOut(b)
        /\ allocated' = allocated \cup {b[i] : i \in 1..Unit}
  BY DEF GetNewBlock
<1> DEFINE A == allocated \cup {b[i] : i \in 1..Unit}
<1>2. /\ b \in Seq(Objects) /\ Len(b) = Unit /\ b # <<>>
      /\ \A i \in 1..Unit : b[i] \in Objects /\ b[i] \notin allocated
      /\ \A i, j \in 1..Unit : b[i] = b[j] => i = j
  BY <1>1, NewBlockOK DEF PoolInv, TypeOK
<1>3. A \subseteq Objects /\ seen \subseteq A \cup {Null}
  BY <1>2 DEF PoolInv, TypeOK
<1>4. \A p \in allocated : using[p] = "self"
  BY DEF PoolInv, TypeOK, NothingLost, GetNewBlock
<1>5. \A i \in 1..Unit : b[i] \notin seen \cup {Null} /\ using[b[i]] # "self"
  BY <1>2, NullAssumption DEF PoolInv, TypeOK, NothingLost
<1>6. ListOK(b, A)
  <2>1. b \in Seq(Pointers)
    BY <1>2 DEF Pointers
  <2>2. \A p \in A : using[p] = "self" \/ \E i \in 1..Len(b) : b[i] = p
    BY <1>2, <1>4
  <2>3. \A p \in Objects : using[p] = "self" => p \in A /\ p \in seen
    BY DEF PoolInv, NothingLost, FirstLifeFirst
  <2>4. \A i \in 1..Len(b) : b[i] \in A \cup {Null}
    BY <1>2
  <2> QED BY <1>2, <1>3, <1>5, <2>1, <2>2, <2>3, <2>4 DEF ListOK
<1>7. /\ blocks' \in Nat /\ limit' \in Nat
      /\ using \in [Pointers -> Entry] /\ using[Null] # "self"
  BY DEF PoolInv, TypeOK, GetNewBlock
<1> QED
  BY <1>1, <1>2, <1>6, <1>7, HandOutPreserves

LEMMA PutUsedPool ==
  ASSUME NEW p \in Pointers, PoolInv, PutUsed(p)
  PROVE  PoolInv'
<1>1. p \in Objects /\ p # Null /\ p \in allocated /\ p \in seen
  BY NullAssumption
  DEF PoolInv, TypeOK, PutUsed, NothingLost, FirstLifeFirst, Pointers
<1>2. /\ Len(unused) \in Nat
      /\ unused' \in Seq(Pointers)
      /\ Len(unused') = Len(unused) + 1
      /\ unused'[Len(unused) + 1] = p
      /\ \A i \in 1..Len(unused) : unused'[i] = unused[i]
  BY DEF PoolInv, TypeOK, PutUsed
<1>3. /\ using' = [using EXCEPT ![p] = "absent"]
      /\ using \in [Pointers -> Entry]
      /\ UNCHANGED <<blocks, allocated, limit, seen>>
  BY DEF PoolInv, TypeOK, PutUsed
<1>4. TypeOK'
  BY <1>2, <1>3 DEF PoolInv, TypeOK, Entry
<1>5. \A i \in 1..Len(unused) : unused[i] # p
  BY <1>1 DEF PoolInv, NoDoubleHandout, PutUsed
<1>6. NoDoubleHandout'
  <2>1. \A i, j \in 1..Len(unused') :
          unused'[i] = unused'[j] /\ unused'[i] # Null => i = j
    BY <1>2, <1>5 DEF PoolInv, NoDoubleHandout
  <2>2. ASSUME NEW i \in 1..Len(unused'), unused'[i] # Null
        PROVE  using'[unused'[i]] # "self"
    <3>1. CASE i = Len(unused) + 1
      BY <1>2, <1>3, <3>1
    <3>2. CASE i \in 1..Len(unused)
      BY <1>2, <1>3, <1>5, <2>2, <3>2 DEF PoolInv, NoDoubleHandout
    <3> QED BY <1>2, <3>1, <3>2
  <2> QED BY <2>1, <2>2 DEF NoDoubleHandout
<1>7. NothingLost'
  <2>1. ASSUME NEW q \in allocated', using'[q] # "self"
        PROVE  \E i \in 1..Len(unused') : unused'[i] = q
    <3>1. CASE q = p
      BY <1>2, <3>1
    <3>2. CASE q # p
      <4>1. PICK i \in 1..Len(unused) : unused[i] = q
        BY <1>3, <2>1, <3>2 DEF PoolInv, TypeOK, NothingLost, Pointers
      <4> QED BY <1>2, <4>1
    <3> QED BY <3>1, <3>2
  <2>2. \A q \in Objects : using'[q] = "self" => q \in allocated'
    BY <1>3 DEF PoolInv, NothingLost, Pointers
  <2>3. \A i \in 1..Len(unused') : unused'[i] \in allocated' \cup {Null}
    BY <1>1, <1>2, <1>3 DEF PoolInv, NothingLost
  <2> QED BY <2>1, <2>2, <2>3 DEF NothingLost
<1>8. FirstLifeFirst'
  <2>1. ASSUME NEW i \in 1..Len(unused'), NEW j \in 1..Len(unused'), i < j,
               unused'[i] \in seen' \cup {Null}
        PROVE  unused'[j] \in seen' \cup {Null}
    <3>1. CASE j = Len(unused) + 1
      BY <1>1, <1>2, <1>3, <3>1
    <3>2. CASE j \in 1..Len(unused)
      <4>1. i \in 1..Len(unused) /\ unused[i] \in seen \cup {Null}
        BY <1>2, <1>3, <2>1, <3>2
      <4> QED BY <1>2, <1>3, <2>1, <3>2, <4>1 DEF PoolInv, FirstLifeFirst
    <3> QED BY <1>2, <3>1, <3>2
  <2>2. \A q \in Objects : using'[q] = "self" => q \in seen'
    BY <1>3 DEF PoolInv, FirstLifeFirst, Pointers
  <2> QED BY <2>1, <2>2 DEF FirstLifeFirst
<1> QED BY <1>4, <1>6, <1>7, <1>8 DEF PoolInv

LEMMA PutOtherPool ==
  ASSUME NEW p \in Pointers, PoolInv, PutOther(p)
  PROVE  PoolInv'
<1>1. /\ using' = [using EXCEPT ![p] = "null"]
      /\ using \in [Pointers -> Entry]
      /\ using[p] # "self"
      /\ UNCHANGED <<unused, blocks, allocated, limit, seen>>
  BY DEF PoolInv, TypeOK, PutOther
<1>2. \A q \in Pointers : using'[q] = "self" <=> using[q] = "self"
  BY <1>1
<1>3. TypeOK'
  BY <1>1, <1>2 DEF PoolInv, TypeOK, Entry, Pointers
<1>4. NoDoubleHandout'
  BY <1>1, <1>2 DEF PoolInv, TypeOK, NoDoubleHandout, NothingLost, Pointers
<1>5. NothingLost'
  BY <1>1, <1>2 DEF PoolInv, TypeOK, NothingLost, Pointers
<1>6. FirstLifeFirst'
  BY <1>1, <1>2 DEF PoolInv, FirstLifeFirst, Pointers
<1> QED BY <1>3, <1>4, <1>5, <1>6 DEF PoolInv

\* reset() appends the objects in use, each once, and possibly some nulls.
LEMMA ResetPool == PoolInv /\ Reset => PoolInv'
<1> SUFFICES ASSUME PoolInv, Reset PROVE PoolInv'
  OBVIOUS
<1>1. PICK n \in 0..MaxUnused : \E key \in [1..n -> Keys] :
        /\ \A i, j \in 1..n : key[i] = key[j] => i = j
        /\ {key[i] : i \in 1..n} = Keys
        /\ unused' = unused \o
             [i \in 1..n |-> IF using[key[i]] = "self" THEN key[i] ELSE Null]
  BY DEF Reset
<1>2. PICK key \in [1..n -> Keys] :
        /\ \A i, j \in 1..n : key[i] = key[j] => i = j
        /\ {key[i] : i \in 1..n} = Keys
        /\ unused' = unused \o
             [i \in 1..n |-> IF using[key[i]] = "self" THEN key[i] ELSE Null]
  BY <1>1
<1> DEFINE v == [i \in 1..n |-> IF using[key[i]] = "self" THEN key[i] ELSE Null]
           m == Len(unused)
<1>3. /\ using' = [p \in Pointers |-> "absent"]
      /\ UNCHANGED <<blocks, allocated, limit, seen>>
      /\ unused \in Seq(Pointers) /\ m \in Nat /\ n \in Nat
  BY BoundAssumption DEF PoolInv, TypeOK, Reset
<1>4. v \in Seq(Pointers) /\ Len(v) = n
  BY <1>3 DEF Keys, Pointers
<1>5. /\ unused' \in Seq(Pointers)
      /\ Len(unused') = m + n
      /\ \A i \in 1..m : unused'[i] = unused[i]
      /\ \A i \in 1..(m + n) : i > m => unused'[i] = v[i - m]
  BY <1>2, <1>3, <1>4
<1>6. \A i \in 1..n : v[i] # Null => /\ v[i] = key[i]
                                     /\ using[v[i]] = "self"
                                     /\ v[i] \in Objects
  BY DEF Keys, Pointers
<1> HIDE DEF v, m
<1>7. \A i \in 1..(m + n) :
        \/ i \in 1..m /\ unused'[i] = unused[i]
        \/ i - m \in 1..n /\ unused'[i] = v[i - m]
  BY <1>3, <1>5
<1>8. TypeOK'
  BY <1>3, <1>5 DEF PoolInv, TypeOK, Entry, Pointers
<1>9. NoDoubleHandout'
  <2>1. \A i \in 1..m : unused[i] # Null => using[unused[i]] # "self"
    BY DEF PoolInv, NoDoubleHandout, m
  <2>2. \A i, j \in 1..m : unused[i] = unused[j] /\ unused[i] # Null => i = j
    BY DEF PoolInv, NoDoubleHandout, m
  <2>3. ASSUME NEW i \in 1..(m + n), NEW j \in 1..(m + n),
               unused'[i] = unused'[j], unused'[i] # Null
        PROVE  i = j
    <3>1. CASE i \in 1..m /\ j \in 1..m
      BY <1>5, <2>2, <2>3, <3>1
    <3>2. CASE i - m \in 1..n /\ j - m \in 1..n
      <4>1. unused'[i] = v[i - m] /\ unused'[j] = v[j - m]
        BY <1>3, <1>5, <3>2
      <4>2. key[i - m] = key[j - m]
        BY <1>6, <2>3, <3>2, <4>1
      <4> QED BY <1>2, <1>3, <3>2, <4>2
    <3>3. CASE \/ i \in 1..m /\ j - m \in 1..n
               \/ j \in 1..m /\ i - m \in 1..n
      BY <1>3, <1>5, <1>6, <2>1, <2>3, <3>3
    <3> QED BY <1>3, <3>1, <3>2, <3>3
  <2>4. \A i \in 1..(m + n) : unused'[i] # Null => using'[unused'[i]] # "self"
    BY <1>3, <1>5
  <2> QED BY <1>5, <2>3, <2>4 DEF NoDoubleHandout
<1>10. NothingLost'
  <2>1. ASSUME NEW p \in allocated
        PROVE  \E i \in 1..(m + n) : unused'[i] = p
    <3>1. CASE using[p] = "self"
      <4>1. p \in Keys
        BY <2>1, <3>1 DEF PoolInv, TypeOK, Keys, Pointers
      <4>2. PICK i \in 1..n : key[i] = p
        BY <1>2, <4>1
      <4>3. v[i] = p
        BY <3>1, <4>2 DEF v
      <4>4. m + i \in 1..(m + n) /\ m + i > m /\ (m + i) - m = i
        BY <1>3, <4>2 DEF m
      <4>5. unused'[m + i] = v[i]
        BY <1>5, <4>4
      <4> QED BY <4>3, <4>4, <4>5
    <3>2. CASE using[p] # "self"
      <4>1. PICK i \in 1..m : unused[i] = p
        BY <2>1, <3>2 DEF PoolInv, NothingLost, m
      <4>2. unused'[i] = unused[i]
        BY <1>5, <4>1
      <4>3. i \in 1..(m + n)
        BY <1>3, <4>1 DEF m
      <4> QED BY <4>1, <4>2, <4>3
    <3> QED BY <3>1, <3>2
  <2>2. \A i \in 1..(m + n) : unused'[i] \in allocated \cup {Null}
    <3>1. \A i \in 1..m : unused[i] \in allocated \cup {Null}
      BY DEF PoolInv, NothingLost, m
    <3>2. \A i \in 1..n : v[i] \in allocated \cup {Null}
      BY <1>6 DEF PoolInv, NothingLost
    <3> QED BY <1>7, <3>1, <3>2
  <2> QED BY <1>3, <1>5, <2>1, <2>2 DEF NothingLost, Pointers
<1>11. FirstLifeFirst'
  <2>1. \A i \in 1..n : v[i] \in seen \cup {Null}
    BY <1>6 DEF PoolInv, FirstLifeFirst
  <2>2. \A i, j \in 1..m :
          i < j /\ unused[i] \in seen \cup {Null} => unused[j] \in seen \cup {Null}
    BY DEF PoolInv, FirstLifeFirst, m
  <2>3. ASSUME NEW i \in 1..(m + n), NEW j \in 1..(m + n), i < j,
               unused'[i] \in seen \cup {Null}
        PROVE  unused'[j] \in seen \cup {Null}
    <3>1. CASE j - m \in 1..n
      BY <1>3, <1>5, <2>1, <3>1
    <3>2. CASE j \in 1..m
      BY <1>3, <1>5, <2>2, <2>3, <3>2
    <3> QED BY <1>7, <3>1, <3>2
  <2> QED BY <1>3, <1>5, <2>3 DEF FirstLifeFirst, Pointers
<1> QED BY <1>8, <1>9, <1>10, <1>11 DEF PoolInv

-----------------------------------------------------------------------------
\* PoolInv is an inductive invariant of the pool.
THEOREM PoolInvariant == Spec => []PoolInv
<1>1. PoolInv /\ [Next]_vars => PoolInv'
  <2> SUFFICES ASSUME PoolInv, [Next]_vars PROVE PoolInv'
    OBVIOUS
  <2>1. ASSUME NEW times \in 0..MaxBlocks, SetLimit(times) PROVE PoolInv'
    BY <2>1, BoundAssumption
    DEF PoolInv, SetLimit, TypeOK, NoDoubleHandout, NothingLost, FirstLifeFirst
  <2>2. CASE UNCHANGED vars
    BY <2>2
    DEF PoolInv, vars, TypeOK, NoDoubleHandout, NothingLost, FirstLifeFirst
  <2> QED
    BY <2>1, <2>2, GetFreePool, GetNewBlockPool, PutUsedPool, PutOtherPool,
       ResetPool DEF Next
<1> QED BY <1>1, InitPool, PTL DEF Spec

\* The two lists and the counters of get() and put() keep their types, for
\* every block size and limit.
THEOREM PoolTypes == Spec => []TypeOK
BY PoolInvariant, PTL DEF PoolInv

\* No object is handed out while it is in use, whatever is put how often.
THEOREM PoolExclusive == Spec => []NoDoubleHandout
BY PoolInvariant, PTL DEF PoolInv

\* No object of the pool is ever lost, none comes from elsewhere.
THEOREM PoolComplete == Spec => []NothingLost
BY PoolInvariant, PTL DEF PoolInv

\* Every object is used once before any is used twice.
THEOREM PoolFirstLives == Spec => []FirstLifeFirst
BY PoolInvariant, PTL DEF PoolInv
=============================================================================
