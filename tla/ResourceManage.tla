--------------------------- MODULE ResourceManage ---------------------------
(***************************************************************************)
(* mqw::ResourceManage<T>, the object pool behind socket contexts, IO      *)
(* contexts, message buffers and user records.  Objects are allocated in   *)
(* blocks of count_per_unit_ and never freed while the pool lives; every   *)
(* operation holds list_lock_ from its first line to its last, so each is  *)
(* one step.                                                               *)
(***************************************************************************)
EXTENDS Naturals, Sequences

CONSTANTS Objects,   \* addresses the allocator may return
          Null,      \* the null pointer
          Unit,      \* count_per_unit_
          MaxBlocks, \* bound: blocks the allocator can provide
          MaxUnused  \* bound: length of unused_list_ after a reset

ASSUME NullAssumption == Null \notin Objects
ASSUME UnitAssumption == Unit \in Nat \ {0}
ASSUME BoundAssumption == MaxBlocks \in Nat /\ MaxUnused \in Nat

Pointers == Objects \cup {Null}

VARIABLES
  unused,     \* unused_list_, front first
  using,      \* using_list_, a map; a key absent from it is "absent"
  blocks,     \* resource_block_ptr_.size()
  allocated,  \* the objects of all blocks
  limit,      \* count_times_ when is_limited_, 0 when not
  seen        \* history: pointers that were handed out at least once

vars == <<unused, using, blocks, allocated, limit, seen>>

\* using_list_[p] when p is a key: p itself, or the null that operator[]
\* inserts when put() looks up a pointer that is not there.
Entry == {"absent", "self", "null"}

\* The constructor's block: Unit new objects in some order.
NewBlock(b, old) ==
  /\ b \in [1..Unit -> Objects \ old]
  /\ \A i, j \in 1..Unit : b[i] = b[j] => i = j

Init ==
  /\ NewBlock(unused, {})
  /\ allocated = {unused[i] : i \in 1..Unit}
  /\ using = [p \in Pointers |-> "absent"]
  /\ blocks = 1
  /\ limit = 0
  /\ seen = {}

\* set_limit(is_limit, times) with times raised to 1 at least.
SetLimit(times) ==
  /\ limit' = times
  /\ UNCHANGED <<unused, using, blocks, allocated, seen>>

\* Mutant: the object handed out is not entered in using_list_.
HandOut_Unlisted(l) ==
  /\ unused' = Tail(l)
  /\ seen' = seen \cup {Head(l)}
  /\ UNCHANGED using

\* Pops the front of the list l and enters it in using_list_ under itself.
HandOut(l) ==
  /\ unused' = Tail(l)
  /\ using' = [using EXCEPT ![Head(l)] =
                 IF Head(l) = Null THEN "null" ELSE "self"]
  /\ seen' = seen \cup {Head(l)}

\* get() with a free object at the front.
GetFree ==
  /\ unused # <<>>
  /\ HandOut(unused)
  /\ UNCHANGED <<blocks, allocated, limit>>

\* get() on an empty list allocates a block, unless the limit is reached.
GetNewBlock ==
  /\ unused = <<>>
  /\ ~(limit > 0 /\ blocks >= limit)
  /\ blocks < MaxBlocks
  /\ \E b \in [1..Unit -> Objects \ allocated] :
       /\ NewBlock(b, allocated)
       /\ HandOut(b)
       /\ allocated' = allocated \cup {b[i] : i \in 1..Unit}
  /\ blocks' = blocks + 1
  /\ UNCHANGED limit

\* Mutant: put does not erase the entry of using_list_.
PutUsed_NotErased(p) ==
  /\ using[p] = "self"
  /\ unused' = Append(unused, p)
  /\ UNCHANGED <<using, blocks, allocated, limit, seen>>

\* put(p) of an object in use.
PutUsed(p) ==
  /\ using[p] = "self"
  /\ using' = [using EXCEPT ![p] = "absent"]
  /\ unused' = Append(unused, p)
  /\ UNCHANGED <<blocks, allocated, limit, seen>>

\* put(p) of anything else is refused, and leaves a null under the key.
PutOther(p) ==
  /\ using[p] # "self"
  /\ using' = [using EXCEPT ![p] = "null"]
  /\ UNCHANGED <<unused, blocks, allocated, limit, seen>>

\* reset() appends every value of using_list_ in key order, the nulls too, and
\* empties the map.
Keys == {p \in Pointers : using[p] # "absent"}

Reset ==
  /\ \E n \in 0..MaxUnused : \E key \in [1..n -> Keys] :
       /\ Len(unused) + n <= MaxUnused
       /\ \A i, j \in 1..n : key[i] = key[j] => i = j
       /\ {key[i] : i \in 1..n} = Keys
       /\ unused' = unused \o
            [i \in 1..n |-> IF using[key[i]] = "self" THEN key[i] ELSE Null]
  /\ using' = [p \in Pointers |-> "absent"]
  /\ UNCHANGED <<blocks, allocated, limit, seen>>

Next ==
  \/ \E times \in 0..MaxBlocks : SetLimit(times)
  \/ GetFree
  \/ GetNewBlock
  \/ \E p \in Pointers : PutUsed(p) \/ PutOther(p)
  \/ Reset

Spec == Init /\ [][Next]_vars

-----------------------------------------------------------------------------
\* Every variable has its type; the null pointer is never in use.
TypeOK ==
  /\ unused \in Seq(Pointers)
  /\ using \in [Pointers -> Entry]
  /\ using[Null] # "self"
  /\ blocks \in Nat
  /\ allocated \subseteq Objects
  /\ limit \in Nat
  /\ seen \subseteq allocated \cup {Null}

\* get() never hands out an object somebody still holds: however often an
\* object is put, and put again after it was handed to somebody else, it is in
\* unused_list_ once at most and never while it is in use.
NoDoubleHandout ==
  /\ \A i, j \in 1..Len(unused) :
       unused[i] = unused[j] /\ unused[i] # Null => i = j
  /\ \A i \in 1..Len(unused) : unused[i] # Null => using[unused[i]] # "self"

\* No object of a block is lost: it is in use or will be handed out again, and
\* the pool never hands out an address that is not in one of its blocks.
NothingLost ==
  /\ \A p \in allocated :
       using[p] = "self" \/ \E i \in 1..Len(unused) : unused[i] = p
  /\ \A p \in Objects : using[p] = "self" => p \in allocated
  /\ \A i \in 1..Len(unused) : unused[i] \in allocated \cup {Null}

\* Objects never handed out come before the ones put back, so an object is
\* used a second time only when every object of every block was used once.
FirstLifeFirst ==
  /\ \A i, j \in 1..Len(unused) :
       i < j /\ unused[i] \in seen \cup {Null} => unused[j] \in seen \cup {Null}
  /\ \A p \in Objects : using[p] = "self" => p \in seen
=============================================================================
