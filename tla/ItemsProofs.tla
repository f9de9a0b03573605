----------------------------- MODULE ItemsProofs -----------------------------
(***************************************************************************)
(* Proofs about module Items, for any number of workers, any strings, any  *)
(* first capacity and any amount of memory: the reference counts are       *)
(* exact, no holder reaches into memory that is still to be written, and   *)
(* every copy of the list is a value (module ItemStore).                   *)
(***************************************************************************)
EXTENDS Items, FiniteSetTheorems, SequenceTheorems, TLAPS

-----------------------------------------------------------------------------
(* The invariants                                                          *)

Offset == [from : Nat, size : Nat]
List == [strs : Blocks \union {Null}, offsets : Blocks \union {Null},
         strsSize : Nat, size : Nat, strsCap : Nat, cap : Nat]
Places == {"idle", "strs", "strsRef", "offsets", "offsetsRef", "sizes"}

(* Memory, of which a block has a reference count and what is in it. *)
Mem(hp) ==
  /\ DOMAIN hp = Blocks
  /\ \A b \in Blocks : DOMAIN hp[b] = {"refs", "data"} /\ hp[b].refs \in Nat

TypeInv ==
  /\ Mem(heap)
  /\ items \in [Holders -> List]
  /\ mpc \in {"idle", "offsets", "write"}
  /\ cpc \in [Holders -> Places]
  /\ dropping \in [Holders -> BOOLEAN]

(* Where an assignment has come to, and what it has assigned so far. *)
CopyInv(h) ==
  /\ cpc[h] = "strsRef" => items[h].strs = Null
  /\ cpc[h] = "offsetsRef" => items[h].offsets = Null
  /\ cpc[h] \in {"offsets", "offsetsRef", "sizes"} =>
       items[h].strs = Source(h).strs
  /\ cpc[h] = "sizes" => items[h].offsets = Source(h).offsets
  /\ dropping[h] => cpc[h] # "idle" /\ h \in Workers

(* Nobody assigns to mItems, and the mutex keeps the source of a copy that *)
(* is under way as it is.                                                  *)
LockInv ==
  /\ cpc["mItems"] = "idle"
  /\ cpc["mJob"] # "idle" => mpc = "idle" /\ ~Reading

(* What the main thread has room for. *)
PushInv ==
  /\ mpc \in {"offsets", "write"} =>
       pushed \in Texts /\ M.strsSize + Len(pushed) <= M.strsCap
  /\ mpc = "write" => M.size + 1 <= M.cap
  /\ M.strsSize <= M.strsCap /\ M.size <= M.cap
  /\ M.strsCap # 0 => M.strs # Null /\ DOMAIN heap[M.strs].data = 1..M.strsCap
  /\ M.cap # 0 => M.offsets # Null /\ DOMAIN heap[M.offsets].data = 1..M.cap

(* The list mItems is the longest. *)
SizeInv ==
  \A h \in Holders : items[h].strsSize <= M.strsSize /\ items[h].size <= M.size

(* A block has strings or offsets. *)
KindInv ==
  \A g, h \in Holders : items[g].strs = items[h].offsets => items[g].strs = Null

(* The list that h holds, or is becoming a copy of. *)
Value(h) == IF cpc[h] = "idle" THEN items[h] ELSE Source(h)

(* The offsets of a list are written, and within its strings. *)
Intact(hp, i) ==
  i.size # 0 =>
    /\ i.strs # Null /\ i.offsets # Null
    /\ 1..i.strsSize \subseteq DOMAIN hp[i.strs].data
    /\ \A n \in 1..i.size :
         /\ n \in DOMAIN hp[i.offsets].data
         /\ hp[i.offsets].data[n] \in Offset
         /\ LET o == hp[i.offsets].data[n] IN o.from + o.size <= i.strsSize

IntactInv == \A h \in Holders : Intact(heap, Value(h))

ItemsInv ==
  /\ TypeInv
  /\ \A h \in Holders : CopyInv(h)
  /\ LockInv
  /\ PushInv
  /\ SizeInv
  /\ KindInv
  /\ RefsExact
  /\ IntactInv
-----------------------------------------------------------------------------
(* Blocks and references                                                   *)

(* No block is the null pointer. *)
LEMMA NullIsNoBlock == Null \notin Blocks
BY ItemsAssumption DEF Null, Blocks

(* RcMem::unref takes one reference, and the memory if it was the last. *)
LEMMA UnrefFacts ==
  ASSUME NEW hp, Mem(hp), NEW c \in Blocks \union {Null},
         c # Null => hp[c].refs # 0
  PROVE  /\ Mem(Unref(hp, c))
         /\ \A b \in Blocks :
              /\ b # c => Unref(hp, c)[b] = hp[b]
              /\ b = c => Unref(hp, c)[b].refs = hp[b].refs - 1
              /\ b = c /\ hp[b].refs # 1 => Unref(hp, c)[b].data = hp[b].data
<1>1. CASE c = Null
  BY <1>1, NullIsNoBlock DEF Unref
<1>2. CASE c # Null /\ hp[c].refs = 1
  BY <1>2 DEF Unref, Mem, Free
<1>3. CASE c # Null /\ hp[c].refs # 1
  <2>1. Unref(hp, c) = [hp EXCEPT ![c].refs = @ - 1]
    BY <1>3 DEF Unref
  <2> QED BY <1>3, <2>1 DEF Mem
<1> QED BY <1>1, <1>2, <1>3

(* RcMem::ref adds one reference. *)
LEMMA RefFacts ==
  ASSUME NEW hp, Mem(hp), NEW c \in Blocks \union {Null}
  PROVE  /\ Mem(Ref(hp, c))
         /\ \A b \in Blocks :
              /\ Ref(hp, c)[b].data = hp[b].data
              /\ Ref(hp, c)[b].refs =
                   IF b = c THEN hp[b].refs + 1 ELSE hp[b].refs
<1>1. CASE c = Null
  BY <1>1, NullIsNoBlock DEF Ref
<1>2. CASE c # Null
  BY <1>2 DEF Ref, Mem
<1> QED BY <1>1, <1>2

(* The pointers to a block. *)
Slots == Holders \X Members
Pointers(its, b) == {p \in Slots : its[p[1]][p[2]] = b}

LEMMA SlotsFinite == IsFiniteSet(Slots)
<1>1. IsFiniteSet({"mItems", "mJob"}) /\ IsFiniteSet(Members)
  <2>1. \A a, b : IsFiniteSet({a} \union {b})
    BY FS_Singleton, FS_Union
  <2>2. ASSUME NEW a, NEW b PROVE IsFiniteSet({a, b})
    <3>1. {a, b} = {a} \union {b}
      OBVIOUS
    <3> QED BY <2>1, <3>1, Zenon
  <2> QED BY <2>2, Zenon DEF Members
<1>2. IsFiniteSet(Holders)
  BY <1>1, FS_Union, ItemsAssumption DEF Holders
<1> QED BY <1>1, <1>2, FS_Product DEF Slots

LEMMA PointersFinite ==
  ASSUME NEW its, NEW b
  PROVE  /\ IsFiniteSet(Pointers(its, b))
         /\ Cardinality(Pointers(its, b)) \in Nat
BY SlotsFinite, FS_Subset, FS_CardinalityType DEF Pointers

(* The pointers once x's member m is c. *)
Redirected(its, itq, x, m, c) ==
  /\ its[x][m] # c
  /\ \A h \in Holders, k \in Members :
       itq[h][k] = IF h = x /\ k = m THEN c ELSE its[h][k]

(* A pointer that changes is one fewer to what it was and one more to what *)
(* it is.                                                                  *)
LEMMA Repoint ==
  ASSUME NEW its, NEW itq, NEW x \in Holders, NEW m \in Members, NEW c,
         Redirected(its, itq, x, m, c), NEW b
  PROVE  Cardinality(Pointers(itq, b)) =
           IF b = c THEN Cardinality(Pointers(its, b)) + 1
           ELSE IF b = its[x][m] THEN Cardinality(Pointers(its, b)) - 1
           ELSE Cardinality(Pointers(its, b))
<1> DEFINE s == <<x, m>>
<1>1. s \in Slots /\ s[1] = x /\ s[2] = m
  BY DEF Slots
<1>2. \A p \in Slots : itq[p[1]][p[2]] = IF p = s THEN c ELSE its[p[1]][p[2]]
  BY DEF Slots, Redirected
<1>0. its[x][m] # c
  BY DEF Redirected
<1>3. CASE b = c
  <2>1. Pointers(itq, b) = Pointers(its, b) \union {s} /\ s \notin Pointers(its, b)
    BY <1>0, <1>1, <1>2, <1>3 DEF Pointers
  <2> QED BY <1>3, <2>1, FS_AddElement, PointersFinite
<1>4. CASE b # c /\ b = its[x][m]
  <2>1. Pointers(itq, b) = Pointers(its, b) \ {s} /\ s \in Pointers(its, b)
    BY <1>1, <1>2, <1>4 DEF Pointers
  <2> QED BY <1>4, <2>1, FS_RemoveElement, PointersFinite
<1>5. CASE b # c /\ b # its[x][m]
  <2>1. Pointers(itq, b) = Pointers(its, b)
    BY <1>1, <1>2, <1>5 DEF Pointers
  <2> QED BY <1>5, <2>1
<1> QED BY <1>3, <1>4, <1>5

(* A block that somebody points to has a reference, and one that two       *)
(* members point to has two.                                               *)
LEMMA Counted ==
  ASSUME RefsExact, NEW g \in Holders, NEW k \in Members,
         items[g][k] \in Blocks, Mem(heap)
  PROVE  /\ heap[items[g][k]].refs # 0
         /\ \A h \in Holders, m \in Members :
              items[h][m] = items[g][k] /\ <<h, m>> # <<g, k>> =>
                heap[items[g][k]].refs # 1
<1> DEFINE b == items[g][k]
           P == Pointers(items, b)
<1>1. heap[b].refs = Cardinality(P)
  BY DEF RefsExact, Pointers, Slots
<1>2. <<g, k>> \in P
  BY DEF Pointers, Slots
<1>3. Cardinality(P \ {<<g, k>>}) = Cardinality(P) - 1
  BY <1>2, FS_RemoveElement, PointersFinite
<1>4. IsFiniteSet(P \ {<<g, k>>})
  BY PointersFinite, FS_Subset
<1>5. heap[b].refs # 0
  BY <1>1, <1>3, <1>4, FS_CardinalityType, PointersFinite
<1>6. ASSUME NEW h \in Holders, NEW m \in Members,
             items[h][m] = b, <<h, m>> # <<g, k>>
      PROVE  heap[b].refs # 1
  <2>1. <<h, m>> \in P \ {<<g, k>>}
    BY <1>6 DEF Pointers, Slots
  <2>2. Cardinality(P \ {<<g, k>>}) # 0
    BY <2>1, <1>4, FS_EmptySet
  <2> QED BY <1>1, <1>3, <2>2, PointersFinite
<1> QED BY <1>5, <1>6

(* The step that changes one pointer, x's member m, to c: what it was      *)
(* loses a reference and c gains one, and what a block has in it stays     *)
(* unless the reference lost was the last, or the one gained is the first. *)
Repoints(x, m, c) ==
  /\ Redirected(items, items', x, m, c)
  /\ c \in Blocks \union {Null}
  /\ Mem(heap')
  /\ \A b \in Blocks :
       /\ heap'[b].refs = IF b = c THEN heap[b].refs + 1
                          ELSE IF b = items[x][m] THEN heap[b].refs - 1
                          ELSE heap[b].refs
       /\ \/ heap'[b].data = heap[b].data
          \/ b = c /\ heap[b].refs = 0
          \/ b = items[x][m] /\ heap[b].refs = 1

LEMMA RepointsExact ==
  ASSUME TypeInv, RefsExact, NEW x \in Holders, NEW m \in Members, NEW c,
         Repoints(x, m, c)
  PROVE  RefsExact'
<1> SUFFICES ASSUME NEW b \in Blocks
             PROVE  heap'[b].refs = Cardinality(Pointers(items', b))
  BY DEF RefsExact, Pointers, Slots
<1>1. heap[b].refs = Cardinality(Pointers(items, b))
  BY DEF RefsExact, Pointers, Slots
<1>2. Cardinality(Pointers(items', b)) =
        IF b = c THEN Cardinality(Pointers(items, b)) + 1
        ELSE IF b = items[x][m] THEN Cardinality(Pointers(items, b)) - 1
        ELSE Cardinality(Pointers(items, b))
  BY Repoint DEF Repoints
<1>3. heap'[b].refs = IF b = c THEN heap[b].refs + 1
                      ELSE IF b = items[x][m] THEN heap[b].refs - 1
                      ELSE heap[b].refs
  BY DEF Repoints
<1> QED BY <1>1, <1>2, <1>3

(* What another member points to stays as it is. *)
LEMMA RepointsKeeps ==
  ASSUME TypeInv, RefsExact, NEW x \in Holders, NEW m \in Members, NEW c,
         Repoints(x, m, c),
         NEW g \in Holders, NEW k \in Members, <<g, k>> # <<x, m>>,
         items[g][k] # Null
  PROVE  /\ items'[g][k] = items[g][k]
         /\ heap'[items[g][k]].data = heap[items[g][k]].data
<1>1. items[g][k] \in Blocks
  BY DEF TypeInv, List, Members
<1>2. items'[g][k] = items[g][k]
  BY DEF Repoints, Redirected
<1>3. heap[items[g][k]].refs # 0
  BY <1>1, Counted DEF TypeInv
<1>4. items[g][k] = items[x][m] => heap[items[g][k]].refs # 1
  BY <1>1, Counted DEF TypeInv
<1> QED BY <1>1, <1>2, <1>3, <1>4 DEF Repoints
-----------------------------------------------------------------------------
(* What the steps do to the pointers                                       *)

LEMMA SourceFacts ==
  ASSUME TypeInv, NEW h \in Holders
  PROVE  /\ Source(h) \in List /\ Value(h) \in List /\ NoItems \in List
         /\ SourceOf(h) \in Holders /\ SourceOf(h) # h
         /\ Source(h) = NoItems \/ Source(h) = items[SourceOf(h)]
<1>1. NoItems \in List
  BY DEF NoItems, List
<1>2. SourceOf(h) \in Holders /\ SourceOf(h) # h
  BY DEF SourceOf, Holders
<1> QED BY <1>1, <1>2 DEF Source, Value, TypeInv

(* A step of an assignment to h: h loses a pointer, or gains the one of    *)
(* its source.                                                             *)
Assigning(h, m) == DropOld(h, m) \/ TakeNew(h, m)

LEMMA AssigningRepoints ==
  ASSUME TypeInv, RefsExact, NEW h \in Holders, NEW m \in Members, CopyInv(h),
         Assigning(h, m)
  PROVE  /\ \/ UNCHANGED <<heap, items>>
            \/ \E c \in {Null, Source(h)[m]} : Repoints(h, m, c)
         /\ items' \in [Holders -> List]
         /\ \A g \in Holders :
              /\ g # h => items'[g] = items[g]
              /\ items'[g].strsSize = items[g].strsSize
              /\ items'[g].size = items[g].size
         /\ cpc[h] \in Places \ {"idle"}
         /\ \E p \in Places \ {"idle"} : cpc' = [cpc EXCEPT ![h] = p]
         /\ UNCHANGED <<mpc, pushed, dropping>>
<1>1. /\ items[h][m] \in Blocks \union {Null}
      /\ Source(h)[m] \in Blocks \union {Null}
  BY SourceFacts DEF TypeInv, List, Members
<1>2. /\ After(m) \in Places \ {"idle"} /\ Taking(m) \in Places \ {"idle"}
      /\ m \in Places \ {"idle"}
  BY DEF After, Taking, Places, Members
<1>3. ASSUME NEW c \in Blocks \union {Null}, items[h][m] # c,
             items' = [items EXCEPT ![h][m] = c]
      PROVE  /\ Redirected(items, items', h, m, c)
             /\ items' \in [Holders -> List]
             /\ \A g \in Holders :
                  /\ g # h => items'[g] = items[g]
                  /\ items'[g].strsSize = items[g].strsSize
                  /\ items'[g].size = items[g].size
  BY <1>3 DEF Redirected, TypeInv, List, Members
<1>4. CASE DropOld(h, m) /\ items[h][m] = Source(h)[m]
  BY <1>4, <1>2 DEF DropOld, TypeInv
<1>5. CASE DropOld(h, m) /\ items[h][m] # Source(h)[m]
  <2>1. /\ heap' = Unref(heap, items[h][m])
        /\ items' = [items EXCEPT ![h][m] = Null]
        /\ cpc[h] = m /\ cpc' = [cpc EXCEPT ![h] = Taking(m)]
        /\ UNCHANGED <<mpc, pushed, dropping>>
    BY <1>5 DEF DropOld
  <2>2. CASE items[h][m] = Null
    <3>1. heap' = heap /\ items' = items
      BY <2>1, <2>2 DEF Unref, TypeInv, List, Members
    <3> QED BY <3>1, <2>1, <1>2 DEF TypeInv
  <2>3. CASE items[h][m] # Null
    <3>1. heap[items[h][m]].refs # 0
      BY <1>1, <2>3, Counted DEF TypeInv
    <3> DEFINE b == items[h][m]
    <3>2. Redirected(items, items', h, m, Null)
      BY <1>3, <2>1, <2>3
    <3>3. /\ Mem(heap')
          /\ \A a \in Blocks :
               /\ a # b => heap'[a] = heap[a]
               /\ a = b => heap'[a].refs = heap[a].refs - 1
               /\ a = b /\ heap[a].refs # 1 => heap'[a].data = heap[a].data
      BY <1>1, <2>1, <3>1, UnrefFacts DEF TypeInv
    <3>4. Repoints(h, m, Null)
      BY <3>2, <3>3, NullIsNoBlock DEF Repoints
    <3> QED BY <3>4, <2>1, <2>3, <1>2, <1>3
  <2> QED BY <2>2, <2>3
<1>6. CASE TakeNew(h, m)
  <2>1. /\ heap' = Ref(heap, Source(h)[m])
        /\ items' = [items EXCEPT ![h][m] = Source(h)[m]]
        /\ cpc[h] = Taking(m) /\ cpc' = [cpc EXCEPT ![h] = After(m)]
        /\ UNCHANGED <<mpc, pushed, dropping>>
    BY <1>6 DEF TakeNew
  <2>2. items[h][m] = Null
    BY <2>1 DEF CopyInv, Taking, Members
  <2>3. CASE Source(h)[m] = Null
    <3>1. heap' = heap /\ items' = items
      BY <2>1, <2>2, <2>3 DEF Ref, TypeInv, List, Members
    <3> QED BY <3>1, <2>1, <1>2 DEF TypeInv
  <2>4. CASE Source(h)[m] # Null
    <3> DEFINE c == Source(h)[m]
    <3>1. Redirected(items, items', h, m, c)
      BY <1>1, <1>3, <2>1, <2>2, <2>4
    <3>2. /\ Mem(heap')
          /\ \A b \in Blocks :
               /\ heap'[b].data = heap[b].data
               /\ heap'[b].refs =
                    IF b = c THEN heap[b].refs + 1 ELSE heap[b].refs
      BY <1>1, <2>1, RefFacts DEF TypeInv
    <3>3. Repoints(h, m, c)
      BY <1>1, <2>2, <3>1, <3>2, NullIsNoBlock DEF Repoints
    <3> QED BY <3>3, <2>1, <2>2, <2>4, <1>1, <1>2, <1>3
  <2> QED BY <2>3, <2>4
<1> QED BY <1>4, <1>5, <1>6 DEF Assigning

(* The main thread's list moves to a block that nobody points to.  What is *)
(* used of the old block is in the new one.                                *)
LEMMA MoveFacts ==
  ASSUME TypeInv, RefsExact, NEW m \in Members, NEW used \in Nat,
         NEW capacity \in {"strsCap", "cap"}, NEW n \in Nat, used <= n,
         Move(m, used, capacity, n)
  PROVE  \E new \in Blocks :
           /\ heap[new].refs = 0
           /\ Repoints("mItems", m, new)
           /\ items' \in [Holders -> List]
           /\ \A g \in Holders : g # "mItems" => items'[g] = items[g]
           /\ M' = [M EXCEPT ![m] = new, ![capacity] = n]
           /\ DOMAIN heap'[new].data = 1..n
           /\ \A k \in 1..used : heap'[new].data[k] = heap[M[m]].data[k]
<1> DEFINE old == M[m]
           new == CHOOSE b \in FreeBlocks : TRUE
           data == [k \in 1..n |-> IF k <= used THEN heap[old].data[k] ELSE Junk]
           hp == [heap EXCEPT ![new] = [refs |-> 1, data |-> data]]
<1>1. /\ FreeBlocks # {}
      /\ heap' = Unref(hp, old)
      /\ items' = [items EXCEPT !["mItems"][m] = new, !["mItems"][capacity] = n]
  BY DEF Move
<1>2. new \in Blocks /\ heap[new].refs = 0
  BY <1>1 DEF FreeBlocks
<1>3. "mItems" \in Holders /\ old \in Blocks \union {Null}
  BY DEF Holders, M, TypeInv, List, Members
<1>4. old \in Blocks => heap[old].refs # 0
  BY <1>3, Counted DEF M, TypeInv
<1>5. old # new
  BY <1>2, <1>4
<1> HIDE DEF new
<1>6. /\ Mem(hp)
      /\ \A b \in Blocks : b # new => hp[b] = heap[b]
      /\ hp[new].refs = 1 /\ hp[new].data = data
  BY <1>2 DEF Mem, TypeInv
<1>7. old # Null => hp[old].refs # 0
  BY <1>3, <1>4, <1>5, <1>6
<1> HIDE DEF hp
<1>8. /\ Mem(heap')
      /\ \A b \in Blocks :
           /\ b # old => heap'[b] = hp[b]
           /\ b = old => heap'[b].refs = hp[b].refs - 1
           /\ b = old /\ hp[b].refs # 1 => heap'[b].data = hp[b].data
  BY <1>1, <1>3, <1>6, <1>7, UnrefFacts
<1>9. /\ items' \in [Holders -> List]
      /\ \A g \in Holders : g # "mItems" => items'[g] = items[g]
      /\ M' = [M EXCEPT ![m] = new, ![capacity] = n]
  BY <1>1, <1>2, <1>3 DEF M, TypeInv, List, Members
<1>10. Redirected(items, items', "mItems", m, new)
  BY <1>3, <1>5, <1>9 DEF M, Redirected, TypeInv, List, Members
<1>11. Repoints("mItems", m, new)
  BY <1>2, <1>5, <1>6, <1>8, <1>10 DEF Repoints, M
<1>12. heap'[new].data = data
  BY <1>2, <1>5, <1>6, <1>8
<1>13. \A k \in 1..used : k \in 1..n /\ k <= used
  OBVIOUS
<1>14. DOMAIN data = 1..n /\ \A k \in 1..used : data[k] = heap[old].data[k]
  BY <1>13
<1> HIDE DEF data
<1> QED BY <1>2, <1>9, <1>11, <1>12, <1>14
-----------------------------------------------------------------------------
(* What a list reads                                                       *)

(* At and View of the list i, in the memory hp. *)
AtIn(hp, i, n) ==
  LET cell(b, k) == IF b # Null /\ k \in DOMAIN hp[b].data
                    THEN hp[b].data[k] ELSE Junk
      offset == cell(i.offsets, n)
  IN IF offset = Junk THEN <<Junk>>
     ELSE [k \in 1..offset.size |-> cell(i.strs, offset.from + k)]

ViewIn(hp, i) == [n \in 1..i.size |-> AtIn(hp, i, n)]

LEMMA ViewIsViewIn ==
  ASSUME NEW h \in Holders
  PROVE  View(h) = ViewIn(heap, Value(h)) /\ View(h)' = ViewIn(heap', Value(h)')
BY Zenon DEF View, Value, At, ViewIn, AtIn

(* What the string of offset o is in block b. *)
Text(hp, b, o) == [k \in 1..o.size |-> hp[b].data[o.from + k]]

LEMMA IntactReads ==
  ASSUME NEW hp, NEW i \in List, Intact(hp, i), NEW n \in 1..i.size
  PROVE  /\ hp[i.offsets].data[n] \in Offset
         /\ \A k \in 1..hp[i.offsets].data[n].size :
              hp[i.offsets].data[n].from + k \in 1..i.strsSize
         /\ AtIn(hp, i, n) = Text(hp, i.strs, hp[i.offsets].data[n])
<1> DEFINE o == hp[i.offsets].data[n]
<1>1. i.size # 0 /\ i.strsSize \in Nat /\ i.size \in Nat
  BY DEF List
<1>2. /\ i.strs # Null /\ i.offsets # Null
      /\ 1..i.strsSize \subseteq DOMAIN hp[i.strs].data
      /\ n \in DOMAIN hp[i.offsets].data
      /\ o \in Offset /\ o.from + o.size <= i.strsSize
  BY <1>1 DEF Intact
<1>3. o # Junk
  BY <1>2, ItemsAssumption DEF Offset
<1>4. o.from \in Nat /\ o.size \in Nat
  BY <1>2 DEF Offset
<1>5. ASSUME NEW k \in 1..o.size PROVE o.from + k \in 1..i.strsSize
  BY <1>1, <1>2, <1>4
<1> HIDE DEF o
<1>6. \A k \in 1..o.size : o.from + k \in DOMAIN hp[i.strs].data
  <2>1. 1..i.strsSize \subseteq DOMAIN hp[i.strs].data
    BY <1>1, Zenon DEF Intact
  <2> QED BY <1>5, <2>1, Zenon
<1>7. AtIn(hp, i, n) = Text(hp, i.strs, o)
  BY <1>2, <1>3, <1>6 DEF AtIn, Text, o
<1> QED BY <1>2, <1>5, <1>7 DEF o

(* The lists i, in the memory hp, and j, in hq, have the same in them. *)
SameStrings(hp, i, hq, j) ==
  /\ j.size = i.size /\ j.strsSize = i.strsSize
  /\ i.size # 0 =>
       /\ j.strs # Null /\ j.offsets # Null
       /\ \A k \in 1..i.strsSize :
            /\ k \in DOMAIN hq[j.strs].data
            /\ hq[j.strs].data[k] = hp[i.strs].data[k]
       /\ \A n \in 1..i.size :
            /\ n \in DOMAIN hq[j.offsets].data
            /\ hq[j.offsets].data[n] = hp[i.offsets].data[n]

LEMMA SameView ==
  ASSUME NEW hp, NEW hq, NEW i \in List, NEW j \in List, Intact(hp, i),
         SameStrings(hp, i, hq, j)
  PROVE  Intact(hq, j) /\ ViewIn(hq, j) = ViewIn(hp, i)
<1>1. Intact(hq, j)
  BY DEF Intact, SameStrings
<1>2. ASSUME NEW n \in 1..i.size
      PROVE  AtIn(hq, j, n) = AtIn(hp, i, n)
  <2> DEFINE o == hp[i.offsets].data[n]
  <2>1. i.size # 0 /\ n \in 1..j.size /\ hq[j.offsets].data[n] = o
    BY DEF SameStrings, List
  <2>2. /\ AtIn(hp, i, n) = Text(hp, i.strs, o)
        /\ AtIn(hq, j, n) = Text(hq, j.strs, o)
        /\ \A k \in 1..o.size : o.from + k \in 1..i.strsSize
    BY <1>1, <2>1, IntactReads
  <2>3. \A k \in 1..o.size :
          hq[j.strs].data[o.from + k] = hp[i.strs].data[o.from + k]
    BY <2>1, <2>2 DEF SameStrings
  <2> HIDE DEF o
  <2> QED BY <2>2, <2>3 DEF Text
<1> QED BY <1>1, <1>2 DEF ViewIn, SameStrings

LEMMA NoItemsIntact == \A hp : Intact(hp, NoItems)
BY DEF Intact, NoItems

(* Nobody assigns to the source of a copy that is under way.  It is the    *)
(* main thread's list only while the job is being replaced.                *)
LEMMA SourceIdle ==
  ASSUME LockInv, NEW g \in Holders, cpc[g] # "idle", ~dropping[g]
  PROVE  /\ cpc[SourceOf(g)] = "idle"
         /\ SourceOf(g) = "mItems" => cpc["mJob"] # "idle"
<1>1. g = "mJob" \/ g \in Workers
  BY DEF LockInv, Holders
<1>2. CASE g = "mJob"
  BY <1>2 DEF LockInv, SourceOf
<1>3. CASE g \in Workers /\ g # "mJob"
  BY <1>3 DEF LockInv, SourceOf, Reading
<1> QED BY <1>1, <1>2, <1>3

(* What a holder holds, or is becoming a copy of, is empty or the list of  *)
(* a holder that nobody assigns to.                                        *)
LEMMA Anchor ==
  ASSUME TypeInv, LockInv, NEW g \in Holders
  PROVE  \/ Value(g) = NoItems
         \/ \E a \in Holders :
              /\ Value(g) = items[a] /\ cpc[a] = "idle"
              /\ a = "mItems" => g = "mItems" \/ cpc["mJob"] # "idle"
<1>1. CASE cpc[g] = "idle"
  BY <1>1 DEF Value
<1>2. CASE cpc[g] # "idle" /\ dropping[g]
  BY <1>2 DEF Value, Source
<1>3. CASE cpc[g] # "idle" /\ ~dropping[g]
  BY <1>3, SourceFacts, SourceIdle DEF Value, Source
<1> QED BY <1>1, <1>2, <1>3

(* A step that leaves the list of a holder as it is, and what is in its    *)
(* two blocks.                                                             *)
Leaves(a) ==
  /\ items'[a] = items[a]
  /\ \A k \in Members :
       items[a][k] # Null => heap'[items[a][k]].data = heap[items[a][k]].data

(* When what every holder has, or becomes a copy of, is left as it is, so  *)
(* are the views.                                                          *)
LEMMA LeavesView ==
  ASSUME TypeInv, NEW g \in Holders, Intact(heap, Value(g)),
         Value(g)' = Value(g),
         \/ Value(g) = NoItems
         \/ \E a \in Holders : Value(g) = items[a] /\ Leaves(a)
  PROVE  Intact(heap', Value(g)') /\ View(g)' = View(g)
<1> DEFINE i == Value(g)
<1>1. i \in List
  BY SourceFacts
<1>2. SameStrings(heap, i, heap', i)
  <2>1. CASE i = NoItems
    BY <2>1 DEF SameStrings, NoItems
  <2>2. CASE \E a \in Holders : i = items[a] /\ Leaves(a)
    <3>1. PICK a \in Holders : i = items[a] /\ Leaves(a)
      BY <2>2
    <3> SUFFICES ASSUME i.size # 0
                 PROVE  /\ heap'[i.strs].data = heap[i.strs].data
                        /\ heap'[i.offsets].data = heap[i.offsets].data
      BY DEF Intact, SameStrings
    <3>2. i.strs # Null /\ i.offsets # Null
      BY DEF Intact
    <3> QED BY <3>1, <3>2 DEF Leaves, Members
  <2> QED BY <2>1, <2>2
<1> HIDE DEF i
<1>3. Intact(heap', i) /\ ViewIn(heap', i) = ViewIn(heap, i)
  BY <1>1, <1>2, SameView DEF i
<1> QED BY <1>3, ViewIsViewIn DEF i
-----------------------------------------------------------------------------
(* The steps of an assignment keep the invariant, and what everybody reads *)

LEMMA AssigningCopyInv ==
  ASSUME TypeInv, NEW h \in Holders, NEW m \in Members, CopyInv(h),
         Assigning(h, m), Source(h)' = Source(h)
  PROVE  CopyInv(h)'
<1>1. items[h] \in List /\ h \in DOMAIN cpc /\ Source(h) \in List
  BY SourceFacts DEF TypeInv
<1>2. ASSUME NEW c, items' = [items EXCEPT ![h][m] = c]
      PROVE  /\ items'[h][m] = c
             /\ \A k \in Members : k # m => items'[h][k] = items[h][k]
  BY <1>1, <1>2 DEF TypeInv, List, Members
<1>3. CASE DropOld(h, m)
  <2>1. CASE items[h][m] = Source(h)[m]
    <3>1. cpc[h] = m /\ cpc'[h] = After(m) /\ UNCHANGED <<items, dropping>>
      BY <1>1, <1>3, <2>1 DEF DropOld
    <3> QED BY <2>1, <3>1 DEF CopyInv, After, Members
  <2>2. CASE items[h][m] # Source(h)[m]
    <3>1. /\ cpc[h] = m /\ cpc'[h] = Taking(m) /\ UNCHANGED dropping
          /\ items'[h][m] = Null
          /\ \A k \in Members : k # m => items'[h][k] = items[h][k]
      BY <1>1, <1>2, <1>3, <2>2 DEF DropOld
    <3> QED BY <3>1 DEF CopyInv, Taking, Members
  <2> QED BY <2>1, <2>2
<1>4. CASE TakeNew(h, m)
  <2>1. /\ cpc[h] = Taking(m) /\ cpc'[h] = After(m) /\ UNCHANGED dropping
        /\ items'[h][m] = Source(h)[m]
        /\ \A k \in Members : k # m => items'[h][k] = items[h][k]
    BY <1>1, <1>2, <1>4 DEF TakeNew
  <2> QED BY <2>1 DEF CopyInv, Taking, After, Members
<1> QED BY <1>3, <1>4 DEF Assigning

LEMMA AssigningStep ==
  ASSUME ItemsInv, NEW h \in Holders \ {"mItems"}, NEW m \in Members,
         Assigning(h, m)
  PROVE  ItemsInv' /\ \A g \in Holders : View(g)' = View(g)
<1>1. /\ \/ UNCHANGED <<heap, items>>
         \/ \E c \in {Null, Source(h)[m]} : Repoints(h, m, c)
      /\ items' \in [Holders -> List]
      /\ \A g \in Holders :
           /\ g # h => items'[g] = items[g]
           /\ items'[g].strsSize = items[g].strsSize
           /\ items'[g].size = items[g].size
      /\ cpc[h] # "idle"
      /\ \E p \in Places \ {"idle"} : cpc' = [cpc EXCEPT ![h] = p]
      /\ UNCHANGED <<mpc, pushed, dropping>>
  BY AssigningRepoints DEF ItemsInv
<1>2. /\ cpc' \in [Holders -> Places]
      /\ \A g \in Holders : g # h => cpc'[g] = cpc[g]
      /\ \A g \in Holders : cpc'[g] = "idle" <=> cpc[g] = "idle"
  BY <1>1 DEF ItemsInv, TypeInv
<1>3. TypeInv'
  BY <1>1, <1>2 DEF ItemsInv, TypeInv, Repoints
<1>4. ASSUME NEW a \in Holders, cpc[a] = "idle"
      PROVE  Leaves(a)
  <2>1. a # h
    BY <1>1, <1>4
  <2>2. CASE UNCHANGED <<heap, items>>
    BY <2>2 DEF Leaves
  <2>3. CASE \E c : Repoints(h, m, c)
    BY <1>1, <2>1, <2>3, RepointsKeeps DEF Leaves, ItemsInv
  <2> QED BY <1>1, <2>2, <2>3
<1>5. ASSUME NEW g \in Holders, cpc[g] # "idle"
      PROVE  Source(g)' = Source(g)
  <2>1. CASE dropping[g]
    BY <1>1, <2>1 DEF Source
  <2>2. CASE ~dropping[g]
    <3>1. Source(g) = items[SourceOf(g)] /\ Source(g)' = items'[SourceOf(g)]
      BY <1>1, <2>2 DEF Source
    <3>2. cpc[SourceOf(g)] = "idle"
      BY <1>5, <2>2, SourceIdle DEF ItemsInv
    <3> QED BY <1>1, <3>1, <3>2, SourceFacts DEF ItemsInv
  <2> QED BY <2>1, <2>2
<1>6. ASSUME NEW g \in Holders
      PROVE  Value(g)' = Value(g)
  BY <1>1, <1>2, <1>5 DEF Value
<1>7. ASSUME NEW g \in Holders
      PROVE  Intact(heap', Value(g)') /\ View(g)' = View(g)
  <2>1. \/ Value(g) = NoItems
        \/ \E a \in Holders : Value(g) = items[a] /\ Leaves(a)
    BY <1>4, Anchor DEF ItemsInv
  <2> QED BY <1>6, <2>1, LeavesView DEF ItemsInv, IntactInv
<1>8. ASSUME NEW g \in Holders PROVE CopyInv(g)'
  <2>1. CASE g = h
    BY <1>1, <1>5, <2>1, AssigningCopyInv DEF ItemsInv
  <2>2. CASE g # h
    BY <1>1, <1>2, <1>5, <2>2 DEF ItemsInv, CopyInv
  <2> QED BY <2>1, <2>2
<1>9. LockInv'
  BY <1>1, <1>2 DEF ItemsInv, LockInv, Reading, Holders
<1>10. M' = M /\ Leaves("mItems")
  BY <1>1, <1>4 DEF M, ItemsInv, LockInv, Holders
<1>11. PushInv'
  BY <1>1, <1>10 DEF ItemsInv, PushInv, Leaves, M, Members
<1>12. SizeInv'
  BY <1>1, <1>10 DEF ItemsInv, SizeInv
<1>13. KindInv'
  <2>1. CASE UNCHANGED <<heap, items>>
    BY <2>1 DEF ItemsInv, KindInv
  <2>2. CASE \E c \in {Null, Source(h)[m]} : Repoints(h, m, c)
    <3>1. PICK c \in {Null, Source(h)[m]} : Repoints(h, m, c)
      BY <2>2
    <3>2. c = Null \/ c = items[SourceOf(h)][m]
      BY SourceFacts DEF ItemsInv, NoItems, Members
    <3>3. \A g \in Holders, k \in Members :
            items'[g][k] = IF g = h /\ k = m THEN c ELSE items[g][k]
      BY <3>1 DEF Repoints, Redirected
    <3> QED BY <3>2, <3>3, SourceFacts DEF ItemsInv, KindInv, Members
  <2> QED BY <1>1, <2>1, <2>2
<1>14. RefsExact'
  <2>1. CASE UNCHANGED <<heap, items>>
    BY <2>1 DEF ItemsInv, RefsExact
  <2>2. CASE \E c : Repoints(h, m, c)
    BY <2>2, RepointsExact DEF ItemsInv
  <2> QED BY <1>1, <2>1, <2>2
<1>15. IntactInv'
  BY <1>7 DEF IntactInv
<1> QED
  BY <1>3, <1>7, <1>8, <1>9, <1>11, <1>12, <1>13, <1>14, <1>15 DEF ItemsInv

LEMMA CopySizesStep ==
  ASSUME ItemsInv, NEW h \in Holders \ {"mItems"}, CopySizes(h)
  PROVE  ItemsInv' /\ \A g \in Holders : View(g)' = View(g)
<1>1. /\ cpc[h] = "sizes" /\ heap' = heap /\ UNCHANGED <<mpc, pushed>>
      /\ cpc' = [cpc EXCEPT ![h] = "idle"]
      /\ dropping' = [dropping EXCEPT ![h] = FALSE]
  BY DEF CopySizes
<1>2. /\ cpc' \in [Holders -> Places] /\ cpc'[h] = "idle"
      /\ \A g \in Holders : g # h => cpc'[g] = cpc[g]
      /\ dropping' \in [Holders -> BOOLEAN] /\ dropping'[h] = FALSE
      /\ \A g \in Holders : g # h => dropping'[g] = dropping[g]
  BY <1>1 DEF ItemsInv, TypeInv, Places
<1>3. /\ items' = [items EXCEPT ![h] = Source(h)]
      /\ Source(h).strs = items[h].strs /\ Source(h).offsets = items[h].offsets
  <2>1. Source(h).strs = items[h].strs /\ Source(h).offsets = items[h].offsets
    BY <1>1 DEF ItemsInv, CopyInv
  <2>2. [Source(h) EXCEPT !.strs = items[h].strs, !.offsets = items[h].offsets]
          = Source(h)
    BY <2>1, SourceFacts DEF ItemsInv, List
  <2> QED BY <2>1, <2>2 DEF CopySizes
<1>4. /\ items' \in [Holders -> List] /\ items'[h] = Source(h)
      /\ \A g \in Holders : g # h => items'[g] = items[g]
  BY <1>3, SourceFacts DEF ItemsInv, TypeInv
<1>5. \A g \in Holders, k \in Members : items'[g][k] = items[g][k]
  BY <1>3, <1>4 DEF Members
<1>6. TypeInv'
  BY <1>1, <1>2, <1>4 DEF ItemsInv, TypeInv
<1>7. ASSUME NEW g \in Holders, cpc[g] # "idle", g # h
      PROVE  Source(g)' = Source(g)
  <2>1. ~dropping[g] => SourceOf(g) \in Holders /\ SourceOf(g) # h
    BY <1>1, <1>7, SourceFacts, SourceIdle DEF ItemsInv
  <2> QED BY <1>2, <1>4, <1>7, <2>1 DEF Source
<1>8. ASSUME NEW g \in Holders
      PROVE  Value(g)' = Value(g)
  BY <1>1, <1>2, <1>4, <1>7 DEF Value
<1>9. \A g \in Holders : View(g)' = View(g)
  BY <1>1, <1>8, ViewIsViewIn
<1>10. \A g \in Holders : CopyInv(g)'
  BY <1>2, <1>4, <1>7 DEF ItemsInv, CopyInv
<1>11. LockInv'
  BY <1>1, <1>2 DEF ItemsInv, LockInv, Reading, Holders
<1>12. M' = M /\ M.strsSize \in Nat /\ M.size \in Nat
  BY <1>4 DEF M, Holders, ItemsInv, TypeInv, List
<1>13. PushInv'
  BY <1>1, <1>12 DEF ItemsInv, PushInv
<1>14. SizeInv'
  BY <1>4, <1>12, SourceFacts DEF ItemsInv, SizeInv, NoItems
<1>15. KindInv'
  BY <1>5 DEF ItemsInv, KindInv, Members
<1>16. RefsExact'
  <2>1. ASSUME NEW b \in Blocks PROVE Pointers(items', b) = Pointers(items, b)
    BY <1>5 DEF Pointers, Slots
  <2> QED BY <1>1, <2>1 DEF ItemsInv, RefsExact, Pointers, Slots
<1>17. IntactInv'
  BY <1>1, <1>8 DEF ItemsInv, IntactInv
<1> QED
  BY <1>6, <1>9, <1>10, <1>11, <1>13, <1>14, <1>15, <1>16, <1>17 DEF ItemsInv

(* A copy that begins is the copy already, and a list that is about to be  *)
(* dropped is empty already.                                               *)
Beginning(h) ==
  \/ Commit /\ h = "mJob"
  \/ h \in Workers /\ (LoadJob(h) \/ Exit(h))

LEMMA BeginningStep ==
  ASSUME ItemsInv, NEW h \in Holders, Beginning(h)
  PROVE  /\ ItemsInv'
         /\ \A g \in Holders : g # h => View(g)' = View(g)
         /\ ~Exit(h) => View(h)' = View(SourceOf(h))
         /\ Exit(h) => View(h)' = <<>>
<1>1. /\ cpc[h] = "idle" /\ h # "mItems" /\ ~dropping[h]
      /\ UNCHANGED <<heap, items, mpc, pushed>>
      /\ cpc' = [cpc EXCEPT ![h] = "strs"]
  BY ItemsAssumption
     DEF Beginning, Commit, LoadJob, Exit, Begin, ItemsInv, CopyInv
<1>2. /\ cpc' \in [Holders -> Places] /\ cpc'[h] = "strs"
      /\ \A g \in Holders : g # h => cpc'[g] = cpc[g]
  BY <1>1 DEF ItemsInv, TypeInv, Places
<1>3. /\ dropping' \in [Holders -> BOOLEAN]
      /\ \A g \in Holders : g # h => dropping'[g] = dropping[g]
      /\ dropping'[h] <=> Exit(h)
      /\ Exit(h) => h \in Workers
  BY <1>1, ItemsAssumption
     DEF Beginning, Commit, LoadJob, Exit, ItemsInv, TypeInv, NoItems
<1>4. TypeInv'
  BY <1>1, <1>2, <1>3 DEF ItemsInv, TypeInv
<1>5. \A g \in Holders : CopyInv(g)'
  BY <1>1, <1>2, <1>3 DEF ItemsInv, CopyInv, Source
<1>6. LockInv'
  BY <1>1, <1>2, <1>3, ItemsAssumption
     DEF ItemsInv, LockInv, Reading, Holders, Beginning, Commit, LoadJob, Exit
<1>7. PushInv' /\ SizeInv' /\ KindInv' /\ RefsExact'
  BY <1>1 DEF ItemsInv, PushInv, SizeInv, KindInv, RefsExact, M
<1>8. ASSUME NEW g \in Holders, g # h
      PROVE  Value(g)' = Value(g)
  BY <1>1, <1>2, <1>3, <1>8 DEF Value, Source
<1>9. ~Exit(h) => Value(h)' = Value(SourceOf(h))
  <2>1. ~Exit(h) => cpc[SourceOf(h)] = "idle"
    BY <1>1 DEF Beginning, Commit, LoadJob, SourceOf, ItemsInv, LockInv
  <2> QED BY <1>1, <1>2, <1>3, <2>1 DEF Value, Source
<1>10. Exit(h) => Value(h)' = NoItems
  BY <1>2, <1>3 DEF Value, Source
<1>11. IntactInv'
  BY <1>1, <1>8, <1>9, <1>10, SourceFacts, NoItemsIntact DEF ItemsInv, IntactInv
<1>12. /\ \A g \in Holders : g # h => View(g)' = View(g)
       /\ ~Exit(h) => View(h)' = View(SourceOf(h))
  BY <1>1, <1>8, <1>9, ViewIsViewIn, SourceFacts DEF ItemsInv
<1>13. ViewIn(heap', NoItems) = <<>>
  BY DEF ViewIn, NoItems
<1> QED
  BY <1>4, <1>5, <1>6, <1>7, <1>10, <1>11, <1>12, <1>13, ViewIsViewIn
     DEF ItemsInv
-----------------------------------------------------------------------------
(* The steps of a push                                                     *)

LEMMA TextFacts ==
  ASSUME NEW s \in Texts
  PROVE  /\ Len(s) \in Nat \ {0}
         /\ s = [k \in 1..Len(s) |-> s[k]]
BY ItemsAssumption, EmptySeq, LenProperties, SeqDef

(* The main thread's list moves its strings or its offsets to a block that *)
(* has room for what is in them.                                           *)
Moving(m, n) ==
  IF m = "strs" THEN Move("strs", M.strsSize, "strsCap", n) /\ M.strsSize <= n
  ELSE Move("offsets", M.size, "cap", n) /\ M.size <= n

LEMMA MovingStep ==
  ASSUME ItemsInv, NEW m \in Members, NEW n \in Nat, Moving(m, n),
         cpc["mJob"] = "idle", UNCHANGED <<cpc, dropping>>
  PROVE  /\ Mem(heap') /\ items' \in [Holders -> List]
         /\ \A g \in Holders : CopyInv(g)' /\ View(g)' = View(g)
         /\ SizeInv' /\ KindInv' /\ RefsExact' /\ IntactInv'
         /\ M'.strsSize = M.strsSize /\ M'.size = M.size
         /\ M'[m] # Null /\ DOMAIN heap'[M'[m]].data = 1..n
         /\ m = "strs" => /\ M'.strsCap = n /\ M'.cap = M.cap
                          /\ M.offsets # Null =>
                               /\ M'.offsets = M.offsets
                               /\ heap'[M.offsets].data = heap[M.offsets].data
         /\ m = "offsets" => /\ M'.cap = n /\ M'.strsCap = M.strsCap
                             /\ M.strs # Null =>
                                  /\ M'.strs = M.strs
                                  /\ heap'[M.strs].data = heap[M.strs].data
<1> DEFINE used == IF m = "strs" THEN M.strsSize ELSE M.size
           capacity == IF m = "strs" THEN "strsCap" ELSE "cap"
<1>1. /\ M \in List /\ "mItems" \in Holders /\ cpc["mItems"] = "idle"
      /\ used \in Nat /\ used <= n /\ capacity \in {"strsCap", "cap"}
      /\ Move(m, used, capacity, n)
  BY DEF M, Holders, ItemsInv, TypeInv, LockInv, List, Moving, Members
<1>2. PICK new \in Blocks :
        /\ heap[new].refs = 0
        /\ Repoints("mItems", m, new)
        /\ items' \in [Holders -> List]
        /\ \A g \in Holders : g # "mItems" => items'[g] = items[g]
        /\ M' = [M EXCEPT ![m] = new, ![capacity] = n]
        /\ DOMAIN heap'[new].data = 1..n
        /\ \A k \in 1..used : heap'[new].data[k] = heap[M[m]].data[k]
  <2> HIDE DEF used, capacity
  <2> QED BY <1>1, MoveFacts DEF ItemsInv
<1>3. /\ M'[m] = new /\ M'.strsSize = M.strsSize /\ M'.size = M.size
      /\ m = "strs" => M'.strsCap = n /\ M'.cap = M.cap
      /\ m = "offsets" => M'.cap = n /\ M'.strsCap = M.strsCap
      /\ M' = items'["mItems"]
  BY <1>1, <1>2 DEF List, Members, M
<1>4. ASSUME NEW k \in Members, k # m, M[k] # Null
      PROVE  M'[k] = M[k] /\ heap'[M[k]].data = heap[M[k]].data
  <2>1. items["mItems"][k] # Null /\ <<"mItems", k>> # <<"mItems", m>>
    BY <1>4 DEF M
  <2>2. /\ items'["mItems"][k] = items["mItems"][k]
        /\ heap'[items["mItems"][k]].data = heap[items["mItems"][k]].data
    BY <1>1, <1>2, <2>1, RepointsKeeps DEF ItemsInv
  <2> QED BY <2>2 DEF M
<1>5. ASSUME NEW a \in Holders, a # "mItems"
      PROVE  Leaves(a)
  BY <1>1, <1>2, <1>5, RepointsKeeps DEF ItemsInv, Leaves
<1>6. ASSUME NEW g \in Holders, cpc[g] # "idle"
      PROVE  Source(g)' = Source(g)
  BY <1>2, <1>6, SourceIdle, SourceFacts DEF ItemsInv, Source
<1>7. ASSUME NEW g \in Holders, g # "mItems"
      PROVE  Value(g)' = Value(g)
  BY <1>2, <1>6, <1>7 DEF Value
<1>8. ASSUME NEW g \in Holders, g # "mItems"
      PROVE  Intact(heap', Value(g)') /\ View(g)' = View(g)
  <2>1. \/ Value(g) = NoItems
        \/ \E a \in Holders : Value(g) = items[a] /\ Leaves(a)
    BY <1>5, <1>8, Anchor DEF ItemsInv
  <2> QED BY <1>7, <1>8, <2>1, LeavesView DEF ItemsInv, IntactInv
<1>9. Intact(heap', M') /\ View("mItems")' = View("mItems")
  <2>1. Intact(heap, M) /\ Value("mItems") = M /\ Value("mItems")' = M'
    BY <1>1, <1>3 DEF ItemsInv, IntactInv, Value, M
  <2>2. SameStrings(heap, M, heap', M')
    <3> SUFFICES ASSUME M.size # 0
                 PROVE  /\ M'.strs # Null /\ M'.offsets # Null
                        /\ \A k \in 1..M.strsSize :
                             /\ k \in DOMAIN heap'[M'.strs].data
                             /\ heap'[M'.strs].data[k] = heap[M.strs].data[k]
                        /\ \A k \in 1..M.size :
                             /\ k \in DOMAIN heap'[M'.offsets].data
                             /\ heap'[M'.offsets].data[k] =
                                  heap[M.offsets].data[k]
      BY <1>3 DEF SameStrings
    <3>1. /\ M.strs # Null /\ M.offsets # Null
          /\ \A k \in 1..M.strsSize : k \in DOMAIN heap[M.strs].data
          /\ \A k \in 1..M.size : k \in DOMAIN heap[M.offsets].data
      BY <2>1 DEF Intact
    <3>2. \A k \in 1..used : k \in 1..n
      BY <1>1
    <3>3. new # Null
      BY <1>2, NullIsNoBlock
    <3>4. CASE m = "strs"
      <4>1. used = M.strsSize /\ M'.strs = new
        BY <1>3, <3>4
      <4>2. /\ M'.offsets = M.offsets
            /\ heap'[M.offsets].data = heap[M.offsets].data
        BY <1>4, <3>1, <3>4 DEF Members
      <4>3. \A k \in 1..M.strsSize :
              /\ k \in DOMAIN heap'[new].data
              /\ heap'[new].data[k] = heap[M.strs].data[k]
        BY <1>2, <3>2, <3>4, <4>1
      <4> HIDE DEF used, capacity
      <4> QED BY <3>1, <3>3, <4>1, <4>2, <4>3, Zenon
    <3>5. CASE m = "offsets"
      <4>1. used = M.size /\ M'.offsets = new
        BY <1>3, <3>5
      <4>2. M'.strs = M.strs /\ heap'[M.strs].data = heap[M.strs].data
        BY <1>4, <3>1, <3>5 DEF Members
      <4>3. \A k \in 1..M.size :
              /\ k \in DOMAIN heap'[new].data
              /\ heap'[new].data[k] = heap[M.offsets].data[k]
        BY <1>2, <3>2, <3>5, <4>1
      <4> HIDE DEF used, capacity
      <4> QED BY <3>1, <3>3, <4>1, <4>2, <4>3, Zenon
    <3> QED BY <3>4, <3>5 DEF Members
  <2>3. M' \in List
    <3>1. items' \in [Holders -> List] /\ M' = items'["mItems"]
      BY <1>2, <1>3
    <3> QED BY <1>1, <3>1, Zenon
  <2> QED BY <1>1, <2>1, <2>2, <2>3, SameView, ViewIsViewIn
<1>10. \A g \in Holders : CopyInv(g)'
  BY <1>1, <1>2, <1>6 DEF ItemsInv, CopyInv
<1>11. SizeInv'
  BY <1>2, <1>3 DEF ItemsInv, SizeInv, M
<1>12. KindInv'
  <2>1. \A g \in Holders, k \in Members :
          /\ items'[g][k] = IF g = "mItems" /\ k = m THEN new ELSE items[g][k]
          /\ items[g][k] # new
    BY <1>2, Counted, NullIsNoBlock
       DEF Repoints, Redirected, ItemsInv, TypeInv
  <2> QED BY <2>1 DEF ItemsInv, KindInv, Members
<1>13. RefsExact'
  BY <1>1, <1>2, RepointsExact DEF ItemsInv
<1>14. IntactInv'
  BY <1>1, <1>3, <1>8, <1>9 DEF IntactInv, Value
<1>15. Mem(heap') /\ M'[m] # Null
  BY <1>2, <1>3, NullIsNoBlock DEF Repoints
<1>16. \A g \in Holders : View(g)' = View(g)
  BY <1>8, <1>9
<1> QED
  BY <1>2, <1>3, <1>4, <1>10, <1>11, <1>12, <1>13, <1>14, <1>15, <1>16
     DEF Members

LEMMA GrowStep ==
  ASSUME ItemsInv,
         (\E s \in Texts : GrowStrs(s)) \/ GrowOffsets \/ BadAlloc
  PROVE  ItemsInv' /\ \A g \in Holders : View(g)' = View(g)
<1>1. /\ M \in List /\ "mItems" \in Holders
      /\ InitialCap \in Nat \ {0} /\ mpc \in {"idle", "offsets", "write"}
  BY ItemsAssumption DEF M, Holders, ItemsInv, TypeInv
<1>2. /\ UNCHANGED <<cpc, dropping>> /\ cpc["mJob"] = "idle"
      /\ mpc' \in {"idle", "offsets", "write"}
  BY DEF GrowStrs, GrowOffsets, BadAlloc, MayPush, Leave, ItemsInv, LockInv
<1>3. LockInv'
  BY <1>2 DEF ItemsInv, LockInv, Reading
<1>4. ASSUME UNCHANGED <<heap, items>>
      PROVE  /\ TypeInv' /\ \A h \in Holders : CopyInv(h)' /\ View(h)' = View(h)
             /\ SizeInv' /\ KindInv' /\ RefsExact' /\ IntactInv'
             /\ M' = M
  <2>1. \A h \in Holders : Value(h)' = Value(h) /\ View(h)' = View(h)
    BY <1>2, <1>4, ViewIsViewIn DEF Value, Source
  <2> QED
    BY <1>2, <1>4, <2>1 DEF ItemsInv, TypeInv, CopyInv, Source, SizeInv,
       KindInv, RefsExact, IntactInv, M
<1>5. CASE \E s \in Texts : GrowStrs(s)
  <2>1. PICK s \in Texts : GrowStrs(s)
    BY <1>5
  <2>2. mpc' = "offsets" /\ pushed' = s /\ mpc = "idle"
    BY <2>1 DEF GrowStrs, MayPush
  <2> DEFINE need == M.strsSize + Len(s)
  <2>3. need \in Nat /\ M.strsSize <= need
    BY <1>1, TextFacts DEF List
  <2>4. CASE need <= M.strsCap /\ UNCHANGED <<heap, items>>
    <3>1. PushInv'
      BY <1>4, <2>2, <2>4 DEF ItemsInv, PushInv
    <3> QED BY <1>3, <1>4, <2>4, <3>1 DEF ItemsInv
  <2>5. CASE \E n \in RoundPow2(need) : Move("strs", M.strsSize, "strsCap", n)
    <3>1. PICK n \in RoundPow2(need) : Move("strs", M.strsSize, "strsCap", n)
      BY <2>5
    <3>2. n \in Nat /\ need <= n /\ M.strsSize <= n
      BY <1>1, <2>3 DEF RoundPow2, List
    <3>3. Moving("strs", n)
      BY <3>1, <3>2 DEF Moving
    <3>4. /\ Mem(heap') /\ items' \in [Holders -> List]
          /\ \A g \in Holders : CopyInv(g)' /\ View(g)' = View(g)
          /\ SizeInv' /\ KindInv' /\ RefsExact' /\ IntactInv'
          /\ M'.strsSize = M.strsSize /\ M'.size = M.size
          /\ M'.strs # Null /\ DOMAIN heap'[M'.strs].data = 1..n
          /\ M'.strsCap = n /\ M'.cap = M.cap
          /\ M.offsets # Null => /\ M'.offsets = M.offsets
                                 /\ heap'[M.offsets].data = heap[M.offsets].data
      BY <1>2, <3>2, <3>3, MovingStep DEF Members
    <3>5. PushInv'
      BY <1>1, <2>2, <3>2, <3>4 DEF ItemsInv, PushInv, List
    <3>6. TypeInv'
      BY <1>2, <3>4 DEF ItemsInv, TypeInv
    <3> QED BY <1>3, <3>4, <3>5, <3>6 DEF ItemsInv
  <2> QED BY <2>1, <2>4, <2>5 DEF GrowStrs
<1>6. CASE GrowOffsets
  <2> DEFINE n == IF M.cap = 0 THEN InitialCap ELSE M.cap * 2
  <2>1. mpc' = "write" /\ pushed' = pushed /\ mpc = "offsets"
    BY <1>6 DEF GrowOffsets
  <2>2. CASE M.size + 1 <= M.cap /\ UNCHANGED <<heap, items>>
    <3>1. PushInv'
      BY <1>4, <2>1, <2>2 DEF ItemsInv, PushInv
    <3> QED BY <1>3, <1>4, <2>2, <3>1 DEF ItemsInv
  <2>3. CASE M.size + 1 > M.cap /\ Move("offsets", M.size, "cap", n)
    <3>1. n \in Nat /\ M.size + 1 <= n /\ M.size <= n
      BY <1>1, <2>3 DEF ItemsInv, PushInv, List
    <3>2. Moving("offsets", n)
      BY <2>3, <3>1 DEF Moving
    <3> HIDE DEF n
    <3>3. /\ Mem(heap') /\ items' \in [Holders -> List]
          /\ \A g \in Holders : CopyInv(g)' /\ View(g)' = View(g)
          /\ SizeInv' /\ KindInv' /\ RefsExact' /\ IntactInv'
          /\ M'.strsSize = M.strsSize /\ M'.size = M.size
          /\ M'.offsets # Null /\ DOMAIN heap'[M'.offsets].data = 1..n
          /\ M'.cap = n /\ M'.strsCap = M.strsCap
          /\ M.strs # Null => /\ M'.strs = M.strs
                              /\ heap'[M.strs].data = heap[M.strs].data
      BY <1>2, <3>1, <3>2, MovingStep DEF Members
    <3>4. PushInv'
      BY <1>1, <2>1, <3>1, <3>3 DEF ItemsInv, PushInv, List
    <3>5. TypeInv'
      BY <1>2, <3>3 DEF ItemsInv, TypeInv
    <3> QED BY <1>3, <3>3, <3>4, <3>5 DEF ItemsInv
  <2> QED BY <1>6, <2>2, <2>3 DEF GrowOffsets
<1>7. CASE BadAlloc
  <2>1. UNCHANGED <<heap, items>> /\ mpc' = "idle"
    BY <1>7 DEF BadAlloc, Leave
  <2>2. PushInv'
    BY <1>4, <2>1 DEF ItemsInv, PushInv
  <2> QED BY <1>3, <1>4, <2>1, <2>2 DEF ItemsInv
<1> QED BY <1>5, <1>6, <1>7

(* What Write changes is beyond what any list reaches. *)
LEMMA WriteStep ==
  ASSUME ItemsInv, Write
  PROVE  /\ ItemsInv' /\ pushed \in Texts
         /\ View("mItems")' = Append(View("mItems"), pushed)
         /\ \A g \in Holders : g # "mItems" => View(g)' = View(g)
<1> DEFINE len == Len(pushed)
           grown == M.strsSize + len
           offset == [from |-> M.strsSize, size |-> len]
           filled == [k \in DOMAIN heap[M.strs].data |->
                        IF k \in M.strsSize + 1..grown
                        THEN pushed[k - M.strsSize] ELSE heap[M.strs].data[k]]
           placed == [heap[M.offsets].data EXCEPT ![M.size + 1] = offset]
<1>1. /\ M \in List /\ "mItems" \in Holders /\ mpc = "write"
      /\ pushed \in Texts /\ grown <= M.strsCap /\ M.size + 1 <= M.cap
  BY DEF M, Holders, ItemsInv, TypeInv, PushInv, Write
<1>2. /\ len \in Nat \ {0} /\ pushed = [k \in 1..len |-> pushed[k]]
      /\ M.strsSize \in Nat /\ M.size \in Nat /\ grown \in Nat
      /\ M.strsCap \in Nat \ {0} /\ M.cap \in Nat \ {0}
  BY <1>1, TextFacts DEF List
<1>3. /\ M.strs \in Blocks /\ DOMAIN heap[M.strs].data = 1..M.strsCap
      /\ M.offsets \in Blocks /\ DOMAIN heap[M.offsets].data = 1..M.cap
      /\ M.strs # M.offsets
  BY <1>1, <1>2 DEF ItemsInv, PushInv, KindInv, List, M
<1>4. /\ heap' = [heap EXCEPT ![M.strs].data = filled,
                              ![M.offsets].data[M.size + 1] = offset]
      /\ items' = [items EXCEPT !["mItems"].strsSize = grown,
                                !["mItems"].size = @ + 1]
      /\ mpc' = "idle" /\ UNCHANGED <<cpc, dropping>>
  BY DEF Write, Leave
<1>5. /\ Mem(heap')
      /\ \A b \in Blocks :
           /\ heap'[b].refs = heap[b].refs
           /\ b # M.strs /\ b # M.offsets => heap'[b] = heap[b]
      /\ heap'[M.strs].data = filled /\ heap'[M.offsets].data = placed
  <2> HIDE DEF filled, offset
  <2> QED BY <1>3, <1>4 DEF ItemsInv, TypeInv, Mem
<1>6. /\ DOMAIN heap'[M.strs].data = 1..M.strsCap
      /\ \A k \in 1..M.strsSize : heap'[M.strs].data[k] = heap[M.strs].data[k]
      /\ \A k \in 1..len : heap'[M.strs].data[M.strsSize + k] = pushed[k]
  <2>1. \A k \in 1..M.strsCap :
          heap'[M.strs].data[k] = IF k \in M.strsSize + 1..grown
                                  THEN pushed[k - M.strsSize]
                                  ELSE heap[M.strs].data[k]
    BY <1>3, <1>5
  <2>2. \A k \in 1..M.strsSize : k \in 1..M.strsCap /\ k \notin M.strsSize + 1..grown
    BY <1>1, <1>2
  <2>3. \A k \in 1..len : /\ M.strsSize + k \in 1..M.strsCap
                          /\ M.strsSize + k \in M.strsSize + 1..grown
                          /\ (M.strsSize + k) - M.strsSize = k
    BY <1>1, <1>2
  <2> QED BY <1>3, <1>5, <2>1, <2>2, <2>3
<1>7. /\ DOMAIN heap'[M.offsets].data = 1..M.cap
      /\ \A k \in 1..M.size : heap'[M.offsets].data[k] = heap[M.offsets].data[k]
      /\ heap'[M.offsets].data[M.size + 1] = offset
  <2> HIDE DEF offset
  <2>1. M.size + 1 \in 1..M.cap /\ \A k \in 1..M.size : k \in 1..M.cap /\ k # M.size + 1
    BY <1>1, <1>2
  <2> QED BY <1>3, <1>5, <2>1
<1> HIDE DEF filled, placed
<1>8. /\ items' \in [Holders -> List]
      /\ \A g \in Holders : g # "mItems" => items'[g] = items[g]
      /\ \A g \in Holders, k \in Members : items'[g][k] = items[g][k]
  <2> HIDE DEF grown
  <2>1. /\ items' \in [Holders -> List]
        /\ \A g \in Holders : g # "mItems" => items'[g] = items[g]
    <3> DEFINE i == items["mItems"]
               j == [[i EXCEPT !.strsSize = grown] EXCEPT !.size = @ + 1]
    <3>1. items \in [Holders -> List] /\ i \in List /\ grown \in Nat
      BY <1>1, <1>2 DEF ItemsInv, TypeInv
    <3>2. j \in List
      <4>1. i.size \in Nat /\ i.size + 1 \in Nat
        BY <3>1 DEF List
      <4> HIDE DEF i
      <4>2. j = [[i EXCEPT !.strsSize = grown] EXCEPT !.size = i.size + 1]
        BY <3>1 DEF List
      <4> QED BY <3>1, <4>1, <4>2 DEF List
    <3>3. /\ items' = [g \in Holders |-> items'[g]]
          /\ \A g \in Holders : g # "mItems" => items'[g] = items[g]
      BY <1>4, <3>1
    <3>4. items'["mItems"] = j
      BY <1>1, <1>4, <3>1
    <3> HIDE DEF i, j
    <3> QED BY <3>1, <3>2, <3>3, <3>4
  <2>2. /\ items'["mItems"].strs = items["mItems"].strs
        /\ items'["mItems"].offsets = items["mItems"].offsets
    BY <1>1, <1>2, <1>4 DEF M, ItemsInv, TypeInv, List
  <2> QED BY <2>1, <2>2 DEF Members
<1>9. /\ M'.strs = M.strs /\ M'.offsets = M.offsets
      /\ M'.strsSize = grown /\ M'.size = M.size + 1
      /\ M'.strsCap = M.strsCap /\ M'.cap = M.cap
      /\ M' = items'["mItems"] /\ M' \in List
  <2> HIDE DEF grown
  <2> QED BY <1>1, <1>2, <1>4, <1>8 DEF M, ItemsInv, TypeInv, List
<1>10. ASSUME NEW a \in Holders, Intact(heap, items[a])
       PROVE  SameStrings(heap, items[a], heap', items[a])
  <2> DEFINE i == items[a]
  <2>1. /\ i \in List /\ i.strsSize <= M.strsSize /\ i.size <= M.size
        /\ i.strsSize \in Nat /\ i.size \in Nat
    BY DEF ItemsInv, TypeInv, SizeInv, List
  <2> SUFFICES ASSUME i.size # 0
               PROVE  /\ \A k \in 1..i.strsSize :
                           /\ k \in DOMAIN heap'[i.strs].data
                           /\ heap'[i.strs].data[k] = heap[i.strs].data[k]
                      /\ \A n \in 1..i.size :
                           /\ n \in DOMAIN heap'[i.offsets].data
                           /\ heap'[i.offsets].data[n] = heap[i.offsets].data[n]
    BY <1>10 DEF Intact, SameStrings
  <2>2. /\ i.strs \in Blocks /\ i.offsets \in Blocks
        /\ \A k \in 1..i.strsSize : k \in DOMAIN heap[i.strs].data
        /\ \A n \in 1..i.size : n \in DOMAIN heap[i.offsets].data
    BY <1>10, <2>1 DEF Intact, List
  <2>3. i.strs # M.offsets /\ i.offsets # M.strs
    <3>1. \A g, h \in Holders :
            items[g].strs = items[h].offsets => items[g].strs = Null
      BY DEF ItemsInv, KindInv
    <3>2. i.strs # Null /\ M.strs # Null
      BY <1>3, <2>2, NullIsNoBlock
    <3> QED BY <1>1, <3>1, <3>2, Zenon DEF M
  <2>4. /\ \A k \in 1..i.strsSize : k \in 1..M.strsSize
        /\ \A n \in 1..i.size : n \in 1..M.size
    <3>1. \A p, q \in Nat : p <= q => \A k \in 1..p : k \in 1..q
      OBVIOUS
    <3> QED BY <1>2, <2>1, <3>1, Zenon
  <2>5. \A k \in 1..i.strsSize :
          /\ k \in DOMAIN heap'[i.strs].data
          /\ heap'[i.strs].data[k] = heap[i.strs].data[k]
    BY <1>3, <1>5, <1>6, <2>2, <2>3, <2>4
  <2>6. \A n \in 1..i.size :
          /\ n \in DOMAIN heap'[i.offsets].data
          /\ heap'[i.offsets].data[n] = heap[i.offsets].data[n]
    BY <1>3, <1>5, <1>7, <2>2, <2>3, <2>4
  <2> QED BY <2>5, <2>6
<1>11. \A g \in Holders : cpc[g] # "idle" => Source(g)' = Source(g)
  <2> SUFFICES ASSUME NEW g \in Holders, cpc[g] # "idle", ~dropping[g]
               PROVE  items'[SourceOf(g)] = items[SourceOf(g)]
    BY <1>4 DEF Source
  <2>1. SourceOf(g) # "mItems"
    BY <1>1, SourceIdle DEF ItemsInv, LockInv
  <2> QED BY <1>8, <2>1, SourceFacts DEF ItemsInv
<1>12. ASSUME NEW g \in Holders, g # "mItems"
       PROVE  Value(g)' = Value(g)
  BY <1>4, <1>8, <1>11, <1>12 DEF Value
<1>13. ASSUME NEW g \in Holders
       PROVE  /\ Value(g) \in List
              /\ Intact(heap', Value(g)) /\ ViewIn(heap', Value(g)) = View(g)
  <2>1. Intact(heap, Value(g)) /\ Value(g) \in List
    BY SourceFacts DEF ItemsInv, IntactInv
  <2>2. SameStrings(heap, Value(g), heap', Value(g))
    <3>1. CASE Value(g) = NoItems
      BY <3>1 DEF SameStrings, NoItems
    <3>2. CASE \E a \in Holders : Value(g) = items[a]
      BY <1>10, <2>1, <3>2
    <3> QED BY <3>1, <3>2, Anchor DEF ItemsInv
  <2> QED BY <2>1, <2>2, SameView, ViewIsViewIn
<1>14. Value("mItems") = M /\ Value("mItems")' = M'
  BY <1>4, <1>8 DEF ItemsInv, LockInv, Value, M
<1>15. Intact(heap', M')
  <2>1. Intact(heap', M)
    BY <1>1, <1>13, <1>14
  <2>2. 1..grown \subseteq 1..M.strsCap
    BY <1>1, <1>2
  <2>3. ASSUME NEW n \in 1..M.size + 1
        PROVE  /\ n \in DOMAIN heap'[M.offsets].data
               /\ heap'[M.offsets].data[n] \in Offset
               /\ LET o == heap'[M.offsets].data[n]
                  IN o.from + o.size <= grown
    <3>1. CASE n = M.size + 1
      BY <1>1, <1>2, <1>7, <3>1 DEF Offset
    <3>2. CASE n # M.size + 1
      <4>1. n \in 1..M.size /\ M.size # 0
        BY <1>2, <3>2
      <4>2. /\ n \in DOMAIN heap'[M.offsets].data
            /\ heap'[M.offsets].data[n] \in Offset
            /\ LET o == heap'[M.offsets].data[n]
               IN o.from + o.size <= M.strsSize
        BY <2>1, <4>1 DEF Intact
      <4> QED BY <1>2, <4>2 DEF Offset
    <3> QED BY <3>1, <3>2
  <2> HIDE DEF grown
  <2> QED BY <1>3, <1>6, <1>9, <2>2, <2>3, NullIsNoBlock DEF Intact
<1>16. View("mItems")' = Append(View("mItems"), pushed)
  <2>1. /\ View("mItems") = ViewIn(heap', M)
        /\ View("mItems")' = ViewIn(heap', M')
    BY <1>1, <1>13, <1>14, ViewIsViewIn
  <2>2. \A n : AtIn(heap', M', n) = AtIn(heap', M, n)
    BY <1>9 DEF AtIn
  <2>3. AtIn(heap', M', M.size + 1) = pushed
    <3>1. M.size + 1 \in 1..M'.size
      BY <1>2, <1>9
    <3>2. AtIn(heap', M', M.size + 1) = Text(heap', M.strs, offset)
      <4>1. heap'[M'.offsets].data[M.size + 1] = offset
        BY <1>7, <1>9
      <4> HIDE DEF offset
      <4>2. AtIn(heap', M', M.size + 1)
              = Text(heap', M'.strs, heap'[M'.offsets].data[M.size + 1])
        BY <1>9, <1>15, <3>1, IntactReads
      <4> QED BY <1>9, <4>1, <4>2
    <3>3. Text(heap', M.strs, offset)
            = [k \in 1..len |-> heap'[M.strs].data[M.strsSize + k]]
      BY DEF Text
    <3> HIDE DEF offset
    <3>4. Text(heap', M.strs, offset) = [k \in 1..len |-> pushed[k]]
      BY <1>6, <3>3
    <3> QED BY <1>2, <3>2, <3>4
  <2>4. ViewIn(heap', M') = [n \in 1..M.size + 1 |-> AtIn(heap', M', n)]
    BY <1>9 DEF ViewIn
  <2>5. Append([n \in 1..M.size |-> AtIn(heap', M', n)], AtIn(heap', M', M.size + 1))
          = [n \in 1..M.size + 1 |-> AtIn(heap', M', n)]
    BY <1>2
  <2>6. ViewIn(heap', M) = [n \in 1..M.size |-> AtIn(heap', M', n)]
    BY <2>2 DEF ViewIn
  <2> QED BY <2>1, <2>3, <2>4, <2>5, <2>6
<1>17. \A g \in Holders : g # "mItems" => View(g)' = View(g)
  BY <1>12, <1>13, ViewIsViewIn
<1>18. TypeInv'
  BY <1>4, <1>5, <1>8 DEF ItemsInv, TypeInv
<1>19. \A g \in Holders : CopyInv(g)'
  BY <1>4, <1>8, <1>11 DEF ItemsInv, CopyInv, Members
<1>20. LockInv' /\ PushInv'
  BY <1>1, <1>2, <1>3, <1>4, <1>6, <1>7, <1>9, NullIsNoBlock
     DEF ItemsInv, LockInv, PushInv, Reading
<1>21. SizeInv'
  <2>1. ASSUME NEW g \in Holders
        PROVE  items'[g].strsSize <= M'.strsSize /\ items'[g].size <= M'.size
    <3>1. CASE g = "mItems"
      BY <1>2, <1>8, <1>9, <3>1
    <3>2. CASE g # "mItems"
      <4>1. /\ items'[g] = items[g]
            /\ items[g].strsSize <= M.strsSize /\ items[g].size <= M.size
            /\ items[g].strsSize \in Nat /\ items[g].size \in Nat
        BY <1>8, <3>2 DEF ItemsInv, SizeInv, TypeInv, List
      <4> QED BY <1>2, <1>9, <4>1
    <3> QED BY <3>1, <3>2
  <2> QED BY <2>1 DEF SizeInv
<1>22. KindInv'
  BY <1>8 DEF ItemsInv, KindInv, Members
<1>23. RefsExact'
  <2>1. ASSUME NEW b \in Blocks PROVE Pointers(items', b) = Pointers(items, b)
    BY <1>8 DEF Pointers, Slots
  <2> QED BY <1>5, <2>1 DEF ItemsInv, RefsExact, Pointers, Slots
<1>24. IntactInv'
  BY <1>12, <1>13, <1>14, <1>15 DEF IntactInv
<1> QED
  BY <1>1, <1>16, <1>17, <1>18, <1>19, <1>20, <1>21, <1>22, <1>23, <1>24
     DEF ItemsInv
-----------------------------------------------------------------------------
(* The theorems                                                            *)

LEMMA ItemsInit == Init => ItemsInv
<1> SUFFICES ASSUME Init PROVE ItemsInv
  OBVIOUS
<1>1. /\ heap = [b \in Blocks |-> Free]
      /\ items = [h \in Holders |-> NoItems]
      /\ mpc = "idle"
      /\ cpc = [h \in Holders |-> "idle"]
      /\ dropping = [h \in Holders |-> FALSE]
      /\ "mItems" \in Holders /\ "mJob" \in Holders
  BY DEF Init, Holders
<1>2. M = NoItems
  BY <1>1 DEF M
<1>3. TypeInv
  BY <1>1, SourceFacts DEF TypeInv, Mem, Free, Places, NoItems, List
<1>4. /\ \A h \in Holders : CopyInv(h)
      /\ LockInv /\ SizeInv /\ KindInv
  BY <1>1, <1>2 DEF CopyInv, LockInv, SizeInv, KindInv, NoItems
<1>5. PushInv
  BY <1>1, <1>2 DEF PushInv, NoItems
<1>6. RefsExact
  <2>1. ASSUME NEW b \in Blocks PROVE Pointers(items, b) = {}
    BY <1>1, NullIsNoBlock DEF Pointers, Slots, Members, NoItems
  <2> QED BY <1>1, <2>1, FS_EmptySet DEF RefsExact, Pointers, Slots, Free
<1>7. IntactInv
  BY <1>1 DEF IntactInv, Value, Intact, NoItems
<1> QED BY <1>3, <1>4, <1>5, <1>6, <1>7 DEF ItemsInv

(* Every step keeps the invariant, and for what everybody reads it is a    *)
(* push of one string, a copy, a drop or nothing.                          *)
Pushes == /\ pushed \in Texts
          /\ View("mItems")' = Append(View("mItems"), pushed)
          /\ \A g \in Holders : g # "mItems" => View(g)' = View(g)
Replaces(h) == /\ h # "mItems"
               /\ View(h)' = View(SourceOf(h)) \/ View(h)' = <<>>
               /\ \A g \in Holders : g # h => View(g)' = View(g)
Stutters == \A g \in Holders : View(g)' = View(g)

LEMMA ItemsNext ==
  ASSUME ItemsInv, [Next]_vars
  PROVE  /\ ItemsInv'
         /\ Pushes \/ Stutters \/ \E h \in Holders : Replaces(h)
<1>1. CASE (\E s \in Texts : GrowStrs(s)) \/ GrowOffsets \/ BadAlloc
  BY <1>1, GrowStep DEF Stutters
<1>2. CASE Write
  BY <1>2, WriteStep DEF Pushes
<1>3. ASSUME NEW h \in Holders, Beginning(h)
      PROVE  ItemsInv' /\ Replaces(h)
  <2>1. h # "mItems"
    BY <1>3, ItemsAssumption DEF Beginning
  <2> QED BY <1>3, <2>1, BeginningStep DEF Replaces
<1>4. CASE Commit \/ \E w \in Workers : LoadJob(w) \/ Exit(w)
  <2>1. \E h \in Holders : Beginning(h)
    BY <1>4 DEF Beginning, Holders
  <2> QED BY <1>3, <2>1
<1>5. CASE \E h \in Holders \ {"mItems"} :
             \E m \in Members : DropOld(h, m) \/ TakeNew(h, m)
  BY <1>5, AssigningStep DEF Assigning, Stutters
<1>6. CASE \E h \in Holders \ {"mItems"} : CopySizes(h)
  BY <1>6, CopySizesStep DEF Stutters
<1>7. CASE UNCHANGED vars
  <2>1. UNCHANGED <<heap, items, mpc, pushed, cpc, dropping>>
    BY <1>7 DEF vars
  <2>2. ItemsInv'
    BY <2>1 DEF ItemsInv, TypeInv, CopyInv, Source, LockInv, Reading, PushInv,
       SizeInv, KindInv, RefsExact, IntactInv, Value, M
  <2>3. \A g \in Holders : Value(g)' = Value(g)
    BY <2>1 DEF Value, Source
  <2> QED BY <2>1, <2>2, <2>3, ViewIsViewIn DEF Stutters
<1> QED BY <1>1, <1>2, <1>4, <1>5, <1>6, <1>7 DEF Next

LEMMA ItemsInvariant == Spec => []ItemsInv
<1>1. ItemsInv /\ [Next]_vars => ItemsInv'
  BY ItemsNext
<1> QED BY <1>1, ItemsInit, PTL DEF Spec

(* RcMem (rc_mem.hpp): whatever the order in which the main thread pushes, *)
(* commits and moves, and the workers copy, drop and read, the count of a  *)
(* block is the number of pointers to it, between any two of the steps     *)
(* that assign one.                                                        *)
THEOREM CountsAreExact == Spec => []RefsExact
<1>1. ItemsInv => RefsExact
  BY DEF ItemsInv
<1> QED BY <1>1, ItemsInvariant, PTL

(* "Only the most up-to-date copy can call" push (items.hpp): the main     *)
(* thread's list is that copy, for no holder of its memory reaches beyond  *)
(* what it has written.                                                    *)
THEOREM NobodyReadsWhatIsWritten == Spec => []NoSharedWrite
<1>1. ItemsInv => NoSharedWrite
  BY DEF ItemsInv, SizeInv, NoSharedWrite
<1> QED BY <1>1, ItemsInvariant, PTL

(* The refinement: at first every list is empty, and every step is one of  *)
(* ItemStore's, or changes no list.                                        *)
LEMMA StoreInit == Init => Store!Init
<1> SUFFICES ASSUME Init PROVE \A h \in Holders : View(h) = <<>>
  BY DEF Store!Init
<1>1. \A h \in Holders : Value(h) = NoItems
  BY DEF Init, Value
<1>2. \A hp : ViewIn(hp, NoItems) = <<>>
  BY DEF ViewIn, NoItems
<1> QED BY <1>1, <1>2, ViewIsViewIn

LEMMA StoreStep ==
  ASSUME ItemsInv, [Next]_vars
  PROVE  [Store!Next]_[h \in Holders |-> View(h)]
<1> DEFINE list == [h \in Holders |-> View(h)]
<1>1. "mItems" \in Holders /\ list' = [h \in Holders |-> View(h)']
  BY DEF Holders
<1>2. CASE Pushes
  <2>1. list' = [list EXCEPT !["mItems"] = Append(View("mItems"), pushed)]
    BY <1>1, <1>2 DEF Pushes
  <2>2. Store!Push(pushed)
    BY <1>1, <2>1 DEF Store!Push
  <2> QED BY <1>2, <2>2 DEF Pushes, Store!Next
<1>3. CASE Stutters
  BY <1>1, <1>3 DEF Stutters
<1>4. ASSUME NEW h \in Holders, Replaces(h)
      PROVE  Store!Next
  <2>1. CASE View(h)' = View(SourceOf(h))
    <3>1. list' = [list EXCEPT ![h] = list[SourceOf(h)]]
      BY <1>1, <1>4, <2>1 DEF Replaces, SourceOf, Holders
    <3>2. Store!Copy(h)
      BY <3>1 DEF Store!Copy
    <3> QED BY <1>4, <3>2 DEF Replaces, Store!Next
  <2>2. CASE View(h)' = <<>>
    <3>1. list' = [list EXCEPT ![h] = <<>>]
      BY <1>1, <1>4, <2>2 DEF Replaces
    <3>2. Store!Drop(h)
      BY <3>1 DEF Store!Drop
    <3> QED BY <1>4, <3>2 DEF Replaces, Store!Next
  <2> QED BY <1>4, <2>1, <2>2 DEF Replaces
<1> QED BY <1>2, <1>3, <1>4, ItemsNext

(* Items (items.hpp) promises values: pushing, moving to larger blocks,    *)
(* running out of memory, and copying and destroying other copies, in any  *)
(* order and under way at once, change no list but the one pushed to,      *)
(* replaced or dropped, and that one as a list of strings would change.    *)
THEOREM ListsAreValues == Spec => ImplementsItemStore
<1>1. Init => Store!Init
  BY StoreInit
<1>2. ItemsInv /\ [Next]_vars => [Store!Next]_[h \in Holders |-> View(h)]
  BY StoreStep
<1> QED BY <1>1, <1>2, ItemsInvariant, PTL DEF Spec, ImplementsItemStore, Store!Spec
=============================================================================
