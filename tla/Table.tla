------------------------------- MODULE Table -------------------------------
(***************************************************************************)
(* The hash table of contrib/csnippets/algo/hashtable.c, in which sessions *)
(* and the contexts of the obfuscator are found.  A table is a record with *)
(* the fields of struct hashtable, a function of the code an operator on   *)
(* it.  Every item of the array p is at the same time the head of a bucket *)
(* (field bucket) and an element of a chain or of the free list (next).    *)
(*                                                                         *)
(* The hash of a key under a seed is any constant function; the hash that  *)
(* the code keeps in an item is always that of the item's key.             *)
(***************************************************************************)
EXTENDS Integers, Sequences, SequencesExt, Null

CONSTANTS
  prime_list,            \* the capacities, an increasing sequence
  COLLISION_THRESHOLD,
  GET_HASH               \* [seed -> [key -> Nat]]

HASHITEM_NIL == -1

Capacities == {prime_list[i] : i \in 1..Len(prime_list)}

ASSUME TableAssumption ==
  /\ Capacities # {} /\ Capacities \subseteq Nat \ {0}
  /\ \A i \in 1..(Len(prime_list) - 1) : prime_list[i] < prime_list[i + 1]
  /\ COLLISION_THRESHOLD \in Nat

Seeds == DOMAIN GET_HASH
Keys == UNION {DOMAIN GET_HASH[s] : s \in Seeds}

ceil_capacity(x) ==
  IF x > Last(prime_list) THEN IF x % 2 = 0 THEN x + 1 ELSE x
  ELSE Min({c \in Capacities : x <= c})

Bucket(t, key) == GET_HASH[t.seed][key] % t.capacity

\* Table t with n items, the new ones empty.
init_items(t, n) ==
  [t EXCEPT !.capacity = n,
            !.p = [i \in 0..(n - 1) |->
                     IF i \in DOMAIN @ THEN @[i]
                     ELSE [bucket |-> HASHITEM_NIL, next |-> HASHITEM_NIL,
                           valid |-> FALSE, key |-> NULL, element |-> NULL]]]

table_new(fast, seed) ==
  init_items([size |-> 0, capacity |-> 0, freelist |-> HASHITEM_NIL, seed |-> seed,
              fast |-> fast, p |-> [i \in {} |-> 0]],
             prime_list[1])

\* set_capacity: the load that makes the table grow.
max_load(t) == IF t.fast THEN (t.capacity \div 4) * 3 ELSE t.capacity

\* The items reached from a reference, in order.
NextItem(t, i) == IF i = HASHITEM_NIL THEN HASHITEM_NIL ELSE t.p[i].next
Longer(t, path) == Append(path, NextItem(t, Last(path)))
Reached(t, start) ==
  LET path[n \in 0..t.capacity] == IF n = 0 THEN <<start>> ELSE Longer(t, path[n - 1])
  IN  SelectSeq(path[t.capacity], LAMBDA i : i # HASHITEM_NIL)
Chain(t, bucket) == Reached(t, t.p[bucket].bucket)

\* How many items of its chain come before the one with this key, if any.
Collisions(t, key) ==
  LET c == Chain(t, Bucket(t, key))
      at == {i \in 1..Len(c) : t.p[c[i]].key = key}
  IN  IF at = {} THEN Len(c) ELSE Min(at) - 1

FindItem(t, key) ==
  LET c == Chain(t, Bucket(t, key))
      n == Collisions(t, key)
  IN  IF n = Len(c) THEN HASHITEM_NIL ELSE c[n + 1]

table_find(t, key) ==
  LET i == FindItem(t, key) IN IF i = HASHITEM_NIL THEN NULL ELSE t.p[i].element

-----------------------------------------------------------------------------
(* Compaction, rehashing and growth *)

\* Valid items move down over the others, and the buckets are emptied.  The
\* item that is moved into a hole does not become valid there.
table_compact(t) ==
  LET v == SelectSeq([i \in 1..t.capacity |-> i - 1], LAMBDA i : t.p[i].valid)
      from(i) == IF i < Len(v) THEN v[i + 1] ELSE i
  IN  [t EXCEPT
        !.freelist = HASHITEM_NIL,
        !.p = [i \in DOMAIN @ |->
          [@[i] EXCEPT !.bucket = HASHITEM_NIL, !.key = t.p[from(i)].key,
                       !.element = t.p[from(i)].element,
                       !.valid = i < Len(v) /\ from(i) = i]]]

\* Items 0..size-1 are put at the head of their chains, one after the other.
table_rehash(t) ==
  LET I == 0..(t.size - 1)
      In(b) == {i \in I : Bucket(t, t.p[i].key) = b}
      LastOf(S) == IF S = {} THEN HASHITEM_NIL ELSE Max(S)
  IN  [t EXCEPT !.p = [i \in DOMAIN @ |->
        [@[i] EXCEPT
          !.bucket = LastOf(In(i)),
          !.next = IF i \in I
                   THEN LastOf({j \in In(Bucket(t, t.p[i].key)) : j < i}) ELSE @]]]

\* ok: realloc succeeds.
table_reserve(t, new_size, ok) ==
  LET least == Max({new_size, t.size})
      n == ceil_capacity(IF t.fast THEN least + new_size \div 3 + 1 ELSE least)
      c == table_compact(t)
  IN  IF n = t.capacity THEN t
      ELSE table_rehash(IF ok THEN init_items(c, n) ELSE c)

table_grow(t, ok) == table_reserve(t, t.size + t.size \div 3 + 1, ok)

table_reseed(t, seed) == table_rehash(table_compact([t EXCEPT !.seed = seed]))

-----------------------------------------------------------------------------
(* Changes *)

\* Whether a new key makes the table grow, and the table then.
Grows(t) == t.freelist = HASHITEM_NIL /\ t.size >= max_load(t)
Room(t, ok) == IF Grows(t) THEN table_grow(t, ok) ELSE t

\* Bug: the free list is used without being shortened.
Placed_SameFree(t, i, b, key, elem) ==
  [t EXCEPT !.size = @ + 1, !.p[i].valid = TRUE, !.p[i].key = key, !.p[i].element = elem,
            !.p[i].next = t.p[b].bucket, !.p[b].bucket = i]

\* Item i is taken for a key of bucket b.
Placed(t, i, b, key, elem) ==
  [t EXCEPT !.freelist = IF @ = HASHITEM_NIL THEN @ ELSE t.p[i].next,
            !.size = @ + 1, !.p[i].valid = TRUE, !.p[i].key = key, !.p[i].element = elem,
            !.p[i].next = t.p[b].bucket, !.p[b].bucket = i]

FreeItem(t) == IF t.freelist # HASHITEM_NIL THEN t.freelist ELSE t.size

\* A new key takes a free item, or the next one of a table that grows when it is
\* loaded; it is refused when there is no memory for that.  full: t had no free
\* item before it was given room.
Insert(t, full, key, elem) ==
  IF full /\ t.size = t.capacity THEN [table |-> t, element |-> elem]
  ELSE [table |-> Placed(t, FreeItem(t), Bucket(t, key), key, elem), element |-> NULL]

Replace(t, i, elem) ==
  [table |-> [t EXCEPT !.p[i].element = elem], element |-> t.p[i].element]

\* Too many collisions on the way: a new seed.
Reseeds(t, key) == Collisions(t, key) > COLLISION_THRESHOLD
Reseeded(r, elem, seed) ==
  IF r.element = elem THEN r ELSE [r EXCEPT !.table = table_reseed(@, seed)]

\* The table, and what *element is afterwards: the element that was replaced,
\* NULL, or the new element itself when there was no memory.
Stored(t, key, elem, ok) ==
  IF FindItem(t, key) = HASHITEM_NIL
  THEN Insert(Room(t, ok), t.freelist = HASHITEM_NIL, key, elem)
  ELSE Replace(t, FindItem(t, key), elem)
table_set(t, key, elem, ok, seed) ==
  IF Reseeds(t, key) THEN Reseeded(Stored(t, key, elem, ok), elem, seed)
  ELSE Stored(t, key, elem, ok)

\* The items in the order in which table_filter meets them.
FilterOrder(t) ==
  LET met[b \in 0..t.capacity] == IF b = 0 THEN <<>> ELSE met[b - 1] \o Chain(t, b - 1)
  IN  met[t.capacity]

\* The items in cut, in this order, leave their chains and join the free list.
Cut(t, cut) ==
  LET gone == {cut[k] : k \in 1..Len(cut)}
      kept(ref) == SelectSeq(Reached(t, ref), LAMBDA i : i \notin gone)
      first(ref) == IF kept(ref) = <<>> THEN HASHITEM_NIL ELSE Head(kept(ref))
      freed(i) == LET k == CHOOSE k \in 1..Len(cut) : cut[k] = i
                  IN  IF k = 1 THEN t.freelist ELSE cut[k - 1]
  IN  IF cut = <<>> THEN t
      ELSE [t EXCEPT !.size = @ - Len(cut), !.freelist = Last(cut),
                     !.p = [i \in DOMAIN @ |->
                       [@[i] EXCEPT !.bucket = first(@), !.valid = @ /\ i \notin gone,
                                    !.next = IF i \in gone THEN freed(i) ELSE first(@)]]]

\* Items whose element is in Gone are deleted.
table_filter(t, Gone) ==
  Cut(t, SelectSeq(FilterOrder(t), LAMBDA i : t.p[i].element \in Gone))

\* The elements that table_iterate visits.
table_iterate(t) == {t.p[i].element : i \in {i \in DOMAIN t.p : t.p[i].valid}}

-----------------------------------------------------------------------------
\* What a user of the table takes for granted: table m behaves as function f.
\* Every key finds its element, an iteration visits every element, the size is
\* right, and the items that are not in use are free or were never used.
Represents(t, f) ==
  LET used == {i \in DOMAIN t.p : t.p[i].valid}
      free == {Reached(t, t.freelist)[i] : i \in 1..Len(Reached(t, t.freelist))}
  IN  /\ \A key \in Keys : table_find(t, key) = IF key \in DOMAIN f THEN f[key] ELSE NULL
      /\ table_iterate(t) = {f[key] : key \in DOMAIN f}
      /\ t.size = Cardinality(DOMAIN f) /\ t.size <= t.capacity
      /\ used \cap free = {}
      /\ used \cup free = 0..(t.size + Cardinality(free) - 1)

=============================================================================
