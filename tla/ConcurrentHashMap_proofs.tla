----------------------- MODULE ConcurrentHashMap_proofs -----------------------
(***************************************************************************)
(* Safety of ConcurrentHashMap for any number of threads and calls, any keys,  *)
(* tables, probes and tasks: a key has one value, which is in the current     *)
(* table, on its way from it, or in the next one.  A value on its way may find *)
(* no cell in the next table, but not while few keys are in the old one.      *)
(***************************************************************************)
EXTENDS ConcurrentHashMap, FiniteSetTheorems, FunctionTheorems, NaturalsInduction,
        WellFoundedInduction, TLAPS

MigrateSteps == {"task", "take", "put", "relock"}
MapLabel      == {"idle", "protect", "store", "probe", "value", "lock", "wait"} \union MigrateSteps

MapOp == [kind : {"none", "insert", "find"}, key : MapKey, value : Nat, known : BOOLEAN]

TablesOK ==
  /\ DOMAIN key = Table /\ DOMAIN value = Table
  /\ \A i \in Table : /\ key[i] \in [Cells(i) -> MapKey \union {EmptyKey}]
                      /\ value[i] \in [Cells(i) -> Nat]

MapTypeOK ==
  /\ hash_map_ \in Table \union {NoTable}
  /\ TablesOK
  /\ from \in Table \union {NoTable}
  /\ cnt \in Nat /\ generation \in Nat /\ pos \in Nat
  /\ protected \in [MapThread -> Table \union {NoTable}]
  /\ retired \in [MapThread -> SUBSET Table]
  /\ deleted \in SUBSET Table
  /\ mpc \in [MapThread -> MapLabel]
  /\ mine \in [MapThread -> Table \union {NoTable}]
  /\ op \in [MapThread -> MapOp]
  /\ cell \in [MapThread -> Nat]
  /\ task \in [MapThread -> SUBSET Nat]
  /\ old \in [MapThread -> Nat]
  /\ waits_for \in [MapThread -> Nat]
  /\ called \in Nat
  /\ results \in [MapKey -> SUBSET Nat]

(* The table whose values count, and the last one that was made. *)
Current == IF from # NoTable THEN from ELSE hash_map_
Newest  == IF from # NoTable THEN 2 * from ELSE hash_map_

Migrating == {t \in MapThread : mpc[t] \in MigrateSteps}

MigrationInv ==
  /\ from = NoTable <=> hash_map_ # NoTable
  /\ Newest \in Table
  /\ cnt = Cardinality(Migrating)
  /\ from = NoTable <=> cnt = 0
  /\ \A t \in MapThread :
       /\ mpc[t] \in MigrateSteps => waits_for[t] = generation
       /\ mpc[t] = "wait" =>
            waits_for[t] <= generation /\ (waits_for[t] = generation => from # NoTable)

(* A cell is moved when it is behind pos and no thread has still to do so. *)
ToMove(t, c) == c \in task[t] /\ ~(mpc[t] = "put" /\ c = cell[t])

TaskInv ==
  /\ \A t \in MapThread :
       /\ mpc[t] \in {"take", "put"} <=> task[t] # {}
       /\ \A c \in task[t] : c \in Cells(from) /\ c < pos * ChunkSize
       /\ mpc[t] = "put" => cell[t] \in task[t] /\ old[t] \notin {NoValue, Moved}
                              /\ key[from][cell[t]] # EmptyKey
       /\ mpc[t] = "relock" => from <= pos * ChunkSize
       /\ \A u \in MapThread : u # t => task[t] \cap task[u] = {}
  /\ from # NoTable =>
       \A c \in Cells(from) :
         value[from][c] = Moved <=> c < pos * ChunkSize /\ \A t \in MapThread : ~ToMove(t, c)

HazardsInv ==
  /\ \A t \in MapThread :
       /\ mpc[t] \in {"probe", "value"} =>
            mine[t] # NoTable /\ protected[t] = mine[t] /\ mine[t] \notin deleted
       /\ mpc[t] = "protect" /\ mine[t] # NoTable => protected[t] = mine[t]
       /\ mpc[t] \in MigrateSteps \union {"wait"} => mine[t] = NoTable
       /\ mine[t] <= Current
       /\ \A i \in retired[t] : i < Current
  /\ \A i \in deleted : i < Current

Placed(keys, i, c, k) ==
  \E n \in 0..ProbeLimit(i) - 1 :
    /\ Place(i, k, n) = c
    /\ \A m \in 0..n - 1 : keys[i][Place(i, k, m)] \notin {EmptyKey, k}

KeysPlaced ==
  \A i \in Table : \A c \in Cells(i) : key[i][c] # EmptyKey => Placed(key, i, c, key[i][c])

TablesInv ==
  /\ KeysPlaced
  /\ \A i \in Table : \A c \in Cells(i) :
       /\ key[i][c] = EmptyKey => value[i][c] \in {NoValue, Moved}
       /\ i > Newest => key[i][c] = EmptyKey /\ value[i][c] = NoValue
  /\ \A c \in Cells(Newest) : value[Newest][c] # Moved
  /\ \A t \in MapThread : mine[t] # NoTable /\ mine[t] # Current =>
       \A c \in Cells(mine[t]) : value[mine[t]][c] = Moved

(* The keys of the next table have been moved to it. *)
NextInv ==
  from # NoTable =>
    \A d \in Cells(2 * from) : key[2 * from][d] # EmptyKey =>
      \E c \in Cells(from) : /\ key[from][c] = key[2 * from][d]
                             /\ value[from][c] = Moved
                             /\ \A t \in MapThread : c \notin task[t]

CallInv(t) ==
  /\ mpc[t] = "value" => cell[t] \in Cells(mine[t]) /\ key[mine[t]][cell[t]] = op[t].key
  /\ mpc[t] = "idle" => mine[t] = NoTable /\ ~op[t].known
  /\ mpc[t] # "idle" => op[t].kind # "none"
  /\ op[t].kind = "insert" => op[t].value > 1
  /\ op[t].kind = "find" => op[t].value \in {NoValue, Moved}
  /\ op[t].known => results[op[t].key] # {}
  /\ op[t].known /\ mine[t] # NoTable =>
       \E c \in Cells(mine[t]) : key[mine[t]][c] = op[t].key

CallsInv == \A t \in MapThread : CallInv(t)

InTable(i, k, v)  == \E c \in Cells(i) : key[i][c] = k /\ value[i][c] = v
UnderWay(k, v)    == \E t \in MapThread : mpc[t] = "put" /\ key[from][cell[t]] = k /\ old[t] = v

Holds(k, v) ==
  /\ v \notin {NoValue, Moved}
  /\ \/ InTable(Current, k, v)
     \/ from # NoTable /\ (UnderWay(k, v) \/ InTable(2 * from, k, v))

ResultsHold == \A k \in MapKey : \A v \in results[k] : Holds(k, v)

(* A full stretch of the next table is the sign of many keys in the old one. *)
Used(i)     == {c \in Cells(i) : key[i][c] # EmptyKey}
OverflowInv == overflow => Cardinality(Used(from)) > MinProbes

MapInv == /\ MapTypeOK /\ MigrationInv /\ TaskInv /\ HazardsInv /\ TablesInv /\ NextInv /\ CallsInv
        /\ ResultsHold

-----------------------------------------------------------------------------
(* Places, probes and finite sets *)

(* Sets of naturals have a least element. *)
LEMMA LeastNatural ==
  ASSUME NEW S \in SUBSET Nat, S # {}
  PROVE  \E n \in S : \A m \in S : n <= m
PROOF
  <1>1. PICK R : R = {p \in Nat \X Nat : p[1] < p[2]}
    OBVIOUS
  <1>2. IsWellFoundedOn(R, Nat)
    BY <1>1, NatLessThanWellFounded, Zenon DEF OpToRel
  <1>3. PICK n \in S : \A m \in S : <<m, n>> \notin R
    <2>1. S \subseteq Nat
      OBVIOUS
    <2> QED BY <1>2, <2>1, WFMin
  <1>4. \A m \in S : ~(m < n)
    BY <1>1, <1>3
  <1> QED BY <1>4

LEMMA LeastIsMin ==
  ASSUME NEW S \in SUBSET Nat, S # {}
  PROVE  Min(S) \in S /\ \A m \in S : Min(S) <= m
PROOF BY LeastNatural DEF Min

LEMMA MaxOfTwo ==
  ASSUME NEW a \in Nat, NEW b \in Nat
  PROVE  Max({a, b}) \in Nat /\ Max({a, b}) >= a /\ Max({a, b}) >= b
PROOF
  <1>1. \E x \in {a, b} : \A y \in {a, b} : x >= y
    <2>1. CASE a >= b
      BY <2>1
    <2>2. CASE b >= a
      BY <2>2
    <2> QED BY <2>1, <2>2
  <1>2. Max({a, b}) \in {a, b} /\ \A y \in {a, b} : Max({a, b}) >= y
    BY <1>1 DEF Max
  <1> QED BY <1>2

(* A probe passes all the cells of a table, or MinProbes at least. *)
LEMMA ProbesOfTable ==
  ASSUME NEW i \in Table
  PROVE  /\ ProbeLimit(i) \in Nat /\ 0 < ProbeLimit(i) /\ ProbeLimit(i) <= i
         /\ ProbeLimit(i) = i \/ ProbeLimit(i) >= MinProbes
PROOF
  <1> DEFINE b == (i \div 16) + 2
             m == Max({MinProbes, b})
  <1>1. b \in Nat /\ b > 0
    BY DEF Table
  <1>2. m \in Nat /\ m >= MinProbes /\ m > 0
    <2> HIDE DEF b
    <2> QED BY <1>1, MaxOfTwo, MapAssumption
  <1>3. {m, i} \in SUBSET Nat /\ {m, i} # {}
    BY <1>2 DEF Table
  <1>4. ProbeLimit(i) = Min({m, i})
    BY DEF ProbeLimit
  <1> HIDE DEF m
  <1>5. ProbeLimit(i) \in {m, i} /\ ProbeLimit(i) <= i
    BY <1>3, <1>4, LeastIsMin
  <1> QED BY <1>2, <1>5, MapAssumption DEF Table

(* No key is the mark of a free cell. *)
LEMMA KeyIsPositive == \A k \in MapKey : k \in Nat /\ k # EmptyKey
PROOF BY MapAssumption DEF EmptyKey

LEMMA NoOpIsOp == NoOp \in MapOp
PROOF
  <1>1. AnyKey \in MapKey
    BY MapAssumption DEF AnyKey
  <1> QED BY <1>1 DEF NoOp, MapOp, NoValue

(* A probe visits cells of its table, each of them once. *)
LEMMA PlaceInCells ==
  ASSUME NEW i \in Table, NEW k \in MapKey, NEW n \in Cells(i)
  PROVE  Place(i, k, n) \in Cells(i)
PROOF
  <1>1. k % i \in 0..i - 1
    BY KeyIsPositive DEF Table
  <1> QED BY <1>1 DEF Place, Cells, Table

LEMMA PlacesApart ==
  ASSUME NEW i \in Table, NEW k \in MapKey, NEW n \in Cells(i), NEW m \in Cells(i),
         Place(i, k, n) = Place(i, k, m)
  PROVE  n = m
PROOF
  <1>1. k % i \in 0..i - 1
    BY KeyIsPositive DEF Table
  <1> QED BY <1>1 DEF Place, Cells, Table

LEMMA ProbeInCells ==
  ASSUME NEW i \in Table, NEW k \in MapKey, NEW n \in 0..ProbeLimit(i) - 1
  PROVE  n \in Cells(i) /\ Place(i, k, n) \in Cells(i)
PROOF
  <1>1. n \in Cells(i)
    BY ProbesOfTable DEF Cells, Table
  <1> QED BY <1>1, PlaceInCells

(* What Found finds. *)
LEMMA FoundIsPlaced ==
  ASSUME TablesOK, NEW i \in Table, NEW k \in MapKey, Steps(i, k) # {}
  PROVE  /\ Found(i, k) \in Cells(i)
         /\ key[i][Found(i, k)] \in {EmptyKey, k}
         /\ Placed(key, i, Found(i, k), k)
PROOF
  <1>1. Steps(i, k) \in SUBSET Nat
    BY ProbesOfTable DEF Steps
  <1> DEFINE n == Min(Steps(i, k))
  <1>2. n \in Steps(i, k) /\ \A m \in Steps(i, k) : n <= m
    BY <1>1, LeastIsMin
  <1>3. Found(i, k) = Place(i, k, n)
    BY DEF Found
  <1> HIDE DEF n
  <1>4. n \in 0..ProbeLimit(i) - 1 /\ key[i][Place(i, k, n)] \in {EmptyKey, k}
    BY <1>2 DEF Steps
  <1>5. \A m \in 0..n - 1 : key[i][Place(i, k, m)] \notin {EmptyKey, k}
    <2> SUFFICES ASSUME NEW m \in 0..n - 1 PROVE m \notin Steps(i, k) /\ m \in 0..ProbeLimit(i) - 1
      BY DEF Steps
    <2> QED BY <1>2, <1>4, ProbesOfTable
  <1> QED BY <1>3, <1>4, <1>5, ProbeInCells DEF Placed

(* A key is in one cell, and a probe for it finds that cell. *)
LEMMA OnePlace ==
  ASSUME TablesOK, KeysPlaced, NEW i \in Table, NEW c \in Cells(i), NEW d \in Cells(i),
         key[i][c] # EmptyKey, key[i][c] = key[i][d]
  PROVE  c = d
PROOF
  <1> DEFINE k == key[i][c]
  <1>1. PICK n \in 0..ProbeLimit(i) - 1 :
          Place(i, k, n) = c /\ \A m \in 0..n - 1 : key[i][Place(i, k, m)] \notin {EmptyKey, k}
    BY DEF KeysPlaced, Placed
  <1>2. PICK l \in 0..ProbeLimit(i) - 1 :
          Place(i, k, l) = d /\ \A m \in 0..l - 1 : key[i][Place(i, k, m)] \notin {EmptyKey, k}
    BY DEF KeysPlaced, Placed
  <1>3. n \in Int /\ l \in Int
    BY ProbesOfTable
  <1>4. ~(n < l) /\ ~(l < n)
    BY <1>1, <1>2, <1>3
  <1> QED BY <1>1, <1>2, <1>3, <1>4

LEMMA FoundItsPlace ==
  ASSUME TablesOK, KeysPlaced, NEW i \in Table, NEW c \in Cells(i), NEW k \in MapKey,
         key[i][c] = k
  PROVE  Steps(i, k) # {} /\ Found(i, k) = c
PROOF
  <1>0. k # EmptyKey
    BY KeyIsPositive
  <1>1. PICK n \in 0..ProbeLimit(i) - 1 :
          Place(i, k, n) = c /\ \A m \in 0..n - 1 : key[i][Place(i, k, m)] \notin {EmptyKey, k}
    BY <1>0 DEF KeysPlaced, Placed
  <1>2. n \in Steps(i, k)
    BY <1>1 DEF Steps
  <1>3. \A m \in Steps(i, k) : n <= m
    BY <1>1, ProbesOfTable DEF Steps
  <1>4. Steps(i, k) \in SUBSET Nat
    BY ProbesOfTable DEF Steps
  <1>5. Min(Steps(i, k)) = n
    BY <1>2, <1>3, <1>4, LeastIsMin
  <1> QED BY <1>1, <1>2, <1>5 DEF Found

(* The keys of the next table are other keys of the old one, which has half   *)
(* the cells: a probe that ends in none has passed MinProbes of them.          *)
LEMMA OverflowTakesKeys ==
  ASSUME TablesOK, KeysPlaced, NEW i \in Table, 2 * i \in Table,
         NEW e \in Cells(i), key[i][e] \in MapKey, Steps(2 * i, key[i][e]) = {},
         \A d \in Cells(2 * i) : key[2 * i][d] # EmptyKey =>
           \E c \in Cells(i) : key[i][c] = key[2 * i][d]
  PROVE  Cardinality(Used(i)) > MinProbes
PROOF
  <1> DEFINE k == key[i][e]
             P == 0..ProbeLimit(2 * i) - 1
             at(n) == Place(2 * i, k, n)
             f == [n \in P |-> CHOOSE c \in Cells(i) : key[i][c] = key[2 * i][at(n)]]
  <1>1. \A n \in P : /\ n \in Cells(2 * i) /\ at(n) \in Cells(2 * i)
                     /\ key[2 * i][at(n)] # EmptyKey /\ key[2 * i][at(n)] # k
    BY ProbeInCells DEF Steps
  <1>2. \A n \in P : f[n] \in Cells(i) /\ key[i][f[n]] = key[2 * i][at(n)]
    BY <1>1
  <1>3. \A n \in P : f[n] \in Used(i) \ {e}
    BY <1>1, <1>2 DEF Used
  <1>4. \A n, m \in P : f[n] = f[m] => n = m
    <2> SUFFICES ASSUME NEW n \in P, NEW m \in P, f[n] = f[m] PROVE n = m
      OBVIOUS
    <2>1. at(n) = at(m)
      BY <1>1, <1>2, OnePlace
    <2> QED BY <1>1, <2>1, PlacesApart
  <1>5. f \in Injection(P, Used(i) \ {e})
    <2>1. f \in [P -> Used(i) \ {e}]
      BY <1>3
    <2> QED BY <1>4, <2>1 DEF Injection, IsInjective
  <1>6. IsFiniteSet(Used(i)) /\ Cardinality(Used(i)) <= i /\ Cardinality(Used(i)) \in Nat
    <2>1. i - 1 \in Int /\ ~(0 > i - 1)
      BY DEF Table
    <2>2. IsFiniteSet(Cells(i)) /\ Cardinality(Cells(i)) = i
      <3>1. IsFiniteSet(0..i - 1) /\ Cardinality(0..i - 1) = i - 1 - 0 + 1
        BY <2>1, FS_Interval
      <3> QED BY <3>1 DEF Cells, Table
    <2>3. Used(i) \subseteq Cells(i)
      BY DEF Used
    <2> QED BY <2>2, <2>3, FS_Subset, FS_CardinalityType
  <1>7. IsFiniteSet(Used(i) \ {e}) /\ Cardinality(Used(i) \ {e}) = Cardinality(Used(i)) - 1
    <2>1. e \in Used(i)
      BY KeyIsPositive DEF Used
    <2> QED BY <1>6, <2>1, FS_RemoveElement
  <1>8. /\ ProbeLimit(2 * i) \in Nat /\ 0 < ProbeLimit(2 * i)
        /\ ProbeLimit(2 * i) = 2 * i \/ ProbeLimit(2 * i) >= MinProbes
    BY ProbesOfTable
  <1>9. Cardinality(P) = ProbeLimit(2 * i)
    <2>1. PICK l : l = ProbeLimit(2 * i) /\ l \in Nat /\ 0 < l
      BY <1>8
    <2>2. Cardinality(0..l - 1) = l - 1 - 0 + 1
      BY <2>1, FS_Interval
    <2> QED BY <2>1, <2>2
  <1> HIDE DEF f, P
  <1>10. Cardinality(P) <= Cardinality(Used(i) \ {e})
    BY <1>5, <1>7, FS_Injection
  <1> QED BY <1>6, <1>7, <1>8, <1>9, <1>10, MapAssumption DEF Table

(* A key is put in the cell that is found for it. *)
KeyPut(i, k) == key' = [key EXCEPT ![i][Found(i, k)] = k]

LEMMA KeyAdded ==
  ASSUME TablesOK, KeysPlaced, NEW i \in Table, NEW k \in MapKey, Steps(i, k) # {}, KeyPut(i, k)
  PROVE  /\ DOMAIN key' = Table
         /\ \A j \in Table : key'[j] \in [Cells(j) -> MapKey \union {EmptyKey}]
         /\ \A j \in Table : \A c \in Cells(j) : key[j][c] # EmptyKey => key'[j][c] = key[j][c]
         /\ \A j \in Table : j # i => key'[j] = key[j]
         /\ \A c \in Cells(i) : key'[i][c] = IF c = Found(i, k) THEN k ELSE key[i][c]
         /\ KeysPlaced'
PROOF
  <1> DEFINE c0 == Found(i, k)
  <1>1. c0 \in Cells(i) /\ key[i][c0] \in {EmptyKey, k} /\ Placed(key, i, c0, k)
    BY FoundIsPlaced
  <1> HIDE DEF c0
  <1>2. key' = [key EXCEPT ![i] = [key[i] EXCEPT ![c0] = k]]
    BY DEF KeyPut, c0
  <1>3. DOMAIN key' = Table /\ \A j \in Table : j # i => key'[j] = key[j]
    BY <1>2 DEF TablesOK
  <1>4. key'[i] = [key[i] EXCEPT ![c0] = k]
    BY <1>2 DEF TablesOK
  <1>5. \A j \in Table : key'[j] \in [Cells(j) -> MapKey \union {EmptyKey}]
    <2> TAKE j \in Table
    <2>1. key[j] \in [Cells(j) -> MapKey \union {EmptyKey}]
      BY DEF TablesOK
    <2> QED BY <1>1, <1>3, <1>4, <2>1
  <1>6. \A c \in Cells(i) : key'[i][c] = IF c = c0 THEN k ELSE key[i][c]
    BY <1>4 DEF TablesOK
  <1>7. \A j \in Table : \A c \in Cells(j) : key[j][c] # EmptyKey => key'[j][c] = key[j][c]
    BY <1>1, <1>3, <1>6
  <1>8. KeysPlaced'
    <2> SUFFICES ASSUME NEW j \in Table, NEW c \in Cells(j), key'[j][c] # EmptyKey
                 PROVE  Placed(key', j, c, key'[j][c])
      BY DEF KeysPlaced
    <2> DEFINE l == key'[j][c]
    <2>1. l \in MapKey
      BY <1>5
    <2>2. PICK n \in 0..ProbeLimit(j) - 1 :
            Place(j, l, n) = c /\ \A m \in 0..n - 1 : key[j][Place(j, l, m)] \notin {EmptyKey, l}
      <3>1. CASE j = i /\ c = c0
        BY <1>1, <1>6, <3>1 DEF Placed
      <3>2. CASE ~(j = i /\ c = c0)
        BY <1>3, <1>6, <3>2 DEF KeysPlaced, Placed
      <3> QED BY <3>1, <3>2
    <2>3. ASSUME NEW m \in 0..n - 1 PROVE key'[j][Place(j, l, m)] \notin {EmptyKey, l}
      <3> DEFINE d == Place(j, l, m)
      <3>1. d \in Cells(j)
        BY <2>1, ProbeInCells, ProbesOfTable
      <3>2. key[j][d] \notin {EmptyKey, l}
        BY <2>2, <2>3
      <3> HIDE DEF d
      <3>3. key'[j][d] = key[j][d]
        BY <1>7, <3>1, <3>2
      <3> QED BY <3>2, <3>3 DEF d
    <2> QED BY <2>2, <2>3 DEF Placed
  <1> QED BY <1>3, <1>5, <1>6, <1>7, <1>8 DEF c0

-----------------------------------------------------------------------------
(* A key has one value *)

(* The tables are there: the current one and the newest.                       *)
LEMMA TablesThere ==
  ASSUME MapTypeOK, MigrationInv
  PROVE  /\ Current \in Table /\ Newest \in Table
         /\ from # NoTable => from \in Table /\ 2 * from \in Table /\ Current = from
                              /\ Newest = 2 * from /\ from # 2 * from
         /\ from = NoTable => hash_map_ \in Table /\ Current = hash_map_ /\ Newest = hash_map_
PROOF BY DEF MapTypeOK, MigrationInv, Current, Newest, Table, NoTable

(* What is under way or in the next table has left a mark. *)
LEMMA LeftMark ==
  ASSUME MapInv, from # NoTable, NEW t \in MapThread, mpc[t] = "put"
  PROVE  /\ cell[t] \in Cells(from) /\ cell[t] \in task[t]
         /\ value[from][cell[t]] = Moved
         /\ key[from][cell[t]] \in MapKey
PROOF
  <1>1. /\ cell[t] \in task[t] /\ cell[t] \in Cells(from) /\ cell[t] < pos * ChunkSize
        /\ key[from][cell[t]] # EmptyKey
    BY DEF MapInv, TaskInv
  <1>2. \A u \in MapThread : ~ToMove(u, cell[t])
    BY <1>1 DEF MapInv, TaskInv, ToMove
  <1> QED BY <1>1, <1>2, TablesThere DEF MapInv, TaskInv, MapTypeOK, TablesOK

(* A key on the way, or in the next table, has left the mark in its old cell. *)
LEMMA MovedKey ==
  ASSUME MapInv, from # NoTable, NEW k \in MapKey, NEW v, UnderWay(k, v) \/ InTable(2 * from, k, v)
  PROVE  \E c \in Cells(from) : key[from][c] = k /\ value[from][c] = Moved
PROOF
  <1>1. CASE UnderWay(k, v)
    BY <1>1, LeftMark DEF UnderWay
  <1>2. CASE InTable(2 * from, k, v)
    BY <1>2, KeyIsPositive DEF InTable, MapInv, NextInv
  <1> QED BY <1>1, <1>2

(* A key holds one value at a time, wherever it is. *)
LEMMA HoldsOnce ==
  ASSUME MapInv, NEW k \in MapKey, NEW v, NEW w, Holds(k, v), Holds(k, w)
  PROVE  v = w
PROOF
  <1> USE DEF MapInv
  <1>0. k # EmptyKey /\ TablesOK /\ KeysPlaced
    BY KeyIsPositive DEF MapTypeOK, TablesInv
  <1>1. ASSUME NEW x, NEW y, InTable(Current, k, x), InTable(Current, k, y)
        PROVE  x = y
    BY <1>0, <1>1, TablesThere, OnePlace DEF InTable
  <1>2. ASSUME from # NoTable, NEW x, NEW y, Holds(k, x), InTable(Current, k, x),
               UnderWay(k, y) \/ InTable(2 * from, k, y)
        PROVE  FALSE
    <2>1. PICK c \in Cells(from) : key[from][c] = k /\ value[from][c] = Moved
      BY <1>2, MovedKey
    <2>2. PICK d \in Cells(from) : key[from][d] = k /\ value[from][d] = x
      BY <1>2, TablesThere DEF InTable
    <2>3. c = d
      BY <1>0, <1>2, <2>1, <2>2, TablesThere, OnePlace
    <2> QED BY <1>2, <2>1, <2>2, <2>3 DEF Holds
  <1>3. ASSUME from # NoTable, NEW x, NEW y, UnderWay(k, x), UnderWay(k, y)
        PROVE  x = y
    <2>1. PICK t \in MapThread : mpc[t] = "put" /\ key[from][cell[t]] = k /\ old[t] = x
      BY <1>3 DEF UnderWay
    <2>2. PICK u \in MapThread : mpc[u] = "put" /\ key[from][cell[u]] = k /\ old[u] = y
      BY <1>3 DEF UnderWay
    <2>3. cell[t] = cell[u]
      BY <1>0, <1>3, <2>1, <2>2, LeftMark, TablesThere, OnePlace
    <2>4. t = u
      BY <1>3, <2>1, <2>2, <2>3, LeftMark DEF TaskInv
    <2> QED BY <2>1, <2>2, <2>4
  <1>4. ASSUME from # NoTable, NEW x, NEW y, UnderWay(k, x), InTable(2 * from, k, y)
        PROVE  FALSE
    <2>1. PICK t \in MapThread : mpc[t] = "put" /\ key[from][cell[t]] = k
      BY <1>4 DEF UnderWay
    <2>2. PICK c \in Cells(from) : key[from][c] = k /\ c \notin task[t]
      BY <1>0, <1>4 DEF InTable, NextInv
    <2>3. cell[t] = c
      BY <1>0, <1>4, <2>1, <2>2, LeftMark, TablesThere, OnePlace
    <2> QED BY <1>4, <2>1, <2>2, <2>3, LeftMark
  <1>5. ASSUME from # NoTable, NEW x, NEW y, InTable(2 * from, k, x), InTable(2 * from, k, y)
        PROVE  x = y
    BY <1>0, <1>5, TablesThere, OnePlace DEF InTable
  <1> QED BY <1>1, <1>2, <1>3, <1>4, <1>5 DEF Holds

(* A key holds one value, so its calls got one.                                *)
LEMMA InvAgrees == MapInv /\ OverflowInv => MapAgrees
PROOF
  <1> SUFFICES ASSUME MapInv, OverflowInv PROVE MapAgrees
    OBVIOUS
  <1>1. ASSUME NEW k \in MapKey PROVE Cardinality(results[k]) <= 1 /\ Moved \notin results[k]
    <2>1. \A v, w \in results[k] : v = w
      BY HoldsOnce DEF MapInv, ResultsHold
    <2>2. CASE results[k] = {}
      <3>1. Cardinality(results[k]) = 0
        BY <2>2, FS_EmptySet, Zenon
      <3> QED BY <2>2, <3>1
    <2>3. CASE results[k] # {}
      <3>1. PICK v : results[k] = {v}
        BY <2>1, <2>3
      <3>2. Cardinality(results[k]) = 1
        BY <3>1, FS_Singleton, Zenon
      <3>3. Moved \notin results[k]
        BY DEF MapInv, ResultsHold, Holds
      <3> QED BY <3>2, <3>3
    <2> QED BY <2>2, <2>3
  <1>2. ASSUME NEW t \in MapThread
        PROVE  /\ mpc[t] \in {"probe", "value"} => mine[t] \notin deleted
               /\ mpc[t] \in {"take", "put"} => from \in Table \ deleted
               /\ mpc[t] = "lock" /\ hash_map_ = NoTable => from # NoTable
               /\ mpc[t] = "wait" /\ waits_for[t] = generation =>
                    \E u \in MapThread : mpc[u] \in {"task", "take", "put", "relock"}
    <2>1. IsFiniteSet(Migrating) /\ (Migrating = {} => cnt = 0) /\ (from = NoTable => Migrating = {})
      <3>1. IsFiniteSet(Migrating)
        BY FS_Subset, MapAssumption DEF Migrating
      <3> QED BY <3>1, FS_EmptySet DEF MapInv, MigrationInv
    <2>2. mpc[t] \in MigrateSteps => from \in Table
      BY <2>1, TablesThere DEF MapInv, Migrating
    <2>3. mpc[t] \in {"take", "put"} => from \in Table \ deleted
      BY <2>2, TablesThere DEF MigrateSteps, MapInv, HazardsInv, Table, NoTable
    <2>4. mpc[t] = "wait" /\ waits_for[t] = generation => Migrating # {}
      BY <2>1 DEF MapInv, MigrationInv
    <2>5. mpc[t] \in {"probe", "value"} => mine[t] \notin deleted
      BY DEF MapInv, HazardsInv
    <2>6. mpc[t] = "lock" /\ hash_map_ = NoTable => from # NoTable
      BY DEF MapInv, MigrationInv
    <2>7. Migrating # {} => \E u \in MapThread : mpc[u] \in {"task", "take", "put", "relock"}
      BY DEF Migrating, MigrateSteps
    <2> QED BY <2>3, <2>4, <2>5, <2>6, <2>7
  <1>3. hash_map_ # NoTable => from = NoTable /\ cnt = 0
    BY DEF MapInv, MigrationInv
  <1> QED BY <1>1, <1>2, <1>3 DEF MapAgrees, OverflowInv, Used

-----------------------------------------------------------------------------
(* The first state *)

(* There is one table of one free cell. *)
LEMMA MapInvInit == MapInit => MapInv
PROOF
  <1> SUFFICES ASSUME MapInit PROVE MapInv
    OBVIOUS
  <1> USE DEF MapInit
  <1>1. MapTypeOK
    <2>1. TablesOK
      BY DEF TablesOK, EmptyKey, NoValue
    <2>2. hash_map_ \in Table /\ from = NoTable
      BY MapAssumption DEF Table
    <2>3. op \in [MapThread -> MapOp]
      BY NoOpIsOp
    <2>4. /\ retired \in [MapThread -> SUBSET Table] /\ deleted \in SUBSET Table
          /\ task \in [MapThread -> SUBSET Nat]
          /\ results \in [MapKey -> SUBSET Nat]
      OBVIOUS
    <2> QED BY <2>1, <2>2, <2>3, <2>4 DEF MapTypeOK, MapLabel, NoValue, NoTable
  <1>2. MigrationInv
    <2>1. Migrating = {}
      BY DEF Migrating, MigrateSteps
    <2>2. Newest \in Table
      BY MapAssumption DEF Newest, Table
    <2> QED BY <2>1, <2>2, FS_EmptySet DEF MigrationInv, MigrateSteps, NoTable
  <1>3. TaskInv
    BY DEF TaskInv
  <1>4. HazardsInv
    BY DEF HazardsInv, Current, NoTable, MigrateSteps
  <1>5. \A i \in Table : \A c \in Cells(i) : key[i][c] = EmptyKey /\ value[i][c] = NoValue
    OBVIOUS
  <1>6. TablesInv
    <2>1. \A c \in Cells(Newest) : value[Newest][c] # Moved
      BY <1>2, <1>5 DEF MigrationInv, NoValue, Moved
    <2> QED BY <1>5, <2>1 DEF TablesInv, KeysPlaced
  <1>7. NextInv
    BY DEF NextInv
  <1>8. CallsInv
    BY DEF CallsInv, CallInv, NoOp
  <1>9. ResultsHold
    BY DEF ResultsHold
  <1> QED BY <1>1, <1>2, <1>3, <1>4, <1>6, <1>7, <1>8, <1>9 DEF MapInv

-----------------------------------------------------------------------------
(* Steps that leave the tables and the migration as they are *)

(* Where a value is does not depend on what else the threads do. *)
LEMMA HoldsKept ==
  ASSUME MapInv, UNCHANGED <<hash_map_, tables, from, cell, old>>,
         \A t \in MapThread : mpc[t] = "put" => mpc'[t] = "put"
  PROVE  \A k \in MapKey : \A v : Holds(k, v) => Holds(k, v)'
PROOF BY DEF Holds, InTable, UnderWay, Current, tables

(* The threads in a migration stay in it, and no other joins. *)
LEMMA MigrationKept ==
  ASSUME MapInv, UNCHANGED <<hash_map_, from, cnt, generation>>,
         \A t \in MapThread : mpc'[t] \in MigrateSteps <=> mpc[t] \in MigrateSteps,
         \A t \in MapThread : mpc'[t] = "wait" => mpc[t] = "wait",
         \A t \in MapThread : mpc'[t] \in MigrateSteps \union {"wait"} => waits_for'[t] = waits_for[t]
  PROVE  MigrationInv'
PROOF
  <1>1. Migrating' = Migrating
    BY DEF Migrating
  <1>2. Newest' = Newest
    BY DEF Newest
  <1> QED BY <1>1, <1>2 DEF MapInv, MigrationInv

LEMMA TasksKept ==
  ASSUME MapInv, UNCHANGED <<tables, from, pos, task, cell, old>>,
         \A t \in MapThread : mpc[t] \in MigrateSteps \/ mpc'[t] \in MigrateSteps => mpc'[t] = mpc[t]
  PROVE  TaskInv' /\ NextInv'
PROOF
  <1>1. \A t \in MapThread : \A l \in MigrateSteps : mpc'[t] = l <=> mpc[t] = l
    OBVIOUS
  <1>2. \A t \in MapThread : /\ mpc'[t] = "put" <=> mpc[t] = "put"
                             /\ mpc'[t] = "take" <=> mpc[t] = "take"
                             /\ mpc'[t] = "relock" <=> mpc[t] = "relock"
    BY <1>1 DEF MigrateSteps
  <1>3. TaskInv'
    BY <1>2 DEF MapInv, TaskInv, ToMove, tables
  <1>4. NextInv'
    BY DEF MapInv, NextInv, tables
  <1> QED BY <1>3, <1>4

(* Keys that are there stay. *)
KeysStay ==
  \A i \in Table : \A c \in Cells(i) : key[i][c] # EmptyKey => key'[i][c] = key[i][c]

(* What is known of a call stays true while keys stay where they are. *)
LEMMA CallStays ==
  ASSUME MapInv, NEW u \in MapThread, KeysStay,
         op'[u] = op[u], mpc'[u] = mpc[u], mine'[u] = mine[u], cell'[u] = cell[u],
         \A k \in MapKey : results[k] \subseteq results'[k]
  PROVE  CallInv(u)'
PROOF
  <1>1. op[u] \in MapOp /\ mine[u] \in Table \union {NoTable} /\ TablesOK /\ CallInv(u)
    BY DEF MapInv, MapTypeOK, CallsInv
  <1>2. op[u].key \in MapKey
    BY <1>1 DEF MapOp
  <1>3. mpc[u] = "value" => mine[u] \in Table
    BY <1>1 DEF MapInv, HazardsInv
  <1>4. mpc'[u] = "value" => cell'[u] \in Cells(mine'[u]) /\ key'[mine'[u]][cell'[u]] = op'[u].key
    BY <1>1, <1>2, <1>3, KeyIsPositive DEF CallInv, KeysStay
  <1>5. op'[u].known /\ mine'[u] # NoTable =>
          \E c \in Cells(mine'[u]) : key'[mine'[u]][c] = op'[u].key
    BY <1>1, <1>2, KeyIsPositive DEF CallInv, KeysStay
  <1>6. op'[u].known => results'[op'[u].key] # {}
    BY <1>1, <1>2 DEF CallInv
  <1> QED BY <1>1, <1>4, <1>5, <1>6 DEF CallInv

(* A call begins; it knows whether its key has had a value. *)
LEMMA CallKeeps ==
  ASSUME MapInv, NEW t \in MapThread, Call(t)
  PROVE  MapInv'
PROOF
  <1> USE DEF Call, MapGoTo, tables, migrateVars, retireVars
  <1>0. PICK k \in MapKey, kind \in {"insert", "find"} :
          op' = [op EXCEPT ![t] =
            [kind |-> kind, key |-> k, value |-> IF kind = "insert" THEN called + 2 ELSE NoValue,
             known |-> results[k] # {}]]
    BY Zenon
  <1>1. mpc[t] = "idle" /\ mpc' = [mpc EXCEPT ![t] = "protect"] /\ mpc \in [MapThread -> MapLabel]
    BY DEF MapInv, MapTypeOK
  <1>2. \A u \in MapThread : mpc'[u] = IF u = t THEN "protect" ELSE mpc[u]
    BY <1>1
  <1>3. MapTypeOK'
    <2>1. op' \in [MapThread -> MapOp]
      <3>1. [kind |-> kind, key |-> k, value |-> IF kind = "insert" THEN called + 2 ELSE NoValue,
             known |-> results[k] # {}] \in MapOp
        BY DEF MapOp, NoValue, MapInv, MapTypeOK
      <3> HIDE DEF MapOp
      <3> QED BY <1>0, <3>1 DEF MapInv, MapTypeOK
    <2>2. mpc' \in [MapThread -> MapLabel]
      BY <1>1 DEF MapLabel
    <2> QED BY <2>1, <2>2 DEF MapInv, MapTypeOK, TablesOK
  <1>4. MigrationInv'
    BY <1>1, <1>2, MigrationKept DEF MigrateSteps
  <1>5. TaskInv' /\ NextInv'
    BY <1>1, <1>2, TasksKept DEF MigrateSteps
  <1>6. HazardsInv'
    BY <1>1, <1>2 DEF MapInv, HazardsInv, Current, MigrateSteps, CallsInv, CallInv, MapTypeOK, NoTable
  <1>7. TablesInv'
    BY DEF MapInv, TablesInv, KeysPlaced, Newest, Current
  <1>8. CallsInv'
    <2> SUFFICES ASSUME NEW u \in MapThread PROVE CallInv(u)'
      BY DEF CallsInv
    <2>1. CASE u # t
      BY <1>0, <1>2, <2>1, CallStays DEF KeysStay, MapInv, MapTypeOK
    <2>2. CASE u = t
      <3>1. mine'[t] = NoTable
        BY <1>1 DEF MapInv, CallsInv, CallInv
      <3>0. op'[t] = [kind |-> kind, key |-> k, known |-> results[k] # {},
                      value |-> IF kind = "insert" THEN called + 2 ELSE NoValue]
        BY <1>0 DEF MapInv, MapTypeOK
      <3>1a. op'[t].known <=> results[k] # {}
        <4>1. op'[t].known = (results[k] # {})
          BY <3>0
        <4> QED BY <4>1, Zenon
      <3>2. /\ op'[t].key = k /\ op'[t].kind = kind
            /\ op'[t].value = IF kind = "insert" THEN called + 2 ELSE NoValue
        BY <3>0
      <3>3. op'[t].kind # "none" /\ (op'[t].kind = "insert" => op'[t].value > 1)
            /\ (op'[t].kind = "find" => op'[t].value \in {NoValue, Moved})
        BY <3>2 DEF MapInv, MapTypeOK, NoValue
      <3>4. op'[t].known => results'[op'[t].key] # {}
        BY <3>1a, <3>2
      <3>5. mpc'[t] = "protect"
        BY <1>2
      <3> QED BY <2>2, <3>1, <3>3, <3>4, <3>5 DEF CallInv
    <2> QED BY <2>1, <2>2
  <1>9. ResultsHold'
    BY <1>1, <1>2, HoldsKept DEF MapInv, ResultsHold
  <1> QED BY <1>3, <1>4, <1>5, <1>6, <1>7, <1>8, <1>9 DEF MapInv

(* A key that a call got a value of is in the current table. *)
LEMMA KnownIsThere ==
  ASSUME MapInv, NEW k \in MapKey, results[k] # {}
  PROVE  \E c \in Cells(Current) : key[Current][c] = k
PROOF
  <1>1. PICK v : Holds(k, v)
    BY DEF MapInv, ResultsHold
  <1>2. CASE InTable(Current, k, v)
    BY <1>2 DEF InTable
  <1>3. CASE from # NoTable /\ (UnderWay(k, v) \/ InTable(2 * from, k, v))
    BY <1>3, MovedKey, TablesThere DEF MapInv
  <1> QED BY <1>1, <1>2, <1>3 DEF Holds

(* do_protect: what is loaded is the current table, if there is one. *)
LEMMA LoadMapKeeps ==
  ASSUME MapInv, NEW t \in MapThread, LoadMap(t)
  PROVE  MapInv'
PROOF
  <1> USE DEF LoadMap, MapGoTo, tables, migrateVars, retireVars
  <1> DEFINE next == IF hash_map_ # mine[t] THEN "store"
                     ELSE IF hash_map_ = NoTable THEN "lock" ELSE "probe"
  <1>1. /\ mpc[t] = "protect" /\ mpc' = [mpc EXCEPT ![t] = next] /\ mpc \in [MapThread -> MapLabel]
        /\ mine' = [mine EXCEPT ![t] = hash_map_] /\ mine \in [MapThread -> Table \union {NoTable}]
        /\ hash_map_ \in Table \union {NoTable}
    BY DEF MapInv, MapTypeOK
  <1>2. /\ \A u \in MapThread : mpc'[u] = IF u = t THEN next ELSE mpc[u]
        /\ \A u \in MapThread : mine'[u] = IF u = t THEN hash_map_ ELSE mine[u]
    BY <1>1
  <1>3. MapTypeOK'
    <2>1. mpc' \in [MapThread -> MapLabel] /\ mine' \in [MapThread -> Table \union {NoTable}]
      BY <1>1 DEF MapLabel
    <2> QED BY <2>1 DEF MapInv, MapTypeOK, TablesOK
  <1>4. MigrationInv'
    BY <1>1, <1>2, MigrationKept DEF MigrateSteps
  <1>5. TaskInv' /\ NextInv'
    BY <1>1, <1>2, TasksKept DEF MigrateSteps
  <1>6. hash_map_ # NoTable => hash_map_ = Current /\ hash_map_ \notin deleted
    BY TablesThere DEF MapInv, HazardsInv, MigrationInv, Table
  <1>7. HazardsInv'
    <2>1. Current' = Current /\ Current \in Nat /\ hash_map_ <= Current
      BY <1>6, TablesThere DEF Current, MapInv, Table, NoTable
    <2> QED BY <1>1, <1>2, <1>6, <2>1 DEF MapInv, HazardsInv, MigrateSteps
  <1>8. TablesInv'
    BY <1>2, <1>6 DEF MapInv, TablesInv, KeysPlaced, Newest, Current
  <1>9. CallsInv'
    <2> SUFFICES ASSUME NEW u \in MapThread PROVE CallInv(u)'
      BY DEF CallsInv
    <2>1. CASE u # t
      BY <1>2, <2>1, CallStays DEF KeysStay
    <2>2. CASE u = t
      <3>1. CallInv(t) /\ op[t] \in MapOp
        BY DEF MapInv, CallsInv, MapTypeOK
      <3>2. op[t].known /\ hash_map_ # NoTable =>
              \E c \in Cells(hash_map_) : key[hash_map_][c] = op[t].key
        BY <1>6, <3>1, KnownIsThere DEF CallInv, MapOp
      <3> QED BY <1>1, <1>2, <2>2, <3>1, <3>2 DEF CallInv
    <2> QED BY <2>1, <2>2
  <1>10. ResultsHold'
    BY <1>1, <1>2, HoldsKept DEF MapInv, ResultsHold
  <1> QED BY <1>3, <1>4, <1>5, <1>7, <1>8, <1>9, <1>10 DEF MapInv

(* The hazard pointer is stored before the table is compared again. *)
LEMMA StoreHazardKeeps ==
  ASSUME MapInv, NEW t \in MapThread, StoreHazard(t)
  PROVE  MapInv'
PROOF
  <1> USE DEF StoreHazard, MapGoTo, tables, migrateVars, localVars
  <1>1. /\ mpc[t] = "store" /\ mpc' = [mpc EXCEPT ![t] = "protect"]
        /\ mpc \in [MapThread -> MapLabel]
        /\ protected' = [protected EXCEPT ![t] = mine[t]]
        /\ protected \in [MapThread -> Table \union {NoTable}]
        /\ mine[t] \in Table \union {NoTable}
    BY DEF MapInv, MapTypeOK
  <1>2. /\ \A u \in MapThread : mpc'[u] = IF u = t THEN "protect" ELSE mpc[u]
        /\ \A u \in MapThread : protected'[u] = IF u = t THEN mine[t] ELSE protected[u]
    BY <1>1
  <1>3. MapTypeOK'
    <2>1. mpc' \in [MapThread -> MapLabel] /\ protected' \in [MapThread -> Table \union {NoTable}]
      BY <1>1 DEF MapLabel
    <2> QED BY <2>1 DEF MapInv, MapTypeOK, TablesOK
  <1>4. MigrationInv'
    BY <1>1, <1>2, MigrationKept DEF MigrateSteps
  <1>5. TaskInv' /\ NextInv'
    BY <1>1, <1>2, TasksKept DEF MigrateSteps
  <1>6. HazardsInv'
    BY <1>1, <1>2 DEF MapInv, HazardsInv, Current, MigrateSteps
  <1>7. TablesInv'
    BY DEF MapInv, TablesInv, KeysPlaced, Newest, Current
  <1>8. CallsInv'
    <2> SUFFICES ASSUME NEW u \in MapThread PROVE CallInv(u)'
      BY DEF CallsInv
    <2>1. CASE u # t
      BY <1>2, <2>1, CallStays DEF KeysStay
    <2>2. CASE u = t
      BY <1>1, <1>2, <2>2 DEF CallInv, MapInv, CallsInv
    <2> QED BY <2>1, <2>2
  <1>9. ResultsHold'
    BY <1>1, <1>2, HoldsKept DEF MapInv, ResultsHold
  <1> QED BY <1>3, <1>4, <1>5, <1>6, <1>7, <1>8, <1>9 DEF MapInv

(* A waiting thread is in no migration any more. *)
LEMMA WokenKeeps ==
  ASSUME MapInv, NEW t \in MapThread, Woken(t)
  PROVE  MapInv'
PROOF
  <1> USE DEF Woken, MapGoTo, tables, migrateVars, retireVars
  <1>1. /\ mpc[t] = "wait" /\ mpc' = [mpc EXCEPT ![t] = "protect"]
        /\ mpc \in [MapThread -> MapLabel]
        /\ waits_for' = [waits_for EXCEPT ![t] = 0] /\ waits_for \in [MapThread -> Nat]
    BY DEF MapInv, MapTypeOK
  <1>2. \A u \in MapThread : /\ mpc'[u] = IF u = t THEN "protect" ELSE mpc[u]
                             /\ u # t => waits_for'[u] = waits_for[u]
    BY <1>1
  <1>3. MapTypeOK'
    <2>1. mpc' \in [MapThread -> MapLabel] /\ waits_for' \in [MapThread -> Nat]
      BY <1>1 DEF MapLabel
    <2> QED BY <2>1 DEF MapInv, MapTypeOK, TablesOK
  <1>4. MigrationInv'
    BY <1>1, <1>2, MigrationKept DEF MigrateSteps
  <1>5. TaskInv' /\ NextInv'
    BY <1>1, <1>2, TasksKept DEF MigrateSteps
  <1>6. HazardsInv'
    BY <1>1, <1>2 DEF MapInv, HazardsInv, Current, MigrateSteps
  <1>7. TablesInv'
    BY DEF MapInv, TablesInv, KeysPlaced, Newest, Current
  <1>8. CallsInv'
    <2> SUFFICES ASSUME NEW u \in MapThread PROVE CallInv(u)'
      BY DEF CallsInv
    <2>1. CASE u # t
      BY <1>2, <2>1, CallStays DEF KeysStay
    <2>2. CASE u = t
      BY <1>1, <1>2, <2>2 DEF CallInv, MapInv, CallsInv
    <2> QED BY <2>1, <2>2
  <1>9. ResultsHold'
    BY <1>1, <1>2, HoldsKept DEF MapInv, ResultsHold
  <1> QED BY <1>3, <1>4, <1>5, <1>6, <1>7, <1>8, <1>9 DEF MapInv

-----------------------------------------------------------------------------
(* with_value *)

ValuesStay ==
  \A i \in Table : \A c \in Cells(i) :
    /\ value[i][c] \notin {NoValue, Moved} => value'[i][c] = value[i][c]
    /\ value'[i][c] = Moved <=> value[i][c] = Moved

(* The threads that have a value on the way still have it. *)
MoversStay ==
  \A u \in MapThread :
    mpc[u] = "put" => mpc'[u] = "put" /\ cell'[u] = cell[u] /\ old'[u] = old[u]

(* A value stays where it is, or on its way. *)
LEMMA HoldsStay ==
  ASSUME MapInv, UNCHANGED <<hash_map_, from>>, KeysStay, ValuesStay, MoversStay,
         NEW k \in MapKey, NEW v, Holds(k, v)
  PROVE  Holds(k, v)'
PROOF
  <1>0. k # EmptyKey /\ v \notin {NoValue, Moved}
    BY KeyIsPositive DEF Holds
  <1>1. ASSUME NEW i \in Table, InTable(i, k, v)
        PROVE  \E c \in Cells(i) : key'[i][c] = k /\ value'[i][c] = v
    BY <1>0, <1>1 DEF InTable, KeysStay, ValuesStay
  <1>2. CASE InTable(Current, k, v)
    BY <1>0, <1>1, <1>2, TablesThere DEF Holds, InTable, Current, MapInv
  <1>3. CASE from # NoTable /\ UnderWay(k, v)
    <2>1. PICK u \in MapThread : mpc[u] = "put" /\ key[from][cell[u]] = k /\ old[u] = v
      BY <1>3 DEF UnderWay
    <2>2. key'[from][cell[u]] = k
      BY <1>0, <1>3, <2>1, LeftMark, TablesThere DEF KeysStay, MapInv
    <2> QED BY <1>0, <1>3, <2>1, <2>2 DEF Holds, UnderWay, MoversStay
  <1>4. CASE from # NoTable /\ InTable(2 * from, k, v)
    BY <1>0, <1>1, <1>4, TablesThere DEF Holds, InTable, MapInv
  <1> QED BY <1>2, <1>3, <1>4 DEF Holds

(* There is a migration while threads are in it. *)
LEMMA MigratingThreads ==
  ASSUME MapInv
  PROVE  IsFiniteSet(Migrating) /\ (from = NoTable <=> Migrating = {})
PROOF
  <1>1. IsFiniteSet(Migrating)
    BY FS_Subset, MapAssumption DEF Migrating
  <1> QED BY <1>1, FS_EmptySet DEF MapInv, MigrationInv

(* Tasks do not depend on the steps of other threads. *)
LEMMA TasksStayIf ==
  ASSUME MapInv, UNCHANGED <<from, pos, task>>, KeysStay, ValuesStay, MoversStay,
         \A u \in MapThread : \A l \in {"take", "put"} : mpc'[u] = l <=> mpc[u] = l,
         \A u \in MapThread : mpc'[u] = "relock" => mpc[u] = "relock",
         from # NoTable => key'[2 * from] = key[2 * from]
  PROVE  TaskInv' /\ NextInv'
PROOF
  <1>2. \A u \in MapThread : /\ mpc'[u] = "put" <=> mpc[u] = "put"
                             /\ mpc'[u] = "take" <=> mpc[u] = "take"
                             /\ mpc'[u] = "relock" => mpc[u] = "relock"
    OBVIOUS
  <1>3. from # NoTable => from \in Table
    BY TablesThere DEF MapInv
  <1>4. \A u \in MapThread : mpc[u] = "put" => from # NoTable
    BY MigratingThreads DEF Migrating, MigrateSteps
  <1>5. ASSUME NEW u \in MapThread
        PROVE  /\ mpc'[u] \in {"take", "put"} <=> task'[u] # {}
               /\ \A c \in task'[u] : c \in Cells(from') /\ c < pos' * ChunkSize
               /\ mpc'[u] = "put" => cell'[u] \in task'[u] /\ old'[u] \notin {NoValue, Moved}
                                      /\ key'[from'][cell'[u]] # EmptyKey
               /\ mpc'[u] = "relock" => from' <= pos' * ChunkSize
               /\ \A w \in MapThread : w # u => task'[u] \cap task'[w] = {}
    <2>1. mpc[u] = "put" => key'[from][cell[u]] # EmptyKey
      BY <1>3, <1>4 DEF MapInv, TaskInv, KeysStay
    <2> QED BY <1>2, <2>1 DEF MapInv, TaskInv, MoversStay
  <1>6. \A u \in MapThread : \A c : ToMove(u, c)' <=> ToMove(u, c)
    BY <1>2 DEF ToMove, MoversStay
  <1>7. from' # NoTable => \A c \in Cells(from') :
          value'[from'][c] = Moved <=> c < pos' * ChunkSize /\ \A u \in MapThread : ~ToMove(u, c)'
    BY <1>3, <1>6 DEF MapInv, TaskInv, ValuesStay
  <1>8. TaskInv'
    BY <1>5, <1>7 DEF TaskInv
  <1>9. NextInv'
    <2> SUFFICES ASSUME from # NoTable, NEW d \in Cells(2 * from), key[2 * from][d] # EmptyKey
                 PROVE  \E c \in Cells(from) : /\ key'[from][c] = key[2 * from][d]
                                               /\ value'[from][c] = Moved
                                               /\ \A u \in MapThread : c \notin task[u]
      BY DEF NextInv
    <2>1. PICK c \in Cells(from) : /\ key[from][c] = key[2 * from][d]
                                   /\ value[from][c] = Moved
                                   /\ \A u \in MapThread : c \notin task[u]
      BY DEF MapInv, NextInv
    <2> QED BY <1>3, <2>1 DEF KeysStay, ValuesStay
  <1> QED BY <1>8, <1>9

LEMMA TasksStay ==
  ASSUME MapInv, UNCHANGED <<from, pos, task>>, KeysStay, ValuesStay, MoversStay,
         \A u \in MapThread : mpc[u] \in MigrateSteps \/ mpc'[u] \in MigrateSteps => mpc'[u] = mpc[u],
         from # NoTable => key'[2 * from] = key[2 * from]
  PROVE  TaskInv' /\ NextInv'
PROOF
  <1>1. /\ \A u \in MapThread : \A l \in {"take", "put"} : mpc'[u] = l <=> mpc[u] = l
        /\ \A u \in MapThread : mpc'[u] = "relock" => mpc[u] = "relock"
    BY DEF MigrateSteps
  <1> QED BY <1>1, TasksStayIf

(* The tables that were before the current one, and those to come. *)
LEMMA TablesStay ==
  ASSUME MapInv, UNCHANGED <<hash_map_, from>>, KeysPlaced', KeysStay, ValuesStay,
         \A i \in Table : \A c \in Cells(i) :
            /\ key'[i][c] = EmptyKey => value'[i][c] = value[i][c]
            /\ i > Current => key'[i][c] = key[i][c] /\ value'[i][c] = value[i][c],
         \A u \in MapThread : mine'[u] = mine[u] \/ mine'[u] = NoTable
  PROVE  TablesInv'
PROOF
  <1>1. Newest' = Newest /\ Current' = Current /\ Newest \in Table /\ Current <= Newest
        /\ Current \in Table
    BY TablesThere DEF Newest, Current, MapInv, Table
  <1>2. \A i \in Table : \A c \in Cells(i) :
          /\ key'[i][c] = EmptyKey => value'[i][c] \in {NoValue, Moved}
          /\ i > Newest => key'[i][c] = EmptyKey /\ value'[i][c] = NoValue
    <2> SUFFICES ASSUME NEW i \in Table, NEW c \in Cells(i)
                 PROVE  /\ key'[i][c] = EmptyKey => value'[i][c] \in {NoValue, Moved}
                        /\ i > Newest => key'[i][c] = EmptyKey /\ value'[i][c] = NoValue
      OBVIOUS
    <2>1. key'[i][c] = EmptyKey => key[i][c] = EmptyKey
      BY DEF KeysStay
    <2>2. i > Newest => i > Current
      BY <1>1 DEF Table
    <2> QED BY <2>1, <2>2 DEF MapInv, TablesInv
  <1>3. \A c \in Cells(Newest) : value'[Newest][c] # Moved
    BY <1>1 DEF MapInv, TablesInv, ValuesStay
  <1>4. \A u \in MapThread : mine'[u] # NoTable /\ mine'[u] # Current =>
          \A c \in Cells(mine'[u]) : value'[mine'[u]][c] = Moved
    BY DEF MapInv, MapTypeOK, TablesInv, ValuesStay
  <1> QED BY <1>1, <1>2, <1>3, <1>4 DEF TablesInv

(* The end of a call. *)
LEMMA ReturnKeeps ==
  ASSUME MapInv, NEW t \in MapThread, NEW v \in Nat, mpc[t] \in {"probe", "value"},
         ReturnValue(t, v), KeysStay,
         UNCHANGED <<hash_map_, migrateVars, retired, deleted, task, old, waits_for, called>>,
         \A u \in MapThread : u # t => cell'[u] = cell[u]
  PROVE  /\ mpc' \in [MapThread -> MapLabel] /\ mine' \in [MapThread -> Table \union {NoTable}]
         /\ op' \in [MapThread -> MapOp] /\ protected' \in [MapThread -> Table \union {NoTable}]
         /\ results' \in [MapKey -> SUBSET Nat]
         /\ MigrationInv' /\ HazardsInv' /\ CallsInv' /\ MoversStay
         /\ \A u \in MapThread : mine'[u] = mine[u] \/ mine'[u] = NoTable
         /\ \A u \in MapThread : mpc[u] \in MigrateSteps \/ mpc'[u] \in MigrateSteps => mpc'[u] = mpc[u]
PROOF
  <1> USE DEF ReturnValue, MapGoTo, migrateVars
  <1>1. /\ mpc' = [mpc EXCEPT ![t] = "idle"] /\ mpc \in [MapThread -> MapLabel]
        /\ mine' = [mine EXCEPT ![t] = NoTable] /\ mine \in [MapThread -> Table \union {NoTable}]
        /\ protected' = [protected EXCEPT ![t] = NoTable]
        /\ protected \in [MapThread -> Table \union {NoTable}]
        /\ op' = [op EXCEPT ![t] = NoOp] /\ op \in [MapThread -> MapOp]
        /\ results \in [MapKey -> SUBSET Nat]
    BY DEF MapInv, MapTypeOK
  <1>2. /\ \A u \in MapThread : mpc'[u] = IF u = t THEN "idle" ELSE mpc[u]
        /\ \A u \in MapThread : mine'[u] = IF u = t THEN NoTable ELSE mine[u]
        /\ \A u \in MapThread : protected'[u] = IF u = t THEN NoTable ELSE protected[u]
    BY <1>1
  <1>3. op'[t] = NoOp /\ \A u \in MapThread : u # t => op'[u] = op[u]
    BY <1>1
  <1>4. NoOp \in MapOp
    BY NoOpIsOp
  <1>5. /\ mpc' \in [MapThread -> MapLabel] /\ mine' \in [MapThread -> Table \union {NoTable}]
        /\ protected' \in [MapThread -> Table \union {NoTable}]
    BY <1>1 DEF MapLabel
  <1>6. op' \in [MapThread -> MapOp]
    BY <1>1, <1>4
  <1>7. op[t].key \in MapKey
    BY <1>1 DEF MapOp
  <1>8. results' \in [MapKey -> SUBSET Nat] /\ \A k \in MapKey : results[k] \subseteq results'[k]
    BY <1>1, <1>7
  <1>9. MigrationInv'
    BY <1>1, <1>2, MigrationKept DEF MigrateSteps
  <1>10. HazardsInv'
    BY <1>1, <1>2, TablesThere DEF MapInv, HazardsInv, Current, MigrateSteps, NoTable, Table
  <1>11. CallsInv'
    <2> SUFFICES ASSUME NEW u \in MapThread PROVE CallInv(u)'
      BY DEF CallsInv
    <2>1. CASE u # t
      BY <1>2, <1>3, <1>8, <2>1, CallStays
    <2>2. CASE u = t
      <3>1. op'[t].kind = "none" /\ op'[t].known = FALSE
        BY <1>3 DEF NoOp
      <3> QED BY <1>2, <2>2, <3>1 DEF CallInv
    <2> QED BY <2>1, <2>2
  <1>12. MoversStay
    BY <1>2 DEF MoversStay
  <1> QED BY <1>1, <1>2, <1>5, <1>6, <1>8, <1>9, <1>10, <1>11, <1>12 DEF MigrateSteps

(* A thread that probes has a table, and it is not the next one. *)
LEMMA ProbingTable ==
  ASSUME MapInv, NEW t \in MapThread, mpc[t] \in {"probe", "value"}
  PROVE  /\ mine[t] \in Table /\ mine[t] <= Current /\ op[t] \in MapOp /\ op[t].key \in MapKey
         /\ op[t].kind \in {"insert", "find"} /\ op[t].key # EmptyKey
         /\ from # NoTable => mine[t] # 2 * from
         /\ mine[t] # Current => \A c \in Cells(mine[t]) : value[mine[t]][c] = Moved
PROOF
  <1>1. mine[t] \in Table /\ mine[t] <= Current
    BY DEF MapInv, HazardsInv, MapTypeOK
  <1>2. op[t] \in MapOp /\ op[t].kind # "none"
    BY DEF MapInv, CallsInv, CallInv, MapTypeOK
  <1>3. from # NoTable => mine[t] # 2 * from
    BY <1>1, TablesThere DEF MapInv, Table, NoTable
  <1>4. mine[t] # Current => \A c \in Cells(mine[t]) : value[mine[t]][c] = Moved
    BY <1>1 DEF MapInv, TablesInv, Table, NoTable
  <1> QED BY <1>1, <1>2, <1>3, <1>4, KeyIsPositive DEF MapOp

(* A probe adds a key where a later one for the same key finds it. *)
LEMMA ProbeKeeps ==
  ASSUME MapInv, NEW t \in MapThread, Probe(t)
  PROVE  MapInv'
PROOF
  <1> DEFINE i == mine[t]
             k == op[t].key
             c == Found(i, k)
             none == Steps(i, k) = {} \/ (key[i][c] = EmptyKey /\ op[t].kind = "find")
  <1>1. /\ mpc[t] = "probe" /\ mpc \in [MapThread -> MapLabel] /\ cell \in [MapThread -> Nat]
        /\ UNCHANGED <<hash_map_, value, from, cnt, generation, pos, retired, deleted, task, old,
                       waits_for, called>>
    BY DEF Probe, MapInv, MapTypeOK, migrateVars
  <1>2. /\ i \in Table /\ i <= Current /\ op[t] \in MapOp /\ k \in MapKey
        /\ op[t].kind \in {"insert", "find"} /\ k # EmptyKey
        /\ from # NoTable => i # 2 * from
        /\ TablesOK /\ KeysPlaced /\ CallInv(t)
    BY <1>1, ProbingTable DEF MapInv, MapTypeOK, TablesInv, CallsInv
  <1>3. CASE none /\ op[t].kind = "find"
    <2>1. /\ ReturnValue(t, op[t].value) /\ UNCHANGED <<key, cell>>
      BY <1>3 DEF Probe
    <2>2. op[t].value \in {NoValue, Moved} /\ op[t].value \in Nat
      BY <1>2, <1>3 DEF CallInv, MapOp
    <2>3. ~op[t].known
      <3> SUFFICES ASSUME op[t].known PROVE FALSE
        OBVIOUS
      <3>1. PICK d \in Cells(i) : key[i][d] = k
        BY <1>2 DEF CallInv, Table, NoTable
      <3>2. Steps(i, k) # {} /\ c = d
        BY <1>2, <3>1, FoundItsPlace
      <3> QED BY <1>2, <1>3, <3>1, <3>2
    <2>4. UNCHANGED results
      BY <2>1, <2>2, <2>3 DEF ReturnValue
    <2>5. KeysStay /\ ValuesStay /\ UNCHANGED <<migrateVars>>
      BY <1>1, <2>1 DEF KeysStay, ValuesStay, migrateVars
    <2>6. /\ mpc' \in [MapThread -> MapLabel] /\ mine' \in [MapThread -> Table \union {NoTable}]
          /\ op' \in [MapThread -> MapOp] /\ protected' \in [MapThread -> Table \union {NoTable}]
          /\ results' \in [MapKey -> SUBSET Nat]
          /\ MigrationInv' /\ HazardsInv' /\ CallsInv' /\ MoversStay
          /\ \A u \in MapThread : mine'[u] = mine[u] \/ mine'[u] = NoTable
          /\ \A u \in MapThread :
               mpc[u] \in MigrateSteps \/ mpc'[u] \in MigrateSteps => mpc'[u] = mpc[u]
      BY <1>1, <2>1, <2>2, <2>5, ReturnKeeps
    <2>7. MapTypeOK'
      BY <1>1, <2>1, <2>6 DEF MapInv, MapTypeOK, TablesOK
    <2>8. TaskInv' /\ NextInv'
      BY <1>1, <2>1, <2>5, <2>6, TasksStay
    <2>9. TablesInv'
      BY <1>1, <2>1, <2>5, <2>6, TablesStay DEF MapInv, TablesInv, KeysPlaced
    <2>10. ResultsHold'
      BY <1>1, <2>1, <2>4, <2>5, <2>6, HoldsStay DEF MapInv, ResultsHold
    <2> QED BY <2>6, <2>7, <2>8, <2>9, <2>10 DEF MapInv
  <1>4. CASE ~(none /\ op[t].kind = "find")
    <2> DEFINE next == IF none THEN "lock" ELSE "value"
    <2>1. /\ mpc' = [mpc EXCEPT ![t] = next] /\ UNCHANGED <<results, protected, mine, op>>
          /\ IF none THEN UNCHANGED <<key, cell>>
             ELSE KeyPut(i, k) /\ cell' = [cell EXCEPT ![t] = c]
      BY <1>2, <1>4 DEF Probe, MapGoTo, KeyPut
    <2>2. ~none => Steps(i, k) # {} /\ c \in Cells(i) /\ key[i][c] \in {EmptyKey, k}
      BY <1>2, FoundIsPlaced
    <2>3. /\ DOMAIN key' = Table
          /\ \A j \in Table : key'[j] \in [Cells(j) -> MapKey \union {EmptyKey}]
          /\ KeysStay
          /\ \A j \in Table : j # i => key'[j] = key[j]
          /\ ~none => key'[i][c] = k
          /\ KeysPlaced'
      <3>1. CASE none
        BY <1>2, <2>1, <3>1 DEF TablesOK, KeysStay, KeysPlaced
      <3>2. CASE ~none
        BY <1>2, <2>1, <2>2, <3>2, KeyAdded DEF KeysStay
      <3> QED BY <3>1, <3>2
    <2>4. /\ \A u \in MapThread : mpc'[u] = IF u = t THEN next ELSE mpc[u]
          /\ \A u \in MapThread : u # t => cell'[u] = cell[u]
          /\ mpc' \in [MapThread -> MapLabel] /\ cell' \in [MapThread -> Nat]
          /\ ~none => cell'[t] = c
      <3>1. ~none => c \in Nat
        BY <2>2 DEF Cells
      <3>2. next \in MapLabel
        BY DEF MapLabel
      <3> HIDE DEF c, none, next
      <3> QED BY <1>1, <2>1, <3>1, <3>2
    <2>5. ValuesStay /\ MoversStay
      BY <1>1, <2>4 DEF ValuesStay, MoversStay
    <2>6. MapTypeOK'
      BY <1>1, <2>1, <2>3, <2>4 DEF MapInv, MapTypeOK, TablesOK
    <2>7. MigrationInv'
      BY <1>1, <2>4, MigrationKept DEF MigrateSteps
    <2>8. TaskInv' /\ NextInv'
      <3>1. from # NoTable => key'[2 * from] = key[2 * from]
        BY <1>2, <2>3, TablesThere DEF MapInv
      <3> HIDE DEF none
      <3> QED BY <1>1, <2>3, <2>4, <2>5, <3>1, TasksStay DEF MigrateSteps
    <2>9. HazardsInv'
      <3> HIDE DEF none
      <3> QED BY <1>1, <2>1, <2>4 DEF MapInv, HazardsInv, Current, MigrateSteps
    <2>10. TablesInv'
      <3>1. \A j \in Table : j > Current => key'[j] = key[j]
        BY <1>2, <2>3, TablesThere DEF MapInv, Table
      <3> QED BY <1>1, <2>1, <2>3, <2>5, <3>1, TablesStay
    <2>11. CallsInv'
      <3> SUFFICES ASSUME NEW u \in MapThread PROVE CallInv(u)'
        BY DEF CallsInv
      <3>1. CASE u # t
        BY <1>1, <2>1, <2>3, <2>4, <3>1, CallStays
      <3>2. CASE u = t
        <4>1. op[t].known => results[k] # {}
          BY <1>2 DEF CallInv
        <4>2. op[t].known => \E d \in Cells(i) : key'[i][d] = k
          BY <1>2, <2>3 DEF CallInv, KeysStay, Table, NoTable
        <4>3. ~none => cell'[t] \in Cells(i) /\ key'[i][cell'[t]] = k
          BY <2>2, <2>3, <2>4
        <4>4. mpc'[t] = next
          BY <2>4
        <4>5. /\ op[t].kind # "none" /\ (op[t].kind = "insert" => op[t].value > 1)
              /\ (op[t].kind = "find" => op[t].value \in {NoValue, Moved})
          BY <1>2 DEF CallInv
        <4>6. mpc'[t] = "value" => ~none
          BY <4>4
        <4>7. mpc'[t] # "idle"
          BY <4>4
        <4> HIDE DEF none, next
        <4> QED BY <2>1, <3>2, <4>1, <4>2, <4>3, <4>5, <4>6, <4>7 DEF CallInv
      <3> QED BY <3>1, <3>2
    <2>12. ResultsHold'
      BY <1>1, <2>1, <2>3, <2>5, HoldsStay DEF MapInv, ResultsHold
    <2> QED BY <2>6, <2>7, <2>8, <2>9, <2>10, <2>11, <2>12 DEF MapInv
  <1> QED BY <1>3, <1>4

(* A call that gets a value gets the one its key holds, or gives it one. *)
LEMMA UseValueKeeps ==
  ASSUME MapInv, NEW t \in MapThread, UseValue(t)
  PROVE  MapInv'
PROOF
  <1> DEFINE i == mine[t]
             k == op[t].key
             c == cell[t]
             v == value[i][c]
             w == IF v = NoValue /\ op[t].kind = "insert" THEN op[t].value ELSE v
  <1>1. /\ mpc[t] = "value" /\ mpc \in [MapThread -> MapLabel] /\ cell \in [MapThread -> Nat]
        /\ value' = [value EXCEPT ![i][c] = w]
        /\ cell' = [cell EXCEPT ![t] = 0]
        /\ UNCHANGED <<hash_map_, key, migrateVars, from, cnt, generation, pos, retired, deleted,
                       task, old, waits_for, called>>
    BY DEF UseValue, MapInv, MapTypeOK, migrateVars
  <1>2. /\ i \in Table /\ i <= Current /\ op[t] \in MapOp /\ k \in MapKey
        /\ op[t].kind \in {"insert", "find"} /\ k # EmptyKey
        /\ from # NoTable => i # 2 * from
        /\ i # Current => \A d \in Cells(i) : value[i][d] = Moved
        /\ TablesOK /\ KeysPlaced /\ CallInv(t)
    BY <1>1, ProbingTable DEF MapInv, MapTypeOK, TablesInv, CallsInv
  <1>3. c \in Cells(i) /\ key[i][c] = k /\ v \in Nat
    <2>1. c \in Cells(i) /\ key[i][c] = k
      BY <1>1, <1>2 DEF CallInv
    <2> QED BY <1>2, <2>1 DEF TablesOK
  <1>4. w \in Nat /\ (w = Moved <=> v = Moved) /\ (v \notin {NoValue, Moved} => w = v)
        /\ (w # v => v = NoValue)
    BY <1>2, <1>3 DEF CallInv, MapOp, Moved, NoValue
  <1>5. /\ DOMAIN value' = Table
        /\ \A j \in Table : value'[j] \in [Cells(j) -> Nat]
        /\ \A j \in Table : \A d \in Cells(j) :
             value'[j][d] = IF j = i /\ d = c THEN w ELSE value[j][d]
    <2> HIDE DEF i, c, w
    <2>1. value' = [value EXCEPT ![i] = [value[i] EXCEPT ![c] = w]]
      BY <1>1
    <2>2. \A j \in Table : value'[j] = IF j = i THEN [value[i] EXCEPT ![c] = w] ELSE value[j]
      BY <1>2, <2>1 DEF TablesOK
    <2>3. DOMAIN value' = Table
      BY <1>2, <2>1 DEF TablesOK
    <2>4. \A j \in Table : value'[j] \in [Cells(j) -> Nat]
      BY <1>2, <1>4, <2>2 DEF TablesOK
    <2>5. \A j \in Table : \A d \in Cells(j) :
             value'[j][d] = IF j = i /\ d = c THEN w ELSE value[j][d]
      BY <1>2, <2>2 DEF TablesOK
    <2> QED BY <2>3, <2>4, <2>5
  <1>6. KeysStay /\ ValuesStay
    <2>1. KeysStay
      BY <1>1 DEF KeysStay
    <2>2. ValuesStay
      <3> HIDE DEF i, c, w
      <3> QED BY <1>3, <1>4, <1>5 DEF ValuesStay, v
    <2> QED BY <2>1, <2>2
  <1>7. /\ KeysPlaced'
        /\ \A j \in Table : \A d \in Cells(j) :
             /\ key'[j][d] = EmptyKey => value'[j][d] = value[j][d]
             /\ j > Current => key'[j][d] = key[j][d] /\ value'[j][d] = value[j][d]
    <2>1. KeysPlaced'
      BY <1>1, <1>2 DEF KeysPlaced
    <2>2. i \in Nat /\ Current \in Nat
      BY <1>2, TablesThere DEF MapInv, Table
    <2> HIDE DEF i, c, w, k
    <2> QED BY <1>1, <1>2, <1>3, <1>5, <2>1, <2>2
  <1>8. \A u \in MapThread : u # t => cell'[u] = cell[u]
    BY <1>1
  <1>9. cell' \in [MapThread -> Nat]
    BY <1>1
  <1>10. CASE v = Moved
    <2>1. /\ mpc' = [mpc EXCEPT ![t] = "lock"] /\ UNCHANGED <<results, protected, mine>>
          /\ op' = IF op[t].kind = "find" THEN [op EXCEPT ![t].value = Moved] ELSE op
      BY <1>10 DEF UseValue, MapGoTo
    <2>2. \A u \in MapThread : mpc'[u] = IF u = t THEN "lock" ELSE mpc[u]
      BY <1>1, <2>1
    <2>3. mpc' \in [MapThread -> MapLabel]
      BY <1>1, <2>1 DEF MapLabel
    <2>4. /\ op' \in [MapThread -> MapOp]
          /\ \A u \in MapThread : u # t => op'[u] = op[u]
          /\ op'[t].key = op[t].key /\ op'[t].kind = op[t].kind /\ (op'[t].known <=> op[t].known)
          /\ op[t].kind = "find" => op'[t].value = Moved
          /\ op[t].kind # "find" => op'[t].value = op[t].value
      <3>0. op \in [MapThread -> MapOp] /\ op[t] \in MapOp
        BY DEF MapInv, MapTypeOK
      <3>1. CASE op[t].kind # "find"
        BY <2>1, <3>0, <3>1
      <3>2. CASE op[t].kind = "find"
        <4>1. op' = [op EXCEPT ![t] = [op[t] EXCEPT !.value = Moved]]
          BY <2>1, <3>2
        <4>2. [op[t] EXCEPT !.value = Moved] \in MapOp
          BY <3>0 DEF MapOp, Moved
        <4>3. op'[t] = [op[t] EXCEPT !.value = Moved]
          BY <3>0, <4>1
        <4>4. op' \in [MapThread -> MapOp] /\ \A u \in MapThread : u # t => op'[u] = op[u]
          BY <3>0, <4>1, <4>2
        <4>5. /\ op'[t].key = op[t].key /\ op'[t].kind = op[t].kind /\ op'[t].known = op[t].known
              /\ op'[t].value = Moved
          BY <3>0, <4>3 DEF MapOp
        <4> QED BY <3>2, <4>4, <4>5
      <3> QED BY <3>1, <3>2
    <2>5. MoversStay
      BY <1>1, <1>8, <2>2 DEF MoversStay
    <2>6. MapTypeOK'
      BY <1>1, <1>2, <1>5, <1>9, <2>1, <2>3, <2>4 DEF MapInv, MapTypeOK, TablesOK
    <2>7. MigrationInv'
      BY <1>1, <2>2, MigrationKept DEF MigrateSteps
    <2>8. TaskInv' /\ NextInv'
      BY <1>1, <1>6, <2>2, <2>5, TasksStay DEF MigrateSteps
    <2>9. HazardsInv'
      BY <1>1, <2>1, <2>2 DEF MapInv, HazardsInv, Current, MigrateSteps
    <2>10. TablesInv'
      BY <1>1, <1>6, <1>7, <2>1, TablesStay
    <2>11. i # hash_map_
      BY <1>2, <1>3, <1>10, TablesThere DEF MapInv, TablesInv, MigrationInv, Table, NoTable
    <2>12. CallsInv'
      <3> SUFFICES ASSUME NEW u \in MapThread PROVE CallInv(u)'
        BY DEF CallsInv
      <3>1. CASE u # t
        BY <1>1, <1>6, <1>8, <2>1, <2>2, <2>4, <3>1, CallStays
      <3>2. CASE u = t
        BY <1>1, <1>2, <2>1, <2>2, <2>4, <2>11, <3>2 DEF CallInv
      <3> QED BY <3>1, <3>2
    <2>13. ResultsHold'
      BY <1>1, <1>6, <2>1, <2>5, HoldsStay DEF MapInv, ResultsHold
    <2> QED BY <2>6, <2>7, <2>8, <2>9, <2>10, <2>12, <2>13 DEF MapInv
  <1>11. CASE v # Moved
    <2>1. ReturnValue(t, w)
      BY <1>11 DEF UseValue
    <2>2. i = Current
      BY <1>2, <1>3, <1>11
    <2>3. \A x : Holds(k, x) => x = v
      <3> SUFFICES ASSUME NEW x, Holds(k, x) PROVE x = v
        OBVIOUS
      <3>1. CASE InTable(Current, k, x)
        <4>1. PICK d \in Cells(i) : key[i][d] = k /\ value[i][d] = x
          BY <2>2, <3>1 DEF InTable
        <4>2. d = c
          BY <1>2, <1>3, <4>1, OnePlace
        <4> QED BY <4>1, <4>2
      <3>2. CASE from # NoTable /\ (UnderWay(k, x) \/ InTable(2 * from, k, x))
        <4>1. PICK d \in Cells(from) : key[from][d] = k /\ value[from][d] = Moved
          BY <1>2, <3>2, MovedKey
        <4>2. from = i
          BY <2>2, <3>2, TablesThere DEF MapInv
        <4>3. d = c
          BY <1>2, <1>3, <4>1, <4>2, OnePlace
        <4> QED BY <1>11, <4>1, <4>2, <4>3
      <3> QED BY <3>1, <3>2 DEF Holds
    <2>4. v = NoValue => results[k] = {} /\ ~op[t].known
      <3>1. v = NoValue => results[k] = {}
        BY <1>2, <2>3 DEF MapInv, ResultsHold, Holds
      <3> QED BY <1>2, <3>1 DEF CallInv
    <2>5. /\ mpc' \in [MapThread -> MapLabel] /\ mine' \in [MapThread -> Table \union {NoTable}]
          /\ op' \in [MapThread -> MapOp] /\ protected' \in [MapThread -> Table \union {NoTable}]
          /\ results' \in [MapKey -> SUBSET Nat]
          /\ MigrationInv' /\ HazardsInv' /\ CallsInv' /\ MoversStay
          /\ \A u \in MapThread : mine'[u] = mine[u] \/ mine'[u] = NoTable
          /\ \A u \in MapThread :
               mpc[u] \in MigrateSteps \/ mpc'[u] \in MigrateSteps => mpc'[u] = mpc[u]
      <3> HIDE DEF w
      <3> QED BY <1>1, <1>4, <1>6, <1>8, <2>1, ReturnKeeps
    <2>6. MapTypeOK'
      BY <1>1, <1>2, <1>5, <1>9, <2>5 DEF MapInv, MapTypeOK, TablesOK
    <2>7. TaskInv' /\ NextInv'
      BY <1>1, <1>6, <2>5, TasksStay
    <2>8. TablesInv'
      BY <1>1, <1>6, <1>7, <2>5, TablesStay
    <2>9. \A l \in MapKey : \A x : Holds(l, x) => Holds(l, x)'
      BY <1>1, <1>6, <2>5, HoldsStay
    <2>10. ASSUME w # NoValue, NEW l, l = k, NEW x, x = w PROVE Holds(l, x)'
      <3>1. Current' = i
        BY <1>1, <2>2 DEF Current
      <3>2. value'[i][c] = w
        BY <1>2, <1>3, <1>5
      <3>3. c \in Cells(Current') /\ key'[Current'][c] = l /\ value'[Current'][c] = x
            /\ x \notin {NoValue, Moved}
        BY <1>1, <1>3, <1>4, <1>11, <2>10, <3>1, <3>2
      <3> HIDE DEF w, c, i, v, k
      <3> QED BY <3>3 DEF Holds, InTable
    <2>11. ResultsHold'
      <3> SUFFICES ASSUME NEW l \in MapKey, NEW x \in results'[l] PROVE Holds(l, x)'
        BY DEF ResultsHold
      <3>1. CASE x \in results[l]
        BY <2>9, <3>1 DEF MapInv, ResultsHold
      <3>2. CASE x \notin results[l]
        BY <1>2, <1>4, <2>1, <2>4, <2>10, <3>2 DEF ReturnValue, MapInv, MapTypeOK
      <3> QED BY <3>1, <3>2
    <2> QED BY <2>5, <2>6, <2>7, <2>8, <2>11 DEF MapInv
  <1> QED BY <1>10, <1>11

-----------------------------------------------------------------------------
(* The migration *)

(* The first thread to come begins the migration; the next table is new.       *)
LEMMA LockToMigrateKeeps ==
  ASSUME MapInv, NEW t \in MapThread, LockToMigrate(t)
  PROVE  MapInv'
PROOF
  <1>1. /\ mpc[t] = "lock" /\ mpc \in [MapThread -> MapLabel]
        /\ mine' = [mine EXCEPT ![t] = NoTable] /\ mine \in [MapThread -> Table \union {NoTable}]
        /\ waits_for \in [MapThread -> Nat]
        /\ UNCHANGED <<key, value, protected, retired, deleted, op, cell, task, old, called, results>>
    BY DEF LockToMigrate, MapInv, MapTypeOK, tables, retireVars
  <1>2. \A u \in MapThread : mine'[u] = IF u = t THEN NoTable ELSE mine[u]
    BY <1>1
  <1>3. mine' \in [MapThread -> Table \union {NoTable}]
    BY <1>1
  <1>4. TablesOK' /\ KeysStay /\ ValuesStay /\ KeysPlaced'
    BY <1>1 DEF MapInv, MapTypeOK, TablesInv, TablesOK, KeysPlaced, KeysStay, ValuesStay
  <1>5. CASE hash_map_ # mine[t]
    <2>1. mpc' = [mpc EXCEPT ![t] = "protect"]
          /\ UNCHANGED <<hash_map_, from, cnt, generation, pos, waits_for>>
      BY <1>5 DEF LockToMigrate, MapGoTo, migrateVars
    <2>2. /\ \A u \in MapThread : mpc'[u] = IF u = t THEN "protect" ELSE mpc[u]
          /\ mpc' \in [MapThread -> MapLabel]
      BY <1>1, <2>1 DEF MapLabel
    <2>3. MapTypeOK'
      BY <1>1, <1>3, <1>4, <2>1, <2>2 DEF MapInv, MapTypeOK
    <2>4. MigrationInv'
      BY <1>1, <2>1, <2>2, MigrationKept DEF MigrateSteps
    <2>5. MoversStay
      BY <1>1, <2>2 DEF MoversStay
    <2>6. TaskInv' /\ NextInv'
      BY <1>1, <1>4, <2>1, <2>2, <2>5, TasksStay DEF MigrateSteps
    <2>7. HazardsInv'
      BY <1>1, <1>2, <2>1, <2>2, TablesThere
         DEF MapInv, HazardsInv, Current, MigrateSteps, NoTable, Table
    <2>8. TablesInv'
      BY <1>1, <1>2, <1>4, <2>1, TablesStay
    <2>9. CallsInv'
      <3> SUFFICES ASSUME NEW u \in MapThread PROVE CallInv(u)'
        BY DEF CallsInv
      <3>1. CASE u # t
        BY <1>1, <1>2, <1>4, <2>1, <2>2, <3>1, CallStays
      <3>2. CASE u = t
        BY <1>1, <1>2, <2>2, <3>2 DEF CallInv, MapInv, CallsInv
      <3> QED BY <3>1, <3>2
    <2>10. ResultsHold'
      BY <1>1, <1>4, <2>1, <2>5, HoldsStay DEF MapInv, ResultsHold
    <2> QED BY <2>3, <2>4, <2>6, <2>7, <2>8, <2>9, <2>10 DEF MapInv
  <1>6. CASE hash_map_ = mine[t]
    <2>1. /\ InitMigrate /\ cnt' = cnt + 1 /\ mpc' = [mpc EXCEPT ![t] = "task"]
          /\ waits_for' = [waits_for EXCEPT ![t] = generation']
      BY <1>6 DEF LockToMigrate, MapGoTo
    <2>2. /\ \A u \in MapThread : mpc'[u] = IF u = t THEN "task" ELSE mpc[u]
          /\ \A u \in MapThread : waits_for'[u] = IF u = t THEN generation' ELSE waits_for[u]
          /\ mpc' \in [MapThread -> MapLabel]
      BY <1>1, <2>1 DEF MapLabel, MigrateSteps
    <2>3. Migrating' = Migrating \union {t} /\ t \notin Migrating
      BY <1>1, <2>2 DEF Migrating, MigrateSteps
    <2>4. cnt' = Cardinality(Migrating') /\ cnt' # 0 /\ cnt' \in Nat
      <3>1. cnt = Cardinality(Migrating) /\ cnt \in Nat /\ IsFiniteSet(Migrating)
        BY MigratingThreads DEF MapInv, MigrationInv, MapTypeOK
      <3>2. Cardinality(Migrating \union {t}) = Cardinality(Migrating) + 1
        BY <2>3, <3>1, FS_AddElement
      <3> QED BY <2>1, <2>3, <3>1, <3>2
    <2>5. MoversStay
      BY <1>1, <2>2 DEF MoversStay
    <2>6. /\ \A u \in MapThread : \A l \in {"take", "put"} : mpc'[u] = l <=> mpc[u] = l
          /\ \A u \in MapThread : mpc'[u] = "relock" => mpc[u] = "relock"
      BY <1>1, <2>2
    <2>7. CASE from # NoTable
      <3>1. UNCHANGED <<hash_map_, from, generation, pos>>
        BY <2>1, <2>7 DEF InitMigrate
      <3>2. waits_for' \in [MapThread -> Nat]
        BY <1>1, <2>1, <3>1 DEF MapInv, MapTypeOK
      <3>3. MapTypeOK'
        BY <1>1, <1>3, <1>4, <2>2, <2>4, <3>1, <3>2 DEF MapInv, MapTypeOK
      <3>4. MigrationInv'
        <4>1. \A u \in MapThread :
                /\ mpc'[u] \in MigrateSteps => waits_for'[u] = generation'
                /\ mpc'[u] = "wait" =>
                     waits_for'[u] <= generation' /\ (waits_for'[u] = generation' => from' # NoTable)
          BY <2>2, <3>1 DEF MapInv, MigrationInv
        <4>2. Newest' = Newest
          BY <3>1 DEF Newest
        <4> QED BY <2>4, <2>7, <3>1, <4>1, <4>2 DEF MapInv, MigrationInv
      <3>5. TaskInv' /\ NextInv'
        BY <1>1, <1>4, <2>5, <2>6, <3>1, TasksStayIf
      <3>6. HazardsInv'
        BY <1>1, <1>2, <2>2, <3>1, TablesThere
           DEF MapInv, HazardsInv, Current, MigrateSteps, NoTable, Table
      <3>7. TablesInv'
        BY <1>1, <1>2, <1>4, <3>1, TablesStay
      <3>8. CallsInv'
        <4> SUFFICES ASSUME NEW u \in MapThread PROVE CallInv(u)'
          BY DEF CallsInv
        <4>1. CASE u # t
          BY <1>1, <1>2, <1>4, <2>2, <3>1, <4>1, CallStays
        <4>2. CASE u = t
          BY <1>1, <1>2, <2>2, <4>2 DEF CallInv, MapInv, CallsInv
        <4> QED BY <4>1, <4>2
      <3>9. ResultsHold'
        BY <1>1, <1>4, <2>5, <3>1, HoldsStay DEF MapInv, ResultsHold
      <3> QED BY <3>3, <3>4, <3>5, <3>6, <3>7, <3>8, <3>9 DEF MapInv
    <2>8. CASE from = NoTable
      <3> DEFINE i == hash_map_
      <3>1. /\ from' = i /\ hash_map_' = NoTable /\ generation' = generation + 1 /\ pos' = 0
            /\ i \in Table /\ Current = i /\ Newest = i /\ generation \in Nat
        BY <2>1, <2>8, TablesThere DEF InitMigrate, MapInv, MapTypeOK
      <3>2. 2 * i \in Table /\ i # NoTable /\ i < 2 * i
        BY <2>1, <2>8, <3>1 DEF InitMigrate, Table, NoTable
      <3>3. Migrating = {}
        BY <2>8, MigratingThreads
      <3>4. \A u \in MapThread : mpc[u] \notin MigrateSteps /\ task[u] = {}
        BY <3>3 DEF Migrating, MigrateSteps, MapInv, TaskInv
      <3> HIDE DEF i
      <3>5. waits_for' \in [MapThread -> Nat]
        BY <1>1, <2>1, <3>1
      <3>6. MapTypeOK'
        BY <1>1, <1>3, <1>4, <2>2, <2>4, <3>1, <3>5 DEF MapInv, MapTypeOK
      <3>7. Current' = i /\ Newest' = 2 * i
        BY <3>1, <3>2 DEF Current, Newest
      <3>8. MigrationInv'
        <4>1. \A u \in MapThread :
                /\ mpc'[u] \in MigrateSteps => waits_for'[u] = generation'
                /\ mpc'[u] = "wait" =>
                     waits_for'[u] <= generation' /\ (waits_for'[u] = generation' => from' # NoTable)
          BY <1>1, <2>2, <3>1, <3>2, <3>4 DEF MapInv, MigrationInv
        <4> QED BY <2>4, <3>1, <3>2, <3>7, <4>1 DEF MigrationInv
      <3>9. TaskInv'
        <4>1. \A u \in MapThread : mpc'[u] \notin {"take", "put", "relock"} /\ task'[u] = {}
          BY <1>1, <2>2, <3>4 DEF MigrateSteps
        <4>2. \A d \in Cells(i) : value'[i][d] # Moved /\ ~(d < 0 * ChunkSize)
          BY <1>1, <3>1, MapAssumption DEF MapInv, TablesInv, Cells, Table
        <4> QED BY <3>1, <4>1, <4>2 DEF TaskInv
      <3>10. NextInv'
        BY <1>1, <3>1, <3>2 DEF MapInv, TablesInv, NextInv, Table
      <3>11. HazardsInv'
        BY <1>1, <1>2, <2>2, <3>1, <3>7, TablesThere
           DEF MapInv, HazardsInv, MigrateSteps, NoTable, Table
      <3>12. TablesInv'
        <4>1. \A j \in Table : \A c \in Cells(j) :
                /\ key'[j][c] = EmptyKey => value'[j][c] \in {NoValue, Moved}
                /\ j > Newest' => key'[j][c] = EmptyKey /\ value'[j][c] = NoValue
          BY <1>1, <3>1, <3>2, <3>7 DEF MapInv, TablesInv, Table
        <4>2. \A c \in Cells(Newest') : value'[Newest'][c] # Moved
          BY <1>1, <3>1, <3>2, <3>7 DEF MapInv, TablesInv, Table, NoValue, Moved
        <4>3. \A u \in MapThread : mine'[u] # NoTable /\ mine'[u] # Current' =>
                \A c \in Cells(mine'[u]) : value'[mine'[u]][c] = Moved
          BY <1>1, <1>2, <3>1, <3>7 DEF MapInv, TablesInv
        <4> QED BY <1>4, <4>1, <4>2, <4>3 DEF TablesInv
      <3>13. CallsInv'
        <4> SUFFICES ASSUME NEW u \in MapThread PROVE CallInv(u)'
          BY DEF CallsInv
        <4>1. CASE u # t
          BY <1>1, <1>2, <1>4, <2>2, <3>1, <4>1, CallStays
        <4>2. CASE u = t
          BY <1>1, <1>2, <2>2, <4>2 DEF CallInv, MapInv, CallsInv
        <4> QED BY <4>1, <4>2
      <3>14. ResultsHold'
        <4> SUFFICES ASSUME NEW k \in MapKey, NEW v \in results[k] PROVE Holds(k, v)'
          BY <1>1 DEF ResultsHold
        <4>1. v \notin {NoValue, Moved} /\ InTable(i, k, v)
          BY <2>8, <3>1 DEF MapInv, ResultsHold, Holds
        <4> QED BY <1>1, <3>7, <4>1 DEF Holds, InTable
      <3> QED BY <3>6, <3>8, <3>9, <3>10, <3>11, <3>12, <3>13, <3>14 DEF MapInv
    <2> QED BY <2>7, <2>8
  <1> QED BY <1>5, <1>6


(* What a thread in a migration finds. *)
LEMMA MigratingThread ==
  ASSUME MapInv, NEW t \in MapThread, mpc[t] \in MigrateSteps
  PROVE  /\ from # NoTable /\ from \in Table /\ 2 * from \in Table /\ from # 2 * from
         /\ Current = from /\ Newest = 2 * from /\ hash_map_ = NoTable /\ mine[t] = NoTable
         /\ waits_for[t] = generation
PROOF
  <1>1. from # NoTable
    BY MigratingThreads DEF Migrating
  <1>2. hash_map_ = NoTable /\ mine[t] = NoTable /\ waits_for[t] = generation
    BY <1>1 DEF MapInv, MigrationInv, HazardsInv
  <1> QED BY <1>1, <1>2, TablesThere DEF MapInv

(* A thread goes from one step of the migration to another. *)
MovesOn(t) ==
  /\ mpc[t] \in MigrateSteps
  /\ \A u \in MapThread : u # t => mpc'[u] = mpc[u] /\ cell'[u] = cell[u] /\ old'[u] = old[u]
                                   /\ task'[u] = task[u]
  /\ mpc'[t] \in MigrateSteps
  /\ UNCHANGED <<hash_map_, from, cnt, generation, protected, retired, deleted, mine, op,
                 waits_for, called, results>>

(* Its steps do not concern the other calls. *)
LEMMA OthersKept ==
  ASSUME MapInv, NEW t \in MapThread, MovesOn(t), KeysStay
  PROVE  MigrationInv' /\ HazardsInv' /\ CallsInv'
PROOF
  <1>1. \A u \in MapThread : mpc'[u] # mpc[u] => mpc[u] \in MigrateSteps /\ mpc'[u] \in MigrateSteps
    BY DEF MovesOn
  <1>2. MigrationInv'
    BY <1>1, MigrationKept DEF MovesOn, MigrateSteps
  <1>3. HazardsInv'
    <2>1. \A u \in MapThread :
            /\ mpc'[u] \in {"probe", "value"} => mpc[u] \in {"probe", "value"}
            /\ mpc'[u] = "protect" => mpc[u] = "protect"
            /\ mpc'[u] \in MigrateSteps \union {"wait"} => mpc[u] \in MigrateSteps \union {"wait"}
      BY <1>1 DEF MigrateSteps
    <2> QED BY <2>1 DEF MovesOn, MapInv, HazardsInv, Current
  <1>4. CallsInv'
    <2> SUFFICES ASSUME NEW u \in MapThread PROVE CallInv(u)'
      BY DEF CallsInv
    <2>1. CASE u # t
      BY <2>1, CallStays DEF MovesOn
    <2>2. CASE u = t
      <3>1. CallInv(t) /\ mine[t] = NoTable
        BY MigratingThread DEF MapInv, CallsInv, MovesOn
      <3> QED BY <2>2, <3>1 DEF CallInv, MovesOn, MigrateSteps
    <2> QED BY <2>1, <2>2
  <1> QED BY <1>2, <1>3, <1>4

LEMMA NextChunk ==
  ASSUME pos \in Nat
  PROVE  /\ pos * ChunkSize \in Nat /\ (pos + 1) * ChunkSize = pos * ChunkSize + ChunkSize
         /\ ChunkSize \in Nat \ {0}
PROOF BY MapAssumption

(* A task is the cells between pos and the next pos: no other thread has them. *)
LEMMA TakeTaskKeeps ==
  ASSUME MapInv, NEW t \in MapThread, TakeTask(t)
  PROVE  MapInv'
PROOF
  <1> DEFINE begin == pos * ChunkSize
             chunk == {c \in Cells(from) : begin <= c /\ c < begin + ChunkSize}
             next == IF chunk = {} THEN "relock" ELSE "take"
  <1>1. /\ mpc[t] = "task" /\ mpc \in [MapThread -> MapLabel] /\ pos' = pos + 1 /\ pos \in Nat
        /\ task' = [task EXCEPT ![t] = chunk] /\ task \in [MapThread -> SUBSET Nat]
        /\ mpc' = [mpc EXCEPT ![t] = IF task'[t] = {} THEN "relock" ELSE "take"]
        /\ UNCHANGED <<hash_map_, key, value, from, cnt, generation, protected, retired, deleted,
                       mine, op, cell, old, waits_for, called, results>>
    BY DEF TakeTask, MapGoTo, MapInv, MapTypeOK, tables, retireVars
  <1>2. /\ from # NoTable /\ from \in Table /\ 2 * from \in Table
        /\ begin \in Nat /\ pos' * ChunkSize = begin + ChunkSize /\ ChunkSize \in Nat \ {0}
        /\ task[t] = {}
    BY <1>1, MigratingThread, NextChunk DEF MigrateSteps, MapInv, TaskInv
  <1>3. task'[t] = chunk /\ \A u \in MapThread : u # t => task'[u] = task[u]
    BY <1>1
  <1>4. mpc'[t] = next /\ \A u \in MapThread : u # t => mpc'[u] = mpc[u]
    BY <1>1, <1>3
  <1>5. /\ \A c \in chunk : c \in Nat /\ c \in Cells(from) /\ begin <= c /\ c < begin + ChunkSize
        /\ chunk \in SUBSET Nat
        /\ chunk = {} => from <= begin
    <2>1. \A c \in chunk : c \in Nat /\ c \in Cells(from)
      BY DEF Cells
    <2>2. ~(from <= begin) => begin \in chunk
      BY <1>2 DEF Cells, Table
    <2> QED BY <2>1, <2>2
  <1> HIDE DEF begin, chunk
  <1>6. MapTypeOK'
    <2>1. task' \in [MapThread -> SUBSET Nat] /\ pos' \in Nat
      BY <1>1, <1>5
    <2>2. mpc' \in [MapThread -> MapLabel]
      BY <1>1, <1>4 DEF MapLabel, MigrateSteps
    <2> QED BY <1>1, <2>1, <2>2 DEF MapInv, MapTypeOK, TablesOK
  <1>7. KeysStay /\ ValuesStay /\ MoversStay /\ KeysPlaced'
    <2>1. MoversStay
      BY <1>1, <1>4 DEF MoversStay
    <2> QED BY <1>1, <2>1 DEF KeysStay, ValuesStay, MapInv, TablesInv, KeysPlaced
  <1>8. MovesOn(t)
    BY <1>1, <1>3, <1>4 DEF MovesOn, MigrateSteps
  <1>9. MigrationInv' /\ HazardsInv' /\ CallsInv'
    BY <1>7, <1>8, OthersKept
  <1>10. TaskInv'
    <2>1. ASSUME NEW u \in MapThread
          PROVE  /\ mpc'[u] \in {"take", "put"} <=> task'[u] # {}
                 /\ \A c \in task'[u] : c \in Cells(from) /\ c < begin + ChunkSize
                 /\ mpc'[u] = "put" => cell[u] \in task'[u] /\ old[u] \notin {NoValue, Moved}
                                        /\ key[from][cell[u]] # EmptyKey
                 /\ mpc'[u] = "relock" => from <= begin + ChunkSize
      <3>1. CASE u = t
        BY <1>2, <1>3, <1>4, <1>5, <3>1 DEF Table
      <3>2. CASE u # t
        <4>1. /\ mpc'[u] = mpc[u] /\ task'[u] = task[u]
          BY <1>3, <1>4, <3>2
        <4>2. \A c \in task[u] : c \in Cells(from) /\ c < begin
          BY DEF begin, MapInv, TaskInv
        <4>3. mpc[u] = "relock" => from <= begin
          BY DEF begin, MapInv, TaskInv
        <4>4. \A c \in task[u] : c < begin + ChunkSize
          BY <1>2, <4>2 DEF Cells, Table
        <4>5. mpc[u] = "relock" => from <= begin + ChunkSize
          BY <1>2, <4>3 DEF Table
        <4>6. /\ mpc[u] \in {"take", "put"} <=> task[u] # {}
              /\ mpc[u] = "put" => cell[u] \in task[u] /\ old[u] \notin {NoValue, Moved}
                                        /\ key[from][cell[u]] # EmptyKey
          BY DEF MapInv, TaskInv
        <4> QED BY <4>1, <4>2, <4>4, <4>5, <4>6
      <3> QED BY <3>1, <3>2
    <2>2. \A u \in MapThread : \A c \in task[u] : c < begin
      BY DEF begin, MapInv, TaskInv
    <2>3. ASSUME NEW u \in MapThread, NEW w \in MapThread, u # w PROVE task'[u] \cap task'[w] = {}
      <3>1. \A x \in MapThread : x # t => task[x] \cap chunk = {}
        <4> SUFFICES ASSUME NEW x \in MapThread, NEW c \in task[x], c \in chunk PROVE FALSE
          OBVIOUS
        <4>1. c < begin /\ begin <= c /\ c \in Nat
          BY <1>5, <2>2
        <4> QED BY <1>2, <4>1
      <3> QED BY <1>3, <2>3, <3>1 DEF MapInv, TaskInv
    <2>4. ASSUME NEW c \in Cells(from)
          PROVE  value[from][c] = Moved <=>
                   c < begin + ChunkSize /\ \A u \in MapThread : ~ToMove(u, c)'
      <3>1. \A u \in MapThread : u # t => (ToMove(u, c)' <=> ToMove(u, c))
        BY <1>1, <1>3, <1>4 DEF ToMove
      <3>2. ToMove(t, c)' <=> c \in chunk
        BY <1>3, <1>4 DEF ToMove
      <3>3. ~ToMove(t, c)
        BY <1>2 DEF ToMove
      <3>4. value[from][c] = Moved <=> c < begin /\ \A u \in MapThread : ~ToMove(u, c)
        BY <1>2 DEF begin, MapInv, TaskInv
      <3>5. c \in chunk <=> begin <= c /\ c < begin + ChunkSize
        BY DEF chunk
      <3>6. c \in Nat
        BY DEF Cells
      <3>7. CASE c < begin
        BY <1>2, <3>1, <3>2, <3>3, <3>4, <3>5, <3>6, <3>7
      <3>8. CASE ~(c < begin)
        BY <1>2, <3>1, <3>2, <3>3, <3>4, <3>5, <3>6, <3>8
      <3> QED BY <3>7, <3>8
    <2> QED BY <1>1, <1>2, <2>1, <2>3, <2>4 DEF TaskInv
  <1>11. NextInv'
    <2> SUFFICES ASSUME NEW d \in Cells(2 * from), key[2 * from][d] # EmptyKey
                 PROVE  \E c \in Cells(from) : /\ key[from][c] = key[2 * from][d]
                                               /\ value[from][c] = Moved
                                               /\ \A u \in MapThread : c \notin task'[u]
      BY <1>1 DEF NextInv
    <2>1. PICK c \in Cells(from) : /\ key[from][c] = key[2 * from][d]
                                   /\ value[from][c] = Moved
                                   /\ \A u \in MapThread : c \notin task[u]
      BY <1>2 DEF MapInv, NextInv
    <2>2. c < begin
      BY <1>2, <2>1 DEF begin, MapInv, TaskInv
    <2>3. c \notin chunk
      BY <1>2, <2>2 DEF chunk, Cells
    <2> QED BY <1>3, <2>1, <2>3
  <1>12. TablesInv'
    BY <1>1, <1>7, TablesStay
  <1>13. ResultsHold'
    BY <1>1, <1>7, HoldsStay DEF MapInv, ResultsHold
  <1> QED BY <1>6, <1>9, <1>10, <1>11, <1>12, <1>13 DEF MapInv

(* The mark replaces the value, which is on its way with this thread. *)
LEMMA TakeCellKeeps ==
  ASSUME MapInv, NEW t \in MapThread, TakeCell(t)
  PROVE  MapInv'
PROOF
  <1> DEFINE c == Min(task[t])
             v == value[from][c]
             rest == task[t] \ {c}
             next == IF v # NoValue THEN "put" ELSE IF rest = {} THEN "task" ELSE "take"
  <1>1. /\ mpc[t] = "take" /\ mpc \in [MapThread -> MapLabel] /\ task \in [MapThread -> SUBSET Nat]
        /\ cell \in [MapThread -> Nat] /\ old \in [MapThread -> Nat]
        /\ value' = [value EXCEPT ![from][c] = Moved]
        /\ UNCHANGED <<hash_map_, key, from, cnt, generation, pos, protected, retired, deleted,
                       mine, op, waits_for, called, results>>
    BY DEF TakeCell, LeaveMark, MapInv, MapTypeOK, migrateVars, retireVars
  <1>2. /\ from # NoTable /\ from \in Table /\ 2 * from \in Table /\ from # 2 * from
        /\ Current = from /\ Newest = 2 * from /\ TablesOK /\ from < 2 * from
    BY <1>1, MigratingThread DEF MigrateSteps, MapInv, MapTypeOK, Table
  <1>3. c \in task[t] /\ c \in Cells(from) /\ c \in Nat /\ c < pos * ChunkSize
    <2>1. task[t] \in SUBSET Nat /\ task[t] # {}
      BY <1>1 DEF MapInv, TaskInv
    <2>2. c \in task[t]
      BY <2>1, LeastIsMin
    <2> HIDE DEF c
    <2> QED BY <2>1, <2>2 DEF MapInv, TaskInv
  <1> HIDE DEF c
  <1>4. v \in Nat /\ v # Moved /\ (v # NoValue => key[from][c] \in MapKey)
    <2>1. v \in Nat /\ key[from][c] \in MapKey \union {EmptyKey}
      BY <1>2, <1>3 DEF TablesOK
    <2>2. ToMove(t, c)
      BY <1>1, <1>3 DEF ToMove
    <2>3. v # Moved
      BY <1>2, <1>3, <2>2 DEF MapInv, TaskInv
    <2> QED BY <1>2, <1>3, <2>1, <2>3 DEF MapInv, TablesInv
  <1>5. /\ DOMAIN value' = Table
        /\ \A j \in Table : value'[j] \in [Cells(j) -> Nat]
        /\ \A j \in Table : \A d \in Cells(j) :
             value'[j][d] = IF j = from /\ d = c THEN Moved ELSE value[j][d]
    <2>1. value' = [value EXCEPT ![from] = [value[from] EXCEPT ![c] = Moved]]
      BY <1>1
    <2>2. \A j \in Table : value'[j] = IF j = from THEN [value[from] EXCEPT ![c] = Moved] ELSE value[j]
      BY <1>2, <2>1 DEF TablesOK
    <2>3. DOMAIN value' = Table
      BY <1>2, <2>1 DEF TablesOK
    <2>4. \A j \in Table : value'[j] \in [Cells(j) -> Nat]
      BY <1>2, <2>2 DEF TablesOK, Moved
    <2>5. \A j \in Table : \A d \in Cells(j) :
             value'[j][d] = IF j = from /\ d = c THEN Moved ELSE value[j][d]
      BY <1>2, <2>2 DEF TablesOK
    <2> QED BY <2>3, <2>4, <2>5
  <1>6. /\ mpc' \in [MapThread -> MapLabel] /\ cell' \in [MapThread -> Nat]
        /\ old' \in [MapThread -> Nat] /\ task' \in [MapThread -> SUBSET Nat]
        /\ mpc'[t] = next
        /\ task'[t] = IF v = NoValue THEN rest ELSE task[t]
        /\ v # NoValue => cell'[t] = c /\ old'[t] = v
        /\ \A u \in MapThread : u # t => mpc'[u] = mpc[u] /\ cell'[u] = cell[u] /\ old'[u] = old[u]
                                         /\ task'[u] = task[u]
    <2>1. CASE v = NoValue
      <3>1. /\ task' = [task EXCEPT ![t] = rest] /\ UNCHANGED <<cell, old>>
            /\ mpc' = [mpc EXCEPT ![t] = IF task'[t] = {} THEN "task" ELSE "take"]
        BY <2>1 DEF TakeCell, NextCell, MapGoTo, c
      <3>2. rest \in SUBSET Nat
        BY <1>1
      <3> HIDE DEF rest, v
      <3>3. task'[t] = rest
        BY <1>1, <3>1
      <3>4. mpc' = [mpc EXCEPT ![t] = next] /\ next \in MapLabel
        BY <2>1, <3>1, <3>3 DEF MapLabel, MigrateSteps
      <3> HIDE DEF next
      <3> QED BY <1>1, <2>1, <3>1, <3>2, <3>3, <3>4
    <2>2. CASE v # NoValue
      <3>1. /\ cell' = [cell EXCEPT ![t] = c] /\ old' = [old EXCEPT ![t] = v] /\ UNCHANGED task
            /\ mpc' = [mpc EXCEPT ![t] = "put"]
        BY <2>2 DEF TakeCell, MapGoTo, c
      <3>2. mpc' \in [MapThread -> MapLabel] /\ mpc'[t] = next
        BY <1>1, <2>2, <3>1 DEF MapLabel, MigrateSteps
      <3> HIDE DEF v, next, rest
      <3> QED BY <1>1, <1>3, <1>4, <2>2, <3>1, <3>2
    <2> QED BY <2>1, <2>2
  <1> HIDE DEF v
  <1>7. MapTypeOK'
    BY <1>1, <1>2, <1>5, <1>6 DEF MapInv, MapTypeOK, TablesOK
  <1>8. KeysStay /\ KeysPlaced'
    BY <1>1 DEF KeysStay, MapInv, TablesInv, KeysPlaced
  <1>9. MovesOn(t)
    BY <1>1, <1>6 DEF MovesOn, MigrateSteps
  <1>10. MigrationInv' /\ HazardsInv' /\ CallsInv'
    BY <1>8, <1>9, OthersKept
  <1>11. TaskInv'
    <2>1. ASSUME NEW u \in MapThread
          PROVE  /\ mpc'[u] \in {"take", "put"} <=> task'[u] # {}
                 /\ \A d \in task'[u] : d \in Cells(from) /\ d < pos * ChunkSize
                 /\ mpc'[u] = "put" => cell'[u] \in task'[u] /\ old'[u] \notin {NoValue, Moved}
                                        /\ key[from][cell'[u]] # EmptyKey
                 /\ mpc'[u] = "relock" => from <= pos * ChunkSize
      <3>1. CASE u = t
        <4>1. \A d \in task'[t] : d \in task[t]
          BY <1>6
        <4>2. \A d \in task'[t] : d \in Cells(from) /\ d < pos * ChunkSize
          BY <4>1 DEF MapInv, TaskInv
        <4>3. CASE v = NoValue
          BY <1>6, <3>1, <4>2, <4>3
        <4>4. CASE v # NoValue
          BY <1>3, <1>4, <1>6, <3>1, <4>2, <4>4, KeyIsPositive
        <4> QED BY <4>3, <4>4
      <3>2. CASE u # t
        BY <1>6, <3>2 DEF MapInv, TaskInv
      <3> QED BY <3>1, <3>2
    <2>2. ASSUME NEW u \in MapThread, NEW w \in MapThread, u # w PROVE task'[u] \cap task'[w] = {}
      <3>1. task'[u] \subseteq task[u] /\ task'[w] \subseteq task[w]
        BY <1>6
      <3>2. task[u] \cap task[w] = {}
        BY <2>2 DEF MapInv, TaskInv
      <3> QED BY <3>1, <3>2
    <2>3. ASSUME NEW d \in Cells(from)
          PROVE  value'[from][d] = Moved <=>
                   d < pos * ChunkSize /\ \A u \in MapThread : ~ToMove(u, d)'
      <3>1. value[from][d] = Moved <=> d < pos * ChunkSize /\ \A u \in MapThread : ~ToMove(u, d)
        BY <1>2 DEF MapInv, TaskInv
      <3>2. \A u \in MapThread : u # t => (ToMove(u, d)' <=> ToMove(u, d))
        BY <1>6 DEF ToMove
      <3>3. ToMove(t, d)' <=> ToMove(t, d) /\ d # c
        <4>1. ToMove(t, d) <=> d \in task[t]
          BY <1>1 DEF ToMove
        <4>2. ToMove(t, d)' <=> d \in task'[t] /\ ~(mpc'[t] = "put" /\ d = cell'[t])
          BY DEF ToMove
        <4>3. CASE v = NoValue
          BY <1>6, <4>1, <4>2, <4>3
        <4>4. CASE v # NoValue
          BY <1>6, <4>1, <4>2, <4>4
        <4> QED BY <4>3, <4>4
      <3>4. \A u \in MapThread : u # t => ~ToMove(u, c)
        BY <1>3 DEF MapInv, TaskInv, ToMove
      <3>5. CASE d = c
        BY <1>2, <1>3, <1>5, <3>2, <3>3, <3>4, <3>5
      <3>6. CASE d # c
        BY <1>2, <1>5, <3>1, <3>2, <3>3, <3>6
      <3> QED BY <3>5, <3>6
    <2> QED BY <1>1, <2>1, <2>2, <2>3 DEF TaskInv
  <1>12. NextInv'
    <2> SUFFICES ASSUME NEW d \in Cells(2 * from), key[2 * from][d] # EmptyKey
                 PROVE  \E e \in Cells(from) : /\ key[from][e] = key[2 * from][d]
                                               /\ value'[from][e] = Moved
                                               /\ \A u \in MapThread : e \notin task'[u]
      BY <1>1 DEF NextInv
    <2>1. PICK e \in Cells(from) : /\ key[from][e] = key[2 * from][d]
                                   /\ value[from][e] = Moved
                                   /\ \A u \in MapThread : e \notin task[u]
      BY <1>2 DEF MapInv, NextInv
    <2>2. value'[from][e] = Moved
      BY <1>2, <1>5, <2>1
    <2>3. \A u \in MapThread : e \notin task'[u]
      BY <1>6, <2>1
    <2> QED BY <2>1, <2>2, <2>3
  <1>13. TablesInv'
    <2>1. Current' = from /\ Newest' = 2 * from
      BY <1>1, <1>2 DEF Current, Newest
    <2>2. \A j \in Table : \A d \in Cells(j) :
            /\ key'[j][d] = EmptyKey => value'[j][d] \in {NoValue, Moved}
            /\ j > 2 * from => key'[j][d] = EmptyKey /\ value'[j][d] = NoValue
      <3> SUFFICES ASSUME NEW j \in Table, NEW d \in Cells(j)
                   PROVE  /\ key[j][d] = EmptyKey => value'[j][d] \in {NoValue, Moved}
                          /\ j > 2 * from => key[j][d] = EmptyKey /\ value'[j][d] = NoValue
        BY <1>1
      <3>1. /\ key[j][d] = EmptyKey => value[j][d] \in {NoValue, Moved}
            /\ j > 2 * from => key[j][d] = EmptyKey /\ value[j][d] = NoValue
        BY <1>2 DEF MapInv, TablesInv
      <3>2. j > 2 * from => j # from
        BY <1>2 DEF Table
      <3> QED BY <1>5, <3>1, <3>2
    <2>3. \A d \in Cells(2 * from) : value'[2 * from][d] # Moved
      BY <1>2, <1>5 DEF MapInv, TablesInv
    <2>4. \A u \in MapThread : mine'[u] # NoTable /\ mine'[u] # from =>
             \A d \in Cells(mine'[u]) : value'[mine'[u]][d] = Moved
      BY <1>1, <1>2, <1>5 DEF MapInv, MapTypeOK, TablesInv
    <2> QED BY <1>8, <2>1, <2>2, <2>3, <2>4 DEF TablesInv
  <1>14. ResultsHold'
    <2> SUFFICES ASSUME NEW k \in MapKey, NEW x \in results[k] PROVE Holds(k, x)'
      BY <1>1 DEF ResultsHold
    <2>1. x \notin {NoValue, Moved} /\ Holds(k, x)
      BY DEF MapInv, ResultsHold, Holds
    <2>2. Current' = from
      BY <1>1, <1>2 DEF Current
    <2>3. CASE InTable(from, k, x)
      <3>1. PICK d \in Cells(from) : key[from][d] = k /\ value[from][d] = x
        BY <2>3 DEF InTable
      <3>2. CASE d # c
        BY <1>1, <1>2, <1>5, <2>1, <2>2, <3>1, <3>2 DEF Holds, InTable
      <3>3. CASE d = c
        <4>1. v = x /\ v # NoValue
          BY <2>1, <3>1, <3>3 DEF v
        <4>2. mpc'[t] = "put" /\ key'[from'][cell'[t]] = k /\ old'[t] = x
          BY <1>1, <1>6, <3>1, <3>3, <4>1
        <4> QED BY <1>1, <1>2, <2>1, <4>2 DEF Holds, UnderWay
      <3> QED BY <3>2, <3>3
    <2>4. CASE UnderWay(k, x)
      <3>1. PICK u \in MapThread : mpc[u] = "put" /\ key[from][cell[u]] = k /\ old[u] = x
        BY <2>4 DEF UnderWay
      <3>2. u # t
        BY <1>1, <3>1
      <3> QED BY <1>1, <1>2, <1>6, <2>1, <3>1, <3>2 DEF Holds, UnderWay
    <2>5. CASE InTable(2 * from, k, x)
      BY <1>1, <1>2, <1>5, <2>1, <2>5 DEF Holds, InTable
    <2> QED BY <1>2, <2>1, <2>3, <2>4, <2>5 DEF Holds
  <1> QED BY <1>7, <1>10, <1>11, <1>12, <1>13, <1>14 DEF MapInv

(* The value arrives, in the cell a probe finds for its key in the next table. *)
LEMMA PutCellKeeps ==
  ASSUME MapInv, NEW t \in MapThread, PutCell(t)
  PROVE  MapInv'
PROOF
  <1> DEFINE e == cell[t]
             v == old[t]
             k == key[from][e]
             i == 2 * from
             c == Found(i, k)
             rest == task[t] \ {e}
             next == IF rest = {} THEN "task" ELSE "take"
  <1>1. /\ mpc[t] = "put" /\ mpc \in [MapThread -> MapLabel] /\ task \in [MapThread -> SUBSET Nat]
        /\ cell \in [MapThread -> Nat] /\ old \in [MapThread -> Nat]
        /\ KeyPut(i, k) /\ value' = [value EXCEPT ![i][c] = v]
        /\ task' = [task EXCEPT ![t] = rest]
        /\ mpc' = [mpc EXCEPT ![t] = IF task'[t] = {} THEN "task" ELSE "take"]
        /\ cell' = [cell EXCEPT ![t] = 0] /\ old' = [old EXCEPT ![t] = NoValue]
        /\ UNCHANGED <<hash_map_, from, cnt, generation, pos, protected, retired, deleted,
                       mine, op, waits_for, called, results>>
    BY DEF PutCell, NextCell, MapGoTo, KeyPut, MapInv, MapTypeOK, migrateVars, retireVars
  <1>2. /\ from # NoTable /\ from \in Table /\ i \in Table /\ from # i
        /\ Current = from /\ Newest = i /\ TablesOK /\ KeysPlaced /\ from < i
    BY <1>1, MigratingThread DEF MigrateSteps, MapInv, MapTypeOK, TablesInv, Table
  <1>3. /\ e \in Cells(from) /\ e \in task[t] /\ value[from][e] = Moved /\ k \in MapKey
        /\ v \in Nat /\ v \notin {NoValue, Moved} /\ k # EmptyKey
    BY <1>1, <1>2, LeftMark, KeyIsPositive DEF MapInv, TaskInv
  <1>4. Steps(i, k) # {}
    BY DEF PutCell
  <1>5. c \in Cells(i) /\ key[i][c] \in {EmptyKey, k}
    BY <1>2, <1>3, <1>4, FoundIsPlaced
  <1>6. /\ DOMAIN key' = Table
        /\ \A j \in Table : key'[j] \in [Cells(j) -> MapKey \union {EmptyKey}]
        /\ KeysStay
        /\ \A j \in Table : j # i => key'[j] = key[j]
        /\ \A d \in Cells(i) : key'[i][d] = IF d = c THEN k ELSE key[i][d]
        /\ KeysPlaced'
    BY <1>1, <1>2, <1>3, <1>4, KeyAdded DEF KeysStay
  <1> HIDE DEF c, i, v, e
  <1>7. /\ DOMAIN value' = Table
        /\ \A j \in Table : value'[j] \in [Cells(j) -> Nat]
        /\ \A j \in Table : \A d \in Cells(j) :
             value'[j][d] = IF j = i /\ d = c THEN v ELSE value[j][d]
    <2>1. value' = [value EXCEPT ![i] = [value[i] EXCEPT ![c] = v]]
      BY <1>1
    <2>2. \A j \in Table : value'[j] = IF j = i THEN [value[i] EXCEPT ![c] = v] ELSE value[j]
      BY <1>2, <2>1 DEF TablesOK
    <2>3. DOMAIN value' = Table
      BY <1>2, <2>1 DEF TablesOK
    <2>4. \A j \in Table : value'[j] \in [Cells(j) -> Nat]
      BY <1>2, <1>3, <2>2 DEF TablesOK
    <2>5. \A j \in Table : \A d \in Cells(j) :
             value'[j][d] = IF j = i /\ d = c THEN v ELSE value[j][d]
      BY <1>2, <2>2 DEF TablesOK
    <2> QED BY <2>3, <2>4, <2>5
  <1>8. /\ mpc' \in [MapThread -> MapLabel] /\ cell' \in [MapThread -> Nat]
        /\ old' \in [MapThread -> Nat] /\ task' \in [MapThread -> SUBSET Nat]
        /\ mpc'[t] = next /\ task'[t] = rest
        /\ \A u \in MapThread : u # t => mpc'[u] = mpc[u] /\ cell'[u] = cell[u] /\ old'[u] = old[u]
                                         /\ task'[u] = task[u]
    <2>1. rest \in SUBSET Nat
      BY <1>1
    <2> HIDE DEF rest
    <2>2. task'[t] = rest
      BY <1>1
    <2>3. mpc' = [mpc EXCEPT ![t] = next] /\ next \in MapLabel
      BY <1>1, <2>2 DEF MapLabel, MigrateSteps
    <2> HIDE DEF next
    <2> QED BY <1>1, <2>1, <2>2, <2>3 DEF NoValue
  <1>9. MapTypeOK'
    BY <1>1, <1>6, <1>7, <1>8 DEF MapInv, MapTypeOK, TablesOK
  <1>10. MovesOn(t)
    BY <1>1, <1>8 DEF MovesOn, MigrateSteps
  <1>11. MigrationInv' /\ HazardsInv' /\ CallsInv'
    BY <1>6, <1>10, OthersKept
  <1>12. key'[from] = key[from] /\ \A d \in Cells(from) : value'[from][d] = value[from][d]
    BY <1>2, <1>6, <1>7
  <1>13. TaskInv'
    <2>1. ASSUME NEW u \in MapThread
          PROVE  /\ mpc'[u] \in {"take", "put"} <=> task'[u] # {}
                 /\ \A d \in task'[u] : d \in Cells(from) /\ d < pos * ChunkSize
                 /\ mpc'[u] = "put" => cell'[u] \in task'[u] /\ old'[u] \notin {NoValue, Moved}
                                        /\ key[from][cell'[u]] # EmptyKey
                 /\ mpc'[u] = "relock" => from <= pos * ChunkSize
      <3>1. CASE u = t
        <4>1. \A d \in task'[t] : d \in Cells(from) /\ d < pos * ChunkSize
          BY <1>8 DEF MapInv, TaskInv
        <4> QED BY <1>8, <3>1, <4>1
      <3>2. CASE u # t
        BY <1>8, <3>2 DEF MapInv, TaskInv
      <3> QED BY <3>1, <3>2
    <2>2. ASSUME NEW u \in MapThread, NEW w \in MapThread, u # w PROVE task'[u] \cap task'[w] = {}
      <3>1. task'[u] \subseteq task[u] /\ task'[w] \subseteq task[w]
        BY <1>8
      <3>2. task[u] \cap task[w] = {}
        BY <2>2 DEF MapInv, TaskInv
      <3> QED BY <3>1, <3>2
    <2>3. ASSUME NEW d \in Cells(from)
          PROVE  value[from][d] = Moved <=>
                   d < pos * ChunkSize /\ \A u \in MapThread : ~ToMove(u, d)'
      <3>1. value[from][d] = Moved <=> d < pos * ChunkSize /\ \A u \in MapThread : ~ToMove(u, d)
        BY <1>2 DEF MapInv, TaskInv
      <3>2. \A u \in MapThread : u # t => (ToMove(u, d)' <=> ToMove(u, d))
        BY <1>8 DEF ToMove
      <3>3. ToMove(t, d)' <=> ToMove(t, d)
        <4>1. ToMove(t, d) <=> d \in task[t] /\ d # e
          BY <1>1 DEF ToMove, e
        <4>2. ToMove(t, d)' <=> d \in task'[t]
          BY <1>8 DEF ToMove
        <4> QED BY <1>8, <4>1, <4>2
      <3> QED BY <3>1, <3>2, <3>3
    <2> QED BY <1>1, <1>12, <2>1, <2>2, <2>3 DEF TaskInv
  <1>14. NextInv'
    <2> SUFFICES ASSUME NEW d \in Cells(i), key'[i][d] # EmptyKey
                 PROVE  \E b \in Cells(from) : /\ key[from][b] = key'[i][d]
                                               /\ value[from][b] = Moved
                                               /\ \A u \in MapThread : b \notin task'[u]
      BY <1>1, <1>12 DEF NextInv, i
    <2>1. CASE d = c
      <3>1. \A u \in MapThread : e \notin task'[u]
        BY <1>3, <1>8 DEF MapInv, TaskInv
      <3> QED BY <1>3, <1>6, <2>1, <3>1
    <2>2. CASE d # c
      <3>1. PICK b \in Cells(from) : /\ key[from][b] = key[i][d]
                                     /\ value[from][b] = Moved
                                     /\ \A u \in MapThread : b \notin task[u]
        BY <1>2, <1>6, <2>2 DEF MapInv, NextInv, i
      <3> QED BY <1>6, <1>8, <2>2, <3>1
    <2> QED BY <2>1, <2>2
  <1>15. TablesInv'
    <2>1. Current' = from /\ Newest' = i
      BY <1>1, <1>2 DEF Current, Newest, i
    <2>2. \A j \in Table : \A d \in Cells(j) :
            /\ key'[j][d] = EmptyKey => value'[j][d] \in {NoValue, Moved}
            /\ j > i => key'[j][d] = EmptyKey /\ value'[j][d] = NoValue
      <3> SUFFICES ASSUME NEW j \in Table, NEW d \in Cells(j)
                   PROVE  /\ key'[j][d] = EmptyKey => value'[j][d] \in {NoValue, Moved}
                          /\ j > i => key'[j][d] = EmptyKey /\ value'[j][d] = NoValue
        OBVIOUS
      <3>1. /\ key[j][d] = EmptyKey => value[j][d] \in {NoValue, Moved}
            /\ j > i => key[j][d] = EmptyKey /\ value[j][d] = NoValue
        BY <1>2 DEF MapInv, TablesInv
      <3>2. j > i => j # i
        BY <1>2 DEF Table
      <3>3. CASE j = i /\ d = c
        BY <1>3, <1>6, <3>2, <3>3
      <3>4. CASE ~(j = i /\ d = c)
        BY <1>6, <1>7, <3>1, <3>4
      <3> QED BY <3>3, <3>4
    <2>3. \A d \in Cells(i) : value'[i][d] # Moved
      BY <1>2, <1>3, <1>7 DEF MapInv, TablesInv
    <2>4. \A u \in MapThread : mine'[u] # NoTable /\ mine'[u] # from =>
             \A d \in Cells(mine'[u]) : value'[mine'[u]][d] = Moved
      <3> SUFFICES ASSUME NEW u \in MapThread, mine[u] # NoTable, mine[u] # from,
                          NEW d \in Cells(mine[u])
                   PROVE  value'[mine[u]][d] = Moved
        BY <1>1
      <3>1. mine[u] \in Table /\ mine[u] <= from
        BY <1>2 DEF MapInv, MapTypeOK, HazardsInv
      <3>2. mine[u] # i
        BY <1>2, <3>1 DEF Table
      <3>3. value[mine[u]][d] = Moved
        BY <1>2 DEF MapInv, TablesInv
      <3>4. value'[mine[u]][d] = value[mine[u]][d]
        BY <1>7, <3>1, <3>2
      <3> QED BY <3>3, <3>4
    <2> QED BY <1>6, <2>1, <2>2, <2>3, <2>4 DEF TablesInv
  <1>16. ResultsHold'
    <2> SUFFICES ASSUME NEW l \in MapKey, NEW x \in results[l] PROVE Holds(l, x)'
      BY <1>1 DEF ResultsHold
    <2>1. x \notin {NoValue, Moved} /\ Holds(l, x) /\ l # EmptyKey
      BY KeyIsPositive DEF MapInv, ResultsHold, Holds
    <2>2. Current' = from
      BY <1>1, <1>2 DEF Current
    <2>3. l = k /\ x = v => Holds(l, x)'
      <3> SUFFICES ASSUME l = k, x = v PROVE Holds(l, x)'
        OBVIOUS
      <3>1. key'[i][c] = l /\ value'[i][c] = x
        BY <1>2, <1>5, <1>6, <1>7
      <3>2. c \in Cells(2 * from') /\ key'[2 * from'][c] = l /\ value'[2 * from'][c] = x
            /\ from' # NoTable
        BY <1>1, <1>2, <1>5, <3>1 DEF i
      <3> HIDE DEF k
      <3> QED BY <2>1, <3>2 DEF Holds, InTable
    <2>4. CASE InTable(from, l, x)
      BY <1>12, <2>1, <2>2, <2>4 DEF Holds, InTable
    <2>5. CASE UnderWay(l, x)
      <3>1. PICK u \in MapThread : mpc[u] = "put" /\ key[from][cell[u]] = l /\ old[u] = x
        BY <2>5 DEF UnderWay
      <3>2. CASE u = t
        BY <2>3, <3>1, <3>2 DEF e, v
      <3>3. CASE u # t
        BY <1>1, <1>2, <1>8, <1>12, <2>1, <3>1, <3>3 DEF Holds, UnderWay
      <3> QED BY <3>2, <3>3
    <2>6. CASE InTable(i, l, x)
      <3>1. PICK d \in Cells(i) : key[i][d] = l /\ value[i][d] = x
        BY <2>6 DEF InTable
      <3>2. CASE d = c
        <4>1. l = k
          BY <1>5, <2>1, <3>1, <3>2
        <4>2. UnderWay(k, v)
          BY <1>1 DEF UnderWay, e, v
        <4>3. Holds(k, v)
          BY <1>2, <1>3, <4>2 DEF Holds
        <4>4. Holds(k, x)
          BY <2>1, <4>1
        <4> HIDE DEF k
        <4>5. x = v
          BY <1>3, <4>3, <4>4, HoldsOnce
        <4> QED BY <2>3, <4>1, <4>5
      <3>3. CASE d # c
        <4>1. key'[i][d] = l /\ value'[i][d] = x
          BY <1>2, <1>6, <1>7, <3>1, <3>3
        <4>2. d \in Cells(2 * from') /\ key'[2 * from'][d] = l /\ value'[2 * from'][d] = x
              /\ from' # NoTable
          BY <1>1, <1>2, <4>1 DEF i
        <4> QED BY <2>1, <4>2 DEF Holds, InTable
      <3> QED BY <3>2, <3>3
    <2> QED BY <1>2, <2>1, <2>4, <2>5, <2>6 DEF Holds, i
  <1> QED BY <1>9, <1>11, <1>13, <1>14, <1>15, <1>16 DEF MapInv

(* The last thread out finds every cell moved: the next table has all values. *)
LEMMA LockAfterMigrateKeeps ==
  ASSUME MapInv, NEW t \in MapThread, LockAfterMigrate(t)
  PROVE  MapInv'
PROOF
  <1>1. /\ mpc[t] = "relock" /\ mpc \in [MapThread -> MapLabel] /\ cnt' = cnt - 1
        /\ waits_for \in [MapThread -> Nat] /\ generation \in Nat
        /\ UNCHANGED <<key, value, pos, protected, mine, op, cell, task, old, called, results>>
    BY DEF LockAfterMigrate, MapInv, MapTypeOK, tables
  <1>2. /\ from # NoTable /\ from \in Table /\ 2 * from \in Table /\ from < 2 * from
        /\ Current = from /\ Newest = 2 * from /\ hash_map_ = NoTable /\ mine[t] = NoTable
        /\ waits_for[t] = generation /\ 2 * from # NoTable /\ task[t] = {}
    BY <1>1, MigratingThread DEF MigrateSteps, Table, NoTable, MapInv, TaskInv
  <1>3. /\ t \in Migrating /\ IsFiniteSet(Migrating) /\ cnt = Cardinality(Migrating) /\ cnt \in Nat
        /\ Cardinality(Migrating \ {t}) = cnt - 1 /\ cnt - 1 \in Nat
        /\ IsFiniteSet(Migrating \ {t})
    <2>1. /\ t \in Migrating /\ IsFiniteSet(Migrating) /\ cnt = Cardinality(Migrating)
          /\ cnt \in Nat
      BY <1>1, MigratingThreads DEF Migrating, MigrateSteps, MapInv, MigrationInv, MapTypeOK
    <2>2. Cardinality(Migrating \ {t}) = cnt - 1 /\ IsFiniteSet(Migrating \ {t})
      BY <2>1, FS_RemoveElement
    <2>3. Cardinality(Migrating \ {t}) \in Nat
      BY <2>2, FS_CardinalityType
    <2> QED BY <2>1, <2>2, <2>3
  <1>4. TablesOK' /\ KeysStay /\ ValuesStay /\ KeysPlaced'
    BY <1>1 DEF MapInv, MapTypeOK, TablesInv, TablesOK, KeysPlaced, KeysStay, ValuesStay
  <1>5. CASE cnt # 1
    <2>1. /\ mpc' = [mpc EXCEPT ![t] = "wait"]
          /\ UNCHANGED <<hash_map_, retired, deleted, from, generation, waits_for>>
      BY <1>5 DEF LockAfterMigrate, MapGoTo
    <2>2. /\ \A u \in MapThread : mpc'[u] = IF u = t THEN "wait" ELSE mpc[u]
          /\ mpc' \in [MapThread -> MapLabel]
      BY <1>1, <2>1 DEF MapLabel
    <2>3. Migrating' = Migrating \ {t}
      BY <2>2 DEF Migrating, MigrateSteps
    <2>4. cnt' = Cardinality(Migrating') /\ cnt' # 0 /\ cnt' \in Nat
      BY <1>1, <1>3, <1>5, <2>3
    <2>5. MapTypeOK'
      BY <1>1, <1>4, <2>1, <2>2, <2>4 DEF MapInv, MapTypeOK
    <2>6. MigrationInv'
      <3>1. Newest' = Newest
        BY <2>1 DEF Newest
      <3>2. \A u \in MapThread :
              /\ mpc'[u] \in MigrateSteps => waits_for[u] = generation
              /\ mpc'[u] = "wait" =>
                   waits_for[u] <= generation /\ (waits_for[u] = generation => from # NoTable)
        <4> TAKE u \in MapThread
        <4>1. CASE u = t
          BY <1>1, <1>2, <2>2, <4>1 DEF MigrateSteps
        <4>2. CASE u # t
          BY <2>2, <4>2 DEF MapInv, MigrationInv
        <4> QED BY <4>1, <4>2
      <3> QED BY <1>2, <2>1, <2>4, <3>1, <3>2 DEF MapInv, MigrationInv
    <2>7. MoversStay
      BY <1>1, <2>2 DEF MoversStay
    <2>8. TaskInv' /\ NextInv'
      <3>1. /\ \A u \in MapThread : \A l \in {"take", "put"} : mpc'[u] = l <=> mpc[u] = l
            /\ \A u \in MapThread : mpc'[u] = "relock" => mpc[u] = "relock"
        BY <1>1, <2>2
      <3> QED BY <1>1, <1>4, <2>1, <2>7, <3>1, TasksStayIf
    <2>9. HazardsInv'
      BY <1>1, <1>2, <2>1, <2>2 DEF MapInv, HazardsInv, Current, MigrateSteps
    <2>10. TablesInv'
      BY <1>1, <1>4, <2>1, TablesStay
    <2>11. CallsInv'
      <3> SUFFICES ASSUME NEW u \in MapThread PROVE CallInv(u)'
        BY DEF CallsInv
      <3>1. CASE u # t
        BY <1>1, <1>4, <2>1, <2>2, <3>1, CallStays
      <3>2. CASE u = t
        BY <1>1, <1>2, <2>2, <3>2 DEF CallInv, MapInv, CallsInv
      <3> QED BY <3>1, <3>2
    <2>12. ResultsHold'
      BY <1>1, <1>4, <2>1, <2>7, HoldsStay DEF MapInv, ResultsHold
    <2> QED BY <2>5, <2>6, <2>8, <2>9, <2>10, <2>11, <2>12 DEF MapInv
  <1>6. CASE cnt = 1
    <2> DEFINE Protected == {protected[u] : u \in MapThread}
    <2>1. /\ mpc' = [mpc EXCEPT ![t] = "protect"] /\ waits_for' = [waits_for EXCEPT ![t] = 0]
          /\ hash_map_' = 2 * from /\ from' = NoTable /\ generation' = generation + 1
          /\ retired' = [retired EXCEPT ![t] = (@ \union {from}) \cap Protected]
          /\ deleted' = deleted \union ((retired[t] \union {from}) \ Protected)
      BY <1>6 DEF LockAfterMigrate, MapGoTo, FinishMigrate, RetireTable
    <2>2. /\ \A u \in MapThread : mpc'[u] = IF u = t THEN "protect" ELSE mpc[u]
          /\ \A u \in MapThread : u # t => waits_for'[u] = waits_for[u]
          /\ mpc' \in [MapThread -> MapLabel] /\ waits_for' \in [MapThread -> Nat]
      BY <1>1, <2>1 DEF MapLabel
    <2>3. cnt' = 0 /\ cnt' \in Nat /\ Migrating \ {t} = {}
      BY <1>1, <1>3, <1>6, FS_EmptySet
    <2>4. \A u \in MapThread : mpc'[u] \notin MigrateSteps
      BY <2>2, <2>3 DEF Migrating, MigrateSteps
    <2>5. \A u \in MapThread : task[u] = {} /\ (u # t => mpc[u] \notin MigrateSteps)
      BY <1>2, <2>2, <2>4 DEF MapInv, TaskInv, MigrateSteps
    <2>6. \A c \in Cells(from) : value[from][c] = Moved
      <3> SUFFICES ASSUME NEW c \in Cells(from) PROVE c < pos * ChunkSize
        BY <1>2, <2>5 DEF MapInv, TaskInv, ToMove
      <3>1. from <= pos * ChunkSize
        BY <1>1 DEF MapInv, TaskInv
      <3>2. pos * ChunkSize \in Nat
        BY NextChunk DEF MapInv, MapTypeOK
      <3> QED BY <1>2, <3>1, <3>2 DEF Cells, Table
    <2>7. Current' = 2 * from /\ Newest' = 2 * from
      BY <2>1 DEF Current, Newest
    <2>8. /\ \A u \in MapThread : \A i \in retired'[u] : i \in retired[u] \/ i = from
          /\ \A i \in deleted' : i \in deleted \/ i \in retired[t] \/ i = from
          /\ \A i \in deleted' : i \in deleted \/ i \notin Protected
          /\ retired' \in [MapThread -> SUBSET Table] /\ deleted' \in SUBSET Table
      <3>1. retired \in [MapThread -> SUBSET Table] /\ deleted \in SUBSET Table
        BY DEF MapInv, MapTypeOK
      <3> HIDE DEF Protected
      <3> QED BY <1>2, <2>1, <3>1
    <2>9. MapTypeOK'
      BY <1>1, <1>2, <1>4, <2>1, <2>2, <2>3, <2>8 DEF MapInv, MapTypeOK
    <2>10. MigrationInv'
      <3>1. Migrating' = {}
        BY <2>4 DEF Migrating
      <3>2. \A u \in MapThread : mpc'[u] = "wait" =>
              waits_for'[u] <= generation' /\ waits_for'[u] # generation'
        <4> SUFFICES ASSUME NEW u \in MapThread, mpc'[u] = "wait"
                     PROVE  waits_for'[u] <= generation' /\ waits_for'[u] # generation'
          OBVIOUS
        <4>1. u # t /\ mpc[u] = "wait"
          BY <2>2
        <4>2. waits_for[u] <= generation /\ waits_for[u] \in Nat
          BY <1>1, <4>1 DEF MapInv, MigrationInv
        <4> QED BY <1>1, <2>1, <2>2, <4>1, <4>2
      <3> QED BY <1>2, <2>1, <2>3, <2>4, <2>7, <3>1, <3>2, FS_EmptySet DEF MigrationInv
    <2>11. TaskInv' /\ NextInv'
      BY <1>1, <2>1, <2>4, <2>5 DEF TaskInv, NextInv, MigrateSteps
    <2>12. HazardsInv'
      <3>1. ASSUME NEW u \in MapThread
            PROVE  /\ mpc'[u] \in {"probe", "value"} =>
                        mine[u] # NoTable /\ protected[u] = mine[u] /\ mine[u] \notin deleted'
                   /\ mpc'[u] = "protect" /\ mine[u] # NoTable => protected[u] = mine[u]
                   /\ mpc'[u] \in MigrateSteps \union {"wait"} => mine[u] = NoTable
        BY <1>2, <2>2, <2>8 DEF MapInv, HazardsInv, MigrateSteps
      <3>2. ASSUME NEW u \in MapThread PROVE mine[u] <= 2 * from
        <4>1. mine[u] <= from /\ mine[u] \in Nat
          BY <1>2 DEF MapInv, HazardsInv, MapTypeOK, Table, NoTable
        <4> QED BY <1>2, <4>1 DEF Table
      <3>3. ASSUME NEW i \in Table, i < from \/ i = from PROVE i < 2 * from
        BY <1>2, <3>3 DEF Table
      <3>4. \A u \in MapThread : \A i \in retired'[u] : i < 2 * from
        BY <1>2, <2>8, <3>3 DEF MapInv, HazardsInv
      <3>5. \A i \in deleted' : i < 2 * from
        BY <1>2, <2>8, <3>3 DEF MapInv, HazardsInv
      <3> QED BY <1>1, <2>7, <3>1, <3>2, <3>4, <3>5 DEF HazardsInv
    <2>13. TablesInv'
      <3>1. \A u \in MapThread : mine'[u] # NoTable /\ mine'[u] # Current' =>
              \A c \in Cells(mine'[u]) : value'[mine'[u]][c] = Moved
        BY <1>1, <1>2, <2>6 DEF MapInv, TablesInv
      <3>2. /\ \A i \in Table : \A c \in Cells(i) :
                 /\ key'[i][c] = EmptyKey => value'[i][c] \in {NoValue, Moved}
                 /\ i > Newest' => key'[i][c] = EmptyKey /\ value'[i][c] = NoValue
            /\ \A c \in Cells(Newest') : value'[Newest'][c] # Moved
        BY <1>1, <1>2, <2>7 DEF MapInv, TablesInv
      <3> QED BY <1>4, <3>1, <3>2 DEF TablesInv
    <2>14. CallsInv'
      <3> SUFFICES ASSUME NEW u \in MapThread PROVE CallInv(u)'
        BY DEF CallsInv
      <3>1. CASE u # t
        <4>1. mine[u] # 2 * from
          BY <1>2 DEF MapInv, HazardsInv, MapTypeOK, Table, NoTable
        <4> QED BY <1>1, <1>4, <2>1, <2>2, <3>1, <4>1, CallStays
      <3>2. CASE u = t
        BY <1>1, <1>2, <2>2, <3>2 DEF CallInv, MapInv, CallsInv
      <3> QED BY <3>1, <3>2
    <2>15. ResultsHold'
      <3> SUFFICES ASSUME NEW k \in MapKey, NEW x \in results[k] PROVE Holds(k, x)'
        BY <1>1 DEF ResultsHold
      <3>1. x \notin {NoValue, Moved} /\ Holds(k, x)
        BY DEF MapInv, ResultsHold, Holds
      <3>2. ~InTable(from, k, x)
        BY <2>6, <3>1 DEF InTable
      <3>3. ~UnderWay(k, x)
        BY <1>1, <2>5 DEF UnderWay, MigrateSteps
      <3>4. InTable(2 * from, k, x)
        BY <1>2, <3>1, <3>2, <3>3 DEF Holds
      <3> QED BY <1>1, <2>7, <3>1, <3>4 DEF Holds, InTable
    <2> QED BY <2>9, <2>10, <2>11, <2>12, <2>13, <2>14, <2>15 DEF MapInv
  <1> QED BY <1>5, <1>6

-----------------------------------------------------------------------------
(* The map *)

LEMMA MapInvSteps == MapInv /\ [MapNext]_mapVars => MapInv'
PROOF
  <1> SUFFICES ASSUME MapInv, [MapNext]_mapVars PROVE MapInv'
    OBVIOUS
  <1>1. ASSUME NEW t \in MapThread, MapStep(t) PROVE MapInv'
    BY <1>1, CallKeeps, LoadMapKeeps, StoreHazardKeeps, ProbeKeeps, UseValueKeeps,
       LockToMigrateKeeps, TakeTaskKeeps, TakeCellKeeps, PutCellKeeps, LockAfterMigrateKeeps,
       WokenKeeps DEF MapStep
  <1>2. ASSUME UNCHANGED mapVars \/ \E t \in MapThread : MigrationOverflow(t) PROVE MapInv'
    <2>1. UNCHANGED <<hash_map_, key, value, from, cnt, generation, pos, protected, retired,
                      deleted, mpc, mine, op, cell, task, old, waits_for, called, results>>
      BY <1>2 DEF MigrationOverflow, mapVars, tables, migrateVars, retireVars, localVars
    <2>2. MapTypeOK' /\ MigrationInv' /\ HazardsInv'
      BY <2>1 DEF MapInv, MapTypeOK, TablesOK, MigrationInv, Newest, Migrating, HazardsInv, Current
    <2>3. TaskInv' /\ NextInv'
      BY <2>1 DEF MapInv, TaskInv, ToMove, NextInv
    <2>4. KeysStay /\ ValuesStay /\ MoversStay /\ KeysPlaced'
      BY <2>1 DEF KeysStay, ValuesStay, MoversStay, MapInv, TablesInv, KeysPlaced
    <2>5. TablesInv'
      BY <2>1, <2>4, TablesStay
    <2>6. CallsInv'
      BY <2>1, <2>4, CallStays DEF CallsInv
    <2>7. ResultsHold'
      BY <2>1, <2>4, HoldsStay DEF MapInv, ResultsHold
    <2> QED BY <2>2, <2>3, <2>5, <2>6, <2>7 DEF MapInv
  <1> QED BY <1>1, <1>2, Zenon DEF MapNext

(* Where LOG_CHECK(ok) of run_task fails, the old table holds many keys; nothing *)
(* is done after it.                                                            *)
LEMMA OverflowSteps == MapInv /\ OverflowInv /\ [MapNext]_mapVars => OverflowInv'
PROOF
  <1> SUFFICES ASSUME MapInv, OverflowInv, [MapNext]_mapVars PROVE OverflowInv'
    OBVIOUS
  <1>1. ASSUME NEW t \in MapThread, MigrationOverflow(t) PROVE OverflowInv'
    <2>1. /\ mpc[t] = "put" /\ Steps(2 * from, key[from][cell[t]]) = {}
          /\ UNCHANGED <<key, from>>
      BY <1>1 DEF MigrationOverflow, tables, migrateVars
    <2>2. from # NoTable /\ from \in Table /\ 2 * from \in Table
      BY <2>1, MigratingThread DEF MigrateSteps
    <2>3. cell[t] \in Cells(from) /\ key[from][cell[t]] \in MapKey
      BY <2>1, <2>2, LeftMark
    <2>4. \A d \in Cells(2 * from) : key[2 * from][d] # EmptyKey =>
            \E c \in Cells(from) : key[from][c] = key[2 * from][d]
      BY <2>2 DEF MapInv, NextInv
    <2>5. Cardinality(Used(from)) > MinProbes
      BY <2>1, <2>2, <2>3, <2>4, OverflowTakesKeys DEF MapInv, MapTypeOK, TablesInv
    <2> QED BY <2>1, <2>5 DEF OverflowInv, Used
  <1>2. ASSUME ~overflow, UNCHANGED overflow PROVE OverflowInv'
    BY <1>2, Zenon DEF OverflowInv
  <1>3. ASSUME UNCHANGED mapVars PROVE OverflowInv'
    <2>1. UNCHANGED <<key, from, overflow>>
      BY <1>3 DEF mapVars, tables, migrateVars
    <2> QED BY <2>1 DEF OverflowInv, Used
  <1> QED BY <1>1, <1>2, <1>3, Zenon DEF MapNext

(* MapAgrees, whatever the number of threads and calls, the keys, the cells that  *)
(* a probe passes and the size of the tables and of the tasks: a value that an     *)
(* insert or a find has returned for a key is the only one that any of them        *)
(* returns, the tables in use are not deleted, a thread that waits for a migration *)
(* waits for one that a thread is running, and a value finds no cell in the next    *)
(* table ("Migration overflow") only when the old one has more than MinProbes keys. *)
THEOREM MapIsOneMap == MapSpec => []MapAgrees
PROOF
  <1>1. MapInit => OverflowInv
    BY Zenon DEF MapInit, OverflowInv
  <1>2. MapSpec => [](MapInv /\ OverflowInv)
    BY <1>1, MapInvInit, MapInvSteps, OverflowSteps, PTL DEF MapSpec
  <1> QED BY <1>2, InvAgrees, PTL
=============================================================================
