--------------------------- MODULE ConcurrentHashMap ---------------------------
(***************************************************************************)
(* ConcurrentHashMap: an open-addressed table of atomics.  When it is full,  *)
(* the threads that find it so move its values to one of twice the size; the *)
(* others join in as soon as they meet a moved cell or no table.             *)
(*                                                                         *)
(* The threads run in "protect" and "store" (Holder::protect), "probe"       *)
(* (with_value up to the cell), "value" (the lambda), "lock" (do_migrate as    *)
(* far as the unlock), "task", "take" and "put" (run_migrate), "relock" and    *)
(* "wait".  A probe is one step: the keys it passes never change again.  It   *)
(* may find no cell in a table that has free ones.  A table is named by its   *)
(* size.  Tables of the same address are told apart: a thread's table cannot  *)
(* be freed and used again while it compares it with hash_map_, as its hazard *)
(* pointer is on it.                                                        *)
(***************************************************************************)
EXTENDS Integers, FiniteSets, FiniteSetsExt

CONSTANTS
  MapThread,
  MapKey,                   \* the keys, which are also their hashes
  ChunkSize,                \* cells in a task (100)
  MaxOps,                   \* bound: calls of insert and find
  MinProbes,                \* cells a probe passes in any table that has them (300)
  MaxTable                  \* bound: size of the largest table

ASSUME MapAssumption ==
  /\ IsFiniteSet(MapThread)
  /\ MapKey \subseteq Nat \ {0} /\ MapKey # {}
  /\ ChunkSize \in Nat \ {0} /\ MaxOps \in Nat /\ MinProbes \in Nat
  /\ MaxTable \in Nat \ {0}

Table    == 1..MaxTable
Cells(i) == 0..i - 1

NoTable  == 0
EmptyKey == 0
NoValue    == 0               \* empty_value
Moved    == 1               \* migrate_value; the values inserted are 2, 3, ...

VARIABLES
  hash_map_,
  key, value,               \* of each table
  from,                     \* migrate_from_hash_map_; the other table is the next
  cnt, generation, pos,     \* migrate_cnt_, migrate_generation_, task_creator.pos
  protected, retired,       \* HazardPointers: hazard_, to_delete_
  deleted,
  mpc,                      \* where each thread is
  mine,                     \* its table
  op,                       \* its call
  cell,                     \* its cell
  task,                     \* the cells of its task that are left
  old,                      \* the value it moves
  waits_for,                \* migrate_generation, of the migration it joined
  called,                   \* calls so far
  overflow,                 \* LOG_CHECK(ok) of run_task failed: the process is gone
  results                   \* for each key, what calls got: a value, or anything when a call
                            \* that was over before had got a value

tables      == <<key, value>>
migrateVars == <<from, cnt, generation, pos>>
retireVars  == <<protected, retired, deleted>>
localVars   == <<mine, op, cell, task, old, waits_for, called>>
mapVars     == <<hash_map_, tables, migrateVars, retireVars, mpc, localVars,
                 overflow, results>>

AnyKey == CHOOSE k \in MapKey : TRUE
NoOp == [kind |-> "none", key |-> AnyKey, value |-> NoValue, known |-> FALSE]

MapInit ==
  /\ hash_map_ = 1
  /\ key   = [i \in Table |-> [c \in Cells(i) |-> EmptyKey]]
  /\ value = [i \in Table |-> [c \in Cells(i) |-> NoValue]]
  /\ from = NoTable /\ cnt = 0 /\ generation = 0 /\ pos = 0
  /\ protected = [t \in MapThread |-> NoTable]
  /\ retired = [t \in MapThread |-> {}]
  /\ deleted = {}
  /\ mpc  = [t \in MapThread |-> "idle"]
  /\ mine = [t \in MapThread |-> NoTable]
  /\ op   = [t \in MapThread |-> NoOp]
  /\ cell = [t \in MapThread |-> 0]
  /\ task = [t \in MapThread |-> {}]
  /\ old  = [t \in MapThread |-> NoValue]
  /\ waits_for = [t \in MapThread |-> 0]
  /\ called = 0
  /\ overflow = FALSE
  /\ results = [k \in MapKey |-> {}]

MapGoTo(t, l) == mpc' = [mpc EXCEPT ![t] = l]

Call(t) ==
  /\ mpc[t] = "idle" /\ called < MaxOps
  /\ called' = called + 1
  /\ \E k \in MapKey, kind \in {"insert", "find"} :
       op' = [op EXCEPT ![t] =
         [kind |-> kind, key |-> k, value |-> IF kind = "insert" THEN called + 2 ELSE NoValue,
          known |-> results[k] # {}]]
  /\ MapGoTo(t, "protect")
  /\ UNCHANGED <<hash_map_, tables, migrateVars, retireVars,
                 mine, cell, task, old, waits_for, results>>

ReturnValue(t, v) ==
  /\ results' = IF v \in {NoValue, Moved} /\ ~op[t].known THEN results
                ELSE [results EXCEPT ![op[t].key] = @ \union {v}]
  /\ protected' = [protected EXCEPT ![t] = NoTable]
  /\ mine' = [mine EXCEPT ![t] = NoTable]
  /\ op' = [op EXCEPT ![t] = NoOp]
  /\ MapGoTo(t, "idle")

-----------------------------------------------------------------------------
(* insert and find *)

(* do_protect: the hazard pointer is stored until hash_map_ is what it was. *)
LoadMap(t) ==
  /\ mpc[t] = "protect"
  /\ mine' = [mine EXCEPT ![t] = hash_map_]
  /\ MapGoTo(t, IF hash_map_ # mine[t] THEN "store" ELSE IF hash_map_ = NoTable THEN "lock" ELSE "probe")
  /\ UNCHANGED <<hash_map_, tables, migrateVars, retireVars,
                 op, cell, task, old, waits_for, called, results>>

StoreHazard(t) ==
  /\ mpc[t] = "store"
  /\ protected' = [protected EXCEPT ![t] = mine[t]]
  /\ MapGoTo(t, "protect")
  /\ UNCHANGED <<hash_map_, tables, migrateVars, retired, deleted, localVars, results>>

(* The cells from the one after key % size, round the table. *)
Place(i, k, n) ==
  LET p == (k % i) + 1 + n IN IF p >= i THEN p - i ELSE p

ProbeLimit(i) == Min({Max({MinProbes, (i \div 16) + 2}), i})

(* The first cell that is free or has the key, or none. *)
Steps(i, k) == {n \in 0..ProbeLimit(i) - 1 : key[i][Place(i, k, n)] \in {EmptyKey, k}}
Found(i, k) == Place(i, k, Min(Steps(i, k)))

(* with_value, as far as f: the key is put in a free cell when it may be. *)
Probe(t) ==
  LET i == mine[t]  k == op[t].key  c == Found(i, k)
  IN  /\ mpc[t] = "probe"
      /\ IF Steps(i, k) = {} \/ (key[i][c] = EmptyKey /\ op[t].kind = "find")
           THEN /\ UNCHANGED <<key, cell>>
                /\ IF op[t].kind = "find"
                     THEN ReturnValue(t, op[t].value)
                     ELSE MapGoTo(t, "lock") /\ UNCHANGED <<results, protected, mine, op>>
           ELSE /\ key' = [key EXCEPT ![i][c] = k]
                /\ cell' = [cell EXCEPT ![t] = c]
                /\ MapGoTo(t, "value") /\ UNCHANGED <<results, protected, mine, op>>
      /\ UNCHANGED <<hash_map_, value, migrateVars, retired, deleted, task, old, waits_for, called>>

(* f: compare_exchange_strong for insert; for find a load into value, its    *)
(* argument, which keeps the mark of a moved cell for the next round.        *)
UseValue(t) ==
  LET v == value[mine[t]][cell[t]]
      w == IF v = NoValue /\ op[t].kind = "insert" THEN op[t].value ELSE v
  IN  /\ mpc[t] = "value"
      /\ value' = [value EXCEPT ![mine[t]][cell[t]] = w]
      /\ IF v = Moved
           THEN /\ MapGoTo(t, "lock") /\ UNCHANGED <<results, protected, mine>>
                /\ op' = IF op[t].kind = "find" THEN [op EXCEPT ![t].value = Moved] ELSE op
           ELSE ReturnValue(t, w)
      /\ cell' = [cell EXCEPT ![t] = 0]
      /\ UNCHANGED <<hash_map_, key, migrateVars, retired, deleted, task, old, waits_for, called>>

-----------------------------------------------------------------------------
(* do_migrate *)

InitMigrate ==
  IF from # NoTable THEN UNCHANGED <<hash_map_, from, generation, pos>>
  ELSE /\ 2 * hash_map_ <= MaxTable
       /\ from' = hash_map_
       /\ hash_map_' = NoTable
       /\ generation' = generation + 1
       /\ pos' = 0

LockToMigrate(t) ==
  /\ mpc[t] = "lock"
  /\ IF hash_map_ # mine[t]
       THEN MapGoTo(t, "protect") /\ UNCHANGED <<hash_map_, migrateVars, waits_for>>
       ELSE /\ InitMigrate
            /\ cnt' = cnt + 1
            /\ waits_for' = [waits_for EXCEPT ![t] = generation']
            /\ MapGoTo(t, "task")
  /\ mine' = [mine EXCEPT ![t] = NoTable]
  /\ UNCHANGED <<tables, retireVars, op, cell, task, old, called, results>>

TakeTask(t) ==
  LET begin == pos * ChunkSize
  IN  /\ mpc[t] = "task"
      /\ pos' = pos + 1
      /\ task' = [task EXCEPT ![t] = {c \in Cells(from) : begin <= c /\ c < begin + ChunkSize}]
      /\ MapGoTo(t, IF task'[t] = {} THEN "relock" ELSE "take")
      /\ UNCHANGED <<hash_map_, tables, from, cnt, generation, retireVars,
                     mine, op, cell, old, waits_for, called, results>>

NextCell(t, c) ==
  /\ task' = [task EXCEPT ![t] = @ \ {c}]
  /\ MapGoTo(t, IF task'[t] = {} THEN "task" ELSE "take")

(* Mutant: the value is read and not replaced. *)
LeaveValue(i, c) == UNCHANGED value

LeaveMark(i, c) == value' = [value EXCEPT ![i][c] = Moved]

(* run_task: exchange(migrate_value()). *)
TakeCell(t) ==
  LET c == Min(task[t])  v == value[from][c]
  IN  /\ mpc[t] = "take"
      /\ LeaveMark(from, c)
      /\ IF v = NoValue
           THEN NextCell(t, c) /\ UNCHANGED <<cell, old>>
           ELSE /\ cell' = [cell EXCEPT ![t] = c]
                /\ old' = [old EXCEPT ![t] = v]
                /\ MapGoTo(t, "put") /\ UNCHANGED task
      /\ UNCHANGED <<hash_map_, key, migrateVars, retireVars, mine, op, waits_for, called, results>>

PutCell(t) ==
  LET k == key[from][cell[t]]  c == Found(2 * from, k)
  IN  /\ mpc[t] = "put" /\ Steps(2 * from, k) # {}
      /\ key' = [key EXCEPT ![2 * from][c] = k]
      /\ value' = [value EXCEPT ![2 * from][c] = old[t]]
      /\ NextCell(t, cell[t])
      /\ cell' = [cell EXCEPT ![t] = 0]
      /\ old' = [old EXCEPT ![t] = NoValue]
      /\ UNCHANGED <<hash_map_, migrateVars, retireVars, mine, op, waits_for, called, results>>

(* The probe finds no cell for a value that has left the old table. *)
MigrationOverflow(t) ==
  /\ mpc[t] = "put" /\ Steps(2 * from, key[from][cell[t]]) = {}
  /\ overflow' = TRUE
  /\ UNCHANGED <<hash_map_, tables, migrateVars, retireVars, mpc, localVars, results>>

(* HazardPointers::retire *)
RetireTable(t, i) ==
  LET Protected == {protected[u] : u \in MapThread}
  IN  /\ retired' = [retired EXCEPT ![t] = (@ \union {i}) \cap Protected]
      /\ deleted' = deleted \union ((retired[t] \union {i}) \ Protected)

FinishMigrate(t) ==
  /\ hash_map_' = 2 * from
  /\ RetireTable(t, from)
  /\ from' = NoTable
  /\ generation' = generation + 1

(* The mutex again: the last one out finishes, the others wait for the next    *)
(* generation.                                                                  *)
LockAfterMigrate(t) ==
  /\ mpc[t] = "relock"
  /\ cnt' = cnt - 1
  /\ IF cnt = 1 THEN /\ FinishMigrate(t) /\ MapGoTo(t, "protect")
          /\ waits_for' = [waits_for EXCEPT ![t] = 0]
     ELSE /\ MapGoTo(t, "wait")
          /\ UNCHANGED <<hash_map_, retired, deleted, from, generation, waits_for>>
  /\ UNCHANGED <<tables, pos, protected, mine, op, cell, task, old, called, results>>

Woken(t) ==
  /\ mpc[t] = "wait" /\ generation # waits_for[t]
  /\ MapGoTo(t, "protect")
  /\ waits_for' = [waits_for EXCEPT ![t] = 0]
  /\ UNCHANGED <<hash_map_, tables, migrateVars, retireVars,
                 mine, op, cell, task, old, called, results>>

MapStep(t) ==
  \/ Call(t) \/ LoadMap(t) \/ StoreHazard(t) \/ Probe(t) \/ UseValue(t)
  \/ LockToMigrate(t) \/ TakeTask(t) \/ TakeCell(t) \/ PutCell(t)
  \/ LockAfterMigrate(t) \/ Woken(t)

MapNext ==
  /\ ~overflow
  /\ \E t \in MapThread : (MapStep(t) /\ UNCHANGED overflow) \/ MigrationOverflow(t)

MapSpec == MapInit /\ [][MapNext]_mapVars

-----------------------------------------------------------------------------
(* Properties *)

(* Whoever inserts or finds a key gets the same value, and gets it always      *)
(* once a call that was over before has got it, however many tables the value   *)
(* has moved through meanwhile.                                                *)
(* No table is used after its deletion, a thread that waits for the end of a     *)
(* migration waits for one that somebody is running, and none runs while there   *)
(* is a table for insert and find: the CHECKs of do_migrate and init_migrate.    *)
(* "Migration overflow" takes more keys in the old table than a probe passes at  *)
(* least: more than 300.                                                      *)
MapAgrees ==
  /\ \A k \in MapKey : Cardinality(results[k]) <= 1 /\ Moved \notin results[k]
  /\ hash_map_ # NoTable => from = NoTable /\ cnt = 0
  /\ \A t \in MapThread :
       /\ mpc[t] \in {"probe", "value"} => mine[t] \notin deleted
       /\ mpc[t] \in {"take", "put"} => from \in Table \ deleted
       /\ mpc[t] = "lock" /\ hash_map_ = NoTable => from # NoTable
       /\ mpc[t] = "wait" /\ waits_for[t] = generation =>
            \E u \in MapThread : mpc[u] \in {"task", "take", "put", "relock"}
  /\ overflow => Cardinality({c \in Cells(from) : key[from][c] # EmptyKey}) > MinProbes

(* find never returns the mark of a moved cell, which is no value.  It does,    *)
(* if a cell was moved before its value was set, and the key is not in the      *)
(* next table yet.                                                              *)
NoMarkReturned ==
  \A t \in MapThread :
    mpc[t] = "probe" /\ op[t].kind = "find" /\ op[t].value = Moved =>
      \E c \in Cells(mine[t]) : key[mine[t]][c] = op[t].key
=============================================================================
