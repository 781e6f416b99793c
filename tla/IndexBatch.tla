------------------------------ MODULE IndexBatch ------------------------------
(***************************************************************************)
(* The index key/value contract of index.go: IndexStorage (Set, Delete,    *)
(* BeginBatch, CommitBatch) and the batch type whose Set and Delete append *)
(* a mutation to b.m.  No IndexStorage implementation is in the source;    *)
(* the store operations follow spec 4.5 and an implementation of the      *)
(* usual shape: one mutex, CommitBatch applying b.m in order under it.     *)
(* Several index writers (goroutines) use the store concurrently, each     *)
(* with its own batch.                                                     *)
(***************************************************************************)
EXTENDS Naturals, Sequences, SequencesExt

CONSTANTS
  Writers,     \* goroutines writing to the index
  Keys,
  Values,      \* string values; EmptyValue is Go's ""
  EmptyValue,
  Missing,     \* a key with no value in the store
  NoHolder,    \* the store mutex is free
  MaxStaged,   \* bound: mutations per batch
  MaxOps       \* bound: store operations per writer

ASSUME /\ EmptyValue \in Values /\ Missing \notin Values
       /\ NoHolder \notin Writers
       /\ MaxStaged \in Nat /\ MaxOps \in Nat

(* type mutation struct { key, value string; delete bool }                 *)
Mutation == [key : Keys, value : Values, delete : BOOLEAN]

(* One iteration of the commit loop: apply m to the map.                   *)
ApplyOne(store, m) == [store EXCEPT ![m.key] = IF m.delete THEN Missing ELSE m.value]

VARIABLES
  store,   \* the backend's map
  lock,    \* holder of the backend's mutex
  batch,   \* b.m of each writer's current batch
  wpc,     \* "idle", "staging" (holds a batch), "commit" (inside CommitBatch)
  ci,      \* mutations of b.m the running commit has applied
  ops      \* store operations each writer has begun

vars == <<store, lock, batch, wpc, ci, ops>>

TypeOK ==
  /\ store \in [Keys -> Values \cup {Missing}]
  /\ lock \in Writers \cup {NoHolder}
  /\ batch \in [Writers -> BoundedSeq(Mutation, MaxStaged)]
  /\ wpc \in [Writers -> {"idle", "staging", "commit"}]
  /\ \A w \in Writers : ci[w] \in 0..Len(batch[w])
  /\ ops \in [Writers -> 0..MaxOps]

Init ==
  /\ store = [k \in Keys |-> Missing]
  /\ lock = NoHolder
  /\ batch = [w \in Writers |-> <<>>]
  /\ wpc = [w \in Writers |-> "idle"]
  /\ ci = [w \in Writers |-> 0]
  /\ ops = [w \in Writers |-> 0]

(* IndexStorage.Set(key, value): one write under the mutex.                *)
Set(w, k, v) ==
  /\ wpc[w] # "commit" /\ lock = NoHolder /\ ops[w] < MaxOps
  /\ store' = [store EXCEPT ![k] = v]
  /\ ops' = [ops EXCEPT ![w] = @ + 1]
  /\ UNCHANGED <<lock, batch, wpc, ci>>

(* IndexStorage.Delete(key).                                               *)
Delete(w, k) ==
  /\ wpc[w] # "commit" /\ lock = NoHolder /\ ops[w] < MaxOps
  /\ store' = [store EXCEPT ![k] = Missing]
  /\ ops' = [ops EXCEPT ![w] = @ + 1]
  /\ UNCHANGED <<lock, batch, wpc, ci>>

(* IndexStorage.BeginBatch(): a new &batch{} with no mutations.            *)
BeginBatch(w) ==
  /\ wpc[w] = "idle" /\ ops[w] < MaxOps
  /\ batch' = [batch EXCEPT ![w] = <<>>]
  /\ wpc' = [wpc EXCEPT ![w] = "staging"]
  /\ ops' = [ops EXCEPT ![w] = @ + 1]
  /\ UNCHANGED <<store, lock, ci>>

(* batch.Set:   b.m = append(b.m, mutation{key: key, value: value}).     *)
BatchSet(w, k, v) ==
  /\ wpc[w] = "staging" /\ Len(batch[w]) < MaxStaged
  /\ batch' = [batch EXCEPT ![w] = Append(@, [key |-> k, value |-> v, delete |-> FALSE])]
  /\ UNCHANGED <<store, lock, wpc, ci, ops>>

(* batch.Delete:   b.m = append(b.m, mutation{key: key, delete: true}).   *)
BatchDelete(w, k) ==
  /\ wpc[w] = "staging" /\ Len(batch[w]) < MaxStaged
  /\ batch' = [batch EXCEPT ![w] = Append(@, [key |-> k, value |-> EmptyValue, delete |-> TRUE])]
  /\ UNCHANGED <<store, lock, wpc, ci, ops>>

(* Mutant of CommitBegin: the loop index starts at 1.                      *)
CommitBeginAtOne(w) ==
  /\ wpc[w] = "staging" /\ lock = NoHolder
  /\ lock' = w
  /\ wpc' = [wpc EXCEPT ![w] = "commit"]
  /\ ci' = [ci EXCEPT ![w] = 1]
  /\ UNCHANGED <<store, batch, ops>>

(* IndexStorage.CommitBatch(b): take the mutex ...  (a batch is committed *)
(* once; spec 4.5 says the handle is then spent).                          *)
CommitBegin(w) ==
  /\ wpc[w] = "staging" /\ lock = NoHolder
  /\ lock' = w
  /\ wpc' = [wpc EXCEPT ![w] = "commit"]
  /\ ci' = [ci EXCEPT ![w] = 0]
  /\ UNCHANGED <<store, batch, ops>>

(* ... apply b.m[ci] ...                                                   *)
CommitApply(w) ==
  /\ wpc[w] = "commit" /\ ci[w] < Len(batch[w])
  /\ store' = ApplyOne(store, batch[w][ci[w] + 1])
  /\ ci' = [ci EXCEPT ![w] = @ + 1]
  /\ UNCHANGED <<lock, batch, wpc, ops>>

(* ... and release it when b.m is exhausted; the batch is spent.           *)
CommitEnd(w) ==
  /\ wpc[w] = "commit" /\ ci[w] = Len(batch[w])
  /\ lock' = NoHolder
  /\ wpc' = [wpc EXCEPT ![w] = "idle"]
  /\ ci' = [ci EXCEPT ![w] = 0]
  /\ UNCHANGED <<store, batch, ops>>

(* Every writer has made its bounded number of operations and is idle.     *)
Finished ==
  /\ \A w \in Writers : wpc[w] = "idle" /\ ops[w] = MaxOps
  /\ UNCHANGED vars

Next ==
  \/ \E w \in Writers :
       \/ \E k \in Keys, v \in Values : Set(w, k, v) \/ BatchSet(w, k, v)
       \/ \E k \in Keys : Delete(w, k) \/ BatchDelete(w, k)
       \/ BeginBatch(w) \/ CommitBegin(w) \/ CommitApply(w) \/ CommitEnd(w)
  \/ Finished

Spec == Init /\ [][Next]_vars

=============================================================================
