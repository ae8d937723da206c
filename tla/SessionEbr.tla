----------------------------- MODULE SessionEbr -----------------------------
(***************************************************************************)
(* The epoch-based reclamation of session objects (class SessionEbr): a    *)
(* global epoch counter, one epoch slot per thread, and one queue of       *)
(* retired objects per thread. The operators are the steps the threads of  *)
(* ServerSessions take on this state; a step is one access to shared       *)
(* memory, the thread's own queue is not shared.                           *)
(***************************************************************************)
EXTENDS Naturals, Sequences

CONSTANTS
  N,            (* number of threads that enter epochs                      *)
  Objects       (* addresses of session objects                             *)

ASSUME ThreadsAssumption == N \in Nat \ {0}

VARIABLES
  epochCounter, (* _epoch_counter                                           *)
  epochArray,   (* _epoch_array: 0 for a thread outside any epoch           *)
  freeQueue,    (* _free_queue, thread_local, of tag SESSION                *)
  stamp,        (* _epoch_counter of each object                            *)
  allocated     (* addresses obtained from new                              *)

ebrVars == <<epochCounter, epochArray, freeQueue, stamp, allocated>>

Threads == 0 .. N - 1

EbrInit ==
  /\ epochCounter = 1
  /\ epochArray = [t \in Threads |-> 0]
  /\ freeQueue = [t \in Threads |-> <<>>]
  /\ stamp = [o \in Objects |-> 0]
  /\ allocated = {}

(* begin_epoch: the fetch_add ...                                           *)
FetchEpoch == epochCounter' = epochCounter + 1

(* ... and the store of the value it returned.                              *)
StoreEpoch(t, epoch) == epochArray' = [epochArray EXCEPT ![t] = epoch]

EndEpoch(t) == epochArray' = [epochArray EXCEPT ![t] = 0]

(* Bug: the object keeps the stamp it was born with. *)
PushUnstamped(t, o) ==
  /\ freeQueue' = [freeQueue EXCEPT ![t] = Append(@, o)]
  /\ UNCHANGED stamp

(* push_ptr: stamp the object and queue it. *)
PushPtr(t, o) ==
  /\ stamp' = [stamp EXCEPT ![o] = epochCounter]
  /\ freeQueue' = [freeQueue EXCEPT ![t] = Append(@, o)]

(* pop_ptr looks at one slot after the other. A thread that entered before  *)
(* the oldest object of the queue was retired may still use it.             *)
MayUseHead(t, u) ==
  /\ epochArray[u] # 0
  /\ epochArray[u] < stamp[Head(freeQueue[t])]

(* new: an address never handed out before, for nothing is ever deleted.    *)
AllocateNew(o) ==
  /\ o \in Objects \ allocated
  /\ allocated' = allocated \union {o}
  /\ stamp' = [stamp EXCEPT ![o] = 0]
  /\ UNCHANGED freeQueue

(* The oldest object is destroyed and constructed again at its address.     *)
ReuseHead(t) ==
  /\ freeQueue' = [freeQueue EXCEPT ![t] = Tail(@)]
  /\ stamp' = [stamp EXCEPT ![Head(freeQueue[t])] = 0]
  /\ UNCHANGED allocated

(* Every variable has its type. *)
EbrTypeOK ==
  /\ epochCounter \in Nat \ {0}
  /\ epochArray \in [Threads -> Nat]
  /\ freeQueue \in [Threads -> Seq(Objects)]
  /\ stamp \in [Objects -> Nat]
  /\ allocated \subseteq Objects

=============================================================================
