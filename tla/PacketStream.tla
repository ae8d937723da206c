---------------------------- MODULE PacketStream ----------------------------
(***************************************************************************)
(* What the handlers of packets rely on: the packets a peer has sent are    *)
(* handled one by one, in the order sent, each whole, and none before its  *)
(* last byte has arrived. A byte is identified by its position in the      *)
(* stream; packet p consists of the bytes stream[p] to stream[p + 1] - 1.  *)
(***************************************************************************)
EXTENDS Naturals

CONSTANTS
  N,            (* number of packets sent                                   *)
  Streams       (* where packets may begin; entry N is the stream's length  *)

VARIABLES
  stream,       (* where they do                                            *)
  arrived,      (* number of bytes that have arrived                        *)
  count,        (* number of packets handled                                *)
  last          (* the bytes of the last one handled                        *)

vars == <<stream, arrived, count, last>>

BytesOf(p) == [i \in 0..(stream[p + 1] - stream[p] - 1) |-> stream[p] + i]

Init ==
  /\ stream \in Streams
  /\ arrived = 0
  /\ count = 0
  /\ last = [i \in {} |-> 0]

Arrive ==
  /\ arrived' \in (arrived + 1)..stream[N]
  /\ UNCHANGED <<stream, count, last>>

Handle ==
  /\ count < N
  /\ stream[count + 1] <= arrived
  /\ count' = count + 1
  /\ last' = BytesOf(count)
  /\ UNCHANGED <<stream, arrived>>

Next == Arrive \/ Handle

Spec == Init /\ [][Next]_vars

=============================================================================
