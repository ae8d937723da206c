------------------------------ MODULE Framing ------------------------------
(***************************************************************************)
(* One connection, its bytes and how the two ends cut them into packets:    *)
(* process_data of the client, which keeps the beginning of a packet until *)
(* the rest has arrived, and process_recv of the server, which handles it  *)
(* at once and remembers how many bytes it handled too many. TCP delivers  *)
(* the bytes in order but in pieces of any size. A byte is identified by   *)
(* its position in the stream.                                             *)
(***************************************************************************)
EXTENDS Integers

CONSTANTS
  N,            (* number of packets sent each way                          *)
  DownStreams,  (* where the server's packets may begin (entry N: the end)  *)
  UpStreams,    (* where the client's packets may begin                     *)
  BufSize,      (* BUF_SIZE, of the three buffers                           *)
  SignBit,      (* bytes from here on are negative as a char                *)
  MaxByte,      (* the largest byte                                         *)
  Slack,        (* bytes between _comp_type and _send_buf in an IoOver      *)
  MaxHandled    (* bound: packets handled by the server                     *)

IsStream(s, sizes) ==
  /\ s \in [0..N -> Nat]
  /\ s[0] = 0
  /\ \A p \in 0..(N - 1) : s[p + 1] - s[p] \in sizes \ {0}

(* Protocol shows it of the packets of game_header.h.                       *)
ASSUME FramingAssumption ==
  /\ N \in Nat /\ BufSize \in Nat /\ Slack \in Nat /\ MaxHandled \in Nat
  /\ SignBit \in Nat /\ MaxByte \in Nat /\ SignBit <= MaxByte + 1
  /\ \A s \in DownStreams : IsStream(s, 0..(SignBit - 1) \cap 0..BufSize)
  /\ \A s \in UpStreams : IsStream(s, 0..MaxByte)

VARIABLES
  (* the client *)
  down,         (* the stream to it                                         *)
  arrived,      (* bytes received, by all calls of receive                  *)
  at,           (* ptr; io_byte is arrived - at                             *)
  inSize,       (* in_packet_size, 0 when it is not known                   *)
  saved,        (* saved_packet_size                                        *)
  packetBuffer, (* packet_buffer                                            *)
  count,        (* packets handled                                          *)
  last,         (* the bytes of the last one                                *)
  (* the session in the server *)
  up,           (* the stream to it                                         *)
  received,     (* bytes received                                           *)
  prevRemain,   (* _prev_remain                                             *)
  recvBuf,      (* _recv_over._send_buf                                     *)
  iter, end,    (* the loop of process_recv; equal when it is not running   *)
  upCount,      (* packets handled                                          *)
  deaf,         (* _comp_type has been overwritten                          *)
  starved       (* history: the rest of a cut packet has arrived alone      *)

clientVars == <<down, arrived, at, inSize, saved, packetBuffer, count, last>>
serverVars == <<up, received, prevRemain, recvBuf, iter, end, upCount, deaf, starved>>
vars == <<clientVars, serverVars>>

NoByte == -1
Blank == [i \in 0..(BufSize - 1) |-> NoByte]
Nothing == [i \in {} |-> 0]

(* The values byte b of stream s may have: the size, if it is the first of  *)
(* a packet, and otherwise anything. What is not of the stream is anything. *)
Values(s, b) ==
  {v \in 0..MaxByte : \A p \in 0..(N - 1) : s[p] = b => v = s[p + 1] - s[p]}

(* Bytes from.. of the stream land at to.. of a buffer, as far as they fit. *)
Copied(buf, to, from, n) ==
  [i \in 0..(BufSize - 1) |-> IF i \in to..(to + n - 1) THEN from + (i - to) ELSE buf[i]]

Init ==
  /\ down \in DownStreams
  /\ arrived = 0 /\ at = 0
  /\ inSize = 0 /\ saved = 0
  /\ packetBuffer = Blank
  /\ count = 0 /\ last = Nothing
  /\ up \in UpStreams
  /\ received = 0 /\ prevRemain = 0
  /\ recvBuf = Blank
  /\ iter = 0 /\ end = 0
  /\ upCount = 0
  /\ deaf = FALSE /\ starved = FALSE

-----------------------------------------------------------------------------
(* The client. Its one thread receives again when process_data has returned. *)

Receive(n) ==
  /\ at = arrived
  /\ arrived + n <= down[N]
  /\ arrived' = arrived + n
  /\ UNCHANGED <<down, at, inSize, saved, packetBuffer, count, last, serverVars>>

(* Mutant: the largest size is negative, too.                                *)
AsSizeShort(v) == IF v < SignBit - 1 THEN v ELSE v + 2 * BufSize

(* ptr[0] is a char that becomes a size_t: a negative one becomes larger     *)
(* than any number of bytes.                                               *)
AsSize(v) == IF v < SignBit THEN v ELSE v + 2 * BufSize

InPacketSize == IF inSize = 0 THEN {AsSize(v) : v \in Values(down, at)} ELSE {inSize}

Complete ==
  /\ at < arrived
  /\ \E size \in InPacketSize :
       /\ arrived - at + saved >= size
       /\ packetBuffer' = Copied(packetBuffer, saved, at, size - saved)
       /\ at' = at + (size - saved)
       /\ last' = [i \in 0..(size - 1) |-> packetBuffer'[i]]
  /\ inSize' = 0
  /\ saved' = 0
  /\ count' = count + 1
  /\ UNCHANGED <<down, arrived, serverVars>>

(* Mutant: what is kept goes to the start of the buffer.                     *)
KeepAtStart ==
  /\ at < arrived
  /\ \E size \in InPacketSize :
       /\ arrived - at + saved < size
       /\ inSize' = size
  /\ packetBuffer' = Copied(packetBuffer, 0, at, arrived - at)
  /\ saved' = saved + (arrived - at)
  /\ at' = arrived
  /\ UNCHANGED <<down, arrived, count, last, serverVars>>

Keep ==
  /\ at < arrived
  /\ \E size \in InPacketSize :
       /\ arrived - at + saved < size
       /\ inSize' = size
  /\ packetBuffer' = Copied(packetBuffer, saved, at, arrived - at)
  /\ saved' = saved + (arrived - at)
  /\ at' = arrived
  /\ UNCHANGED <<down, arrived, count, last, serverVars>>

process_data == Complete \/ Keep

-----------------------------------------------------------------------------
(* Mutant: every receive starts at the buffer.                               *)
do_recvAtStart(n) ==
  /\ iter = end
  /\ ~deaf
  /\ n <= BufSize - prevRemain
  /\ received + n <= up[N]
  /\ received' = received + n
  /\ recvBuf' = Copied(recvBuf, 0, received, n)
  /\ UNCHANGED <<up, prevRemain, upCount, clientVars>>

(* The server. do_recv receives into the buffer at _prev_remain, at most     *)
(* BUF_SIZE - _prev_remain bytes. _prev_remain is never positive (so the    *)
(* memcpy at the end of process_recv copies nothing); where it is negative, *)
(* the bytes that are still owed to a packet handled before land in front  *)
(* of the buffer.                                                          *)

do_recv(n) ==
  /\ iter = end
  /\ ~deaf
  /\ n <= BufSize - prevRemain
  /\ received + n <= up[N]
  /\ received' = received + n
  /\ recvBuf' = Copied(recvBuf, prevRemain, received, n)
  /\ UNCHANGED <<up, prevRemain, upCount, clientVars>>

(* A total of 0 returns with _prev_remain as it was.                         *)
RecvNothing(n) ==
  /\ do_recv(n)
  /\ n + prevRemain = 0
  /\ starved' = TRUE
  /\ UNCHANGED <<iter, end, deaf>>

(* If the total is negative, the loop still handles what is at the start of  *)
(* the buffer.                                                             *)
Recv(n) ==
  /\ do_recv(n)
  /\ n + prevRemain # 0
  /\ iter' = 0
  /\ end' = n + prevRemain
  /\ starved' = (starved \/ n + prevRemain < 0)
  /\ UNCHANGED deaf

(* Far enough in front of the buffer lies _comp_type: if its bytes change,   *)
(* the completion is of no known kind and nobody receives again.           *)
RecvOverType(n) ==
  /\ do_recv(n)
  /\ prevRemain < - Slack
  /\ deaf' = TRUE
  /\ UNCHANGED <<iter, end, starved>>

(* Mutant: one packet is handled for each receive.                           *)
HandleOne ==
  /\ iter # end
  /\ upCount < MaxHandled
  /\ \E size \in (IF recvBuf[iter] = NoByte THEN 0..MaxByte ELSE Values(up, recvBuf[iter])) :
       prevRemain' = end - (iter + size)
  /\ iter' = 0 /\ end' = 0
  /\ upCount' = upCount + 1
  /\ UNCHANGED <<up, received, recvBuf, deaf, starved, clientVars>>

(* process_packet and the end of the loop. A size of 0 keeps the loop going  *)
(* for ever (the release build does not test it).                          *)
HandleNext ==
  /\ iter # end
  /\ upCount < MaxHandled
  /\ \E size \in (IF recvBuf[iter] = NoByte THEN 0..MaxByte ELSE Values(up, recvBuf[iter])) :
       IF end <= iter + size
       THEN /\ prevRemain' = end - (iter + size)
            /\ iter' = 0 /\ end' = 0
       ELSE /\ iter' = iter + size
            /\ UNCHANGED <<prevRemain, end>>
  /\ upCount' = upCount + 1
  /\ UNCHANGED <<up, received, recvBuf, deaf, starved, clientVars>>

process_recv(n) == RecvNothing(n) \/ Recv(n) \/ RecvOverType(n)

-----------------------------------------------------------------------------

Next ==
  \/ \E n \in 1..BufSize : Receive(n)
  \/ process_data
  \/ \E n \in 1..(BufSize - prevRemain) : process_recv(n)
  \/ HandleNext

Spec == Init /\ [][Next]_vars

(* The client goes on with what it has received.                             *)
FairSpec == Spec /\ WF_vars(process_data)

-----------------------------------------------------------------------------

(* Types and ranges: the client never writes behind its packet_buffer, and   *)
(* the server never counts a byte left over.                               *)
TypeOK ==
  /\ down \in DownStreams /\ up \in UpStreams
  /\ arrived \in 0..down[N] /\ at \in 0..arrived
  /\ inSize \in 0..BufSize /\ saved \in Nat
  /\ (saved = 0 /\ inSize = 0) \/ saved < inSize
  /\ packetBuffer \in [0..(BufSize - 1) -> {NoByte} \cup Nat]
  /\ count \in 0..N
  /\ received \in 0..up[N]
  /\ prevRemain \in Int /\ prevRemain <= 0
  /\ recvBuf \in [0..(BufSize - 1) -> {NoByte} \cup Nat]
  /\ iter \in Nat /\ end \in Int /\ end <= BufSize
  /\ iter < end \/ iter = 0
  /\ upCount \in 0..MaxHandled
  /\ deaf \in BOOLEAN /\ starved \in BOOLEAN

(* The client's handlers are called with the packets the server has sent,   *)
(* whole and in order, however TCP cuts the stream (process_data).         *)
Stream == INSTANCE PacketStream WITH Streams <- DownStreams, stream <- down
ClientImplements == Stream!Spec

(* A packet that has arrived is handled in the end, without waiting for more. *)
ArrivedIsHandled ==
  \A p \in 1..N : (down[p] <= arrived) ~> (count >= p)

(* As long as the rest of a packet that was cut has never come alone, the    *)
(* server is in step: what it is about to handle is the first packet it has *)
(* not handled yet, and all of it that has arrived is in its place          *)
(* (session.cpp:98-123).                                                   *)
InStepUnlessStarved ==
  iter # end /\ ~starved =>
    /\ upCount < N
    /\ \A i \in iter..(end - 1) : recvBuf[i] = up[upCount] + (i - iter)

=============================================================================
