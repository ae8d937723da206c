---------------------------- MODULE FramingProofs ----------------------------
(***************************************************************************)
(* Proofs about Framing, for packets of any sizes that the assumption       *)
(* admits, any number of them, and any way TCP cuts the streams.           *)
(***************************************************************************)
EXTENDS Framing, Protocol, TLAPS

ClientType ==
  /\ down \in DownStreams
  /\ arrived \in 0..down[N] /\ at \in 0..arrived
  /\ inSize \in 0..BufSize /\ saved \in Nat
  /\ (saved = 0 /\ inSize = 0) \/ saved < inSize
  /\ packetBuffer \in [0..(BufSize - 1) -> {NoByte} \cup Nat]
  /\ count \in 0..N

ServerType ==
  /\ up \in UpStreams
  /\ received \in 0..up[N]
  /\ prevRemain \in Int /\ prevRemain <= 0
  /\ recvBuf \in [0..(BufSize - 1) -> {NoByte} \cup Nat]
  /\ iter \in Nat /\ end \in Int /\ end <= BufSize
  /\ iter < end \/ iter = 0
  /\ upCount \in 0..MaxHandled
  /\ deaf \in BOOLEAN /\ starved \in BOOLEAN

(* What the client has kept is the beginning of the first packet it has not *)
(* handled, and in_packet_size is that packet's size.                      *)
ClientInStep ==
  /\ at - saved = down[count]
  /\ inSize # 0 => count < N /\ inSize = down[count + 1] - down[count]
  /\ \A i \in 0..(saved - 1) : packetBuffer[i] = down[count] + i

(* Where the server is in step: between two receives, what has been received *)
(* and what is owed end a packet; in the loop, the buffer up to end holds    *)
(* the bytes received last, and iter stands on the next packet.             *)
ServerInStep ==
  /\ deaf => iter = end
  /\ ~deaf /\ ~starved =>
       /\ upCount \in 0..N
       /\ iter = end => received - prevRemain = up[upCount]
       /\ iter # end =>
            /\ iter < end
            /\ received - (end - iter) = up[upCount]
            /\ \A i \in iter..(end - 1) : recvBuf[i] = received - (end - i)

ClientInv == ClientType /\ ClientInStep
ServerInv == ServerType /\ ServerInStep
IInv == ClientInv /\ ServerInv

(* The packets of a stream, and their sizes. *)
LEMMA Packet ==
  ASSUME NEW s, NEW sizes, sizes \subseteq Nat, IsStream(s, sizes), NEW p \in 0..(N - 1)
  PROVE  /\ s[p] \in Nat /\ s[p + 1] \in Nat /\ s[N] \in Nat
         /\ s[p + 1] - s[p] \in sizes \ {0}
         /\ p \in 0..N /\ p + 1 \in 0..N
BY FramingAssumption DEF IsStream

(* The size read from the first byte of a packet is the size of the packet. *)
LEMMA FirstByte ==
  ASSUME NEW s, NEW p \in 0..(N - 1), NEW v \in Values(s, s[p])
  PROVE  v = s[p + 1] - s[p]
BY DEF Values

LEMMA CopiedType ==
  ASSUME NEW buf \in [0..(BufSize - 1) -> {NoByte} \cup Nat], NEW to \in Int, NEW from \in Nat, NEW n \in Int
  PROVE  Copied(buf, to, from, n) \in [0..(BufSize - 1) -> {NoByte} \cup Nat]
<1>1. ASSUME NEW i \in 0..(BufSize - 1), i \in to..(to + n - 1)
      PROVE  from + (i - to) \in Nat
  BY <1>1, FramingAssumption
<1> QED BY <1>1 DEF Copied

(* A client's stream. *)
LEMMA DownStream ==
  ASSUME ClientType
  PROVE  /\ IsStream(down, 0..(SignBit - 1) \cap 0..BufSize)
         /\ 0..(SignBit - 1) \cap 0..BufSize \subseteq Nat
         /\ down[N] \in Nat /\ down \in [0..N -> Nat]
BY FramingAssumption DEF ClientType, IsStream

LEMMA UpStream ==
  ASSUME ServerType
  PROVE  /\ IsStream(up, 0..MaxByte) /\ 0..MaxByte \subseteq Nat
         /\ up[N] \in Nat /\ up \in [0..N -> Nat]
BY FramingAssumption DEF ServerType, IsStream

-----------------------------------------------------------------------------
(* The invariant holds initially. *)
LEMMA InitInvariant == Init => IInv
<1> SUFFICES ASSUME Init PROVE IInv
  OBVIOUS
<1>1. IsStream(down, 0..(SignBit - 1) \cap 0..BufSize) /\ IsStream(up, 0..MaxByte)
  BY FramingAssumption DEF Init
<1>2. down[0] = 0 /\ up[0] = 0 /\ down[N] \in Nat /\ up[N] \in Nat
  BY <1>1, FramingAssumption DEF IsStream
<1>3. Blank \in [0..(BufSize - 1) -> {NoByte} \cup Nat]
  BY DEF Blank
<1>4. ClientInv
  BY <1>2, <1>3, FramingAssumption DEF Init, ClientInv, ClientType, ClientInStep
<1>5. ServerType
  <2>1. up \in UpStreams /\ received \in 0..up[N] /\ recvBuf \in [0..(BufSize - 1) -> {NoByte} \cup Nat]
    BY <1>2, <1>3 DEF Init
  <2>2. 0 \in 0..MaxHandled /\ 0 <= BufSize
    BY FramingAssumption
  <2>3. deaf \in BOOLEAN /\ starved \in BOOLEAN
    BY DEF Init
  <2>4. prevRemain = 0 /\ iter = 0 /\ end = 0 /\ upCount = 0
    BY DEF Init
  <2> QED BY <2>1, <2>2, <2>3, <2>4 DEF ServerType
<1>6. ServerInStep
  BY <1>2, FramingAssumption DEF Init, ServerInStep
<1> QED BY <1>4, <1>5, <1>6 DEF IInv, ServerInv

(* The client has unread bytes only while there is a packet to come, and     *)
(* process_data knows or reads its size.                                   *)
LEMMA NextPacketSize ==
  ASSUME ClientInv, at < arrived, NEW size \in InPacketSize
  PROVE  /\ count \in 0..(N - 1)
         /\ size = down[count + 1] - down[count]
         /\ size \in 1..BufSize /\ saved < size
<1>1. count \in 0..(N - 1)
  BY DownStream, FramingAssumption DEF ClientInv, ClientType, ClientInStep
<1>2. /\ down[count] \in Nat /\ down[count + 1] \in Nat
      /\ down[count + 1] - down[count] \in 1..BufSize
      /\ down[count + 1] - down[count] < SignBit
  <2>1. /\ down[count] \in Nat /\ down[count + 1] \in Nat
        /\ down[count + 1] - down[count] \in (0..(SignBit - 1) \cap 0..BufSize) \ {0}
    BY <1>1, Packet, DownStream DEF ClientInv
  <2> QED BY <2>1, FramingAssumption
<1>3. CASE inSize # 0
  BY <1>1, <1>2, <1>3 DEF ClientInv, ClientType, ClientInStep, InPacketSize
<1>4. CASE inSize = 0
  <2>1. saved = 0 /\ at = down[count]
    BY <1>2, <1>4 DEF ClientInv, ClientType, ClientInStep
  <2>2. PICK v \in Values(down, down[count]) : size = AsSize(v)
    BY <1>4, <2>1 DEF InPacketSize
  <2>3. v = down[count + 1] - down[count]
    BY <1>1, <2>2, FirstByte
  <2> QED BY <1>1, <1>2, <2>1, <2>2, <2>3 DEF AsSize
<1> QED BY <1>3, <1>4

(* A packet is completed: it is the next one, whole. *)
LEMMA CompleteKeeps ==
  ASSUME ClientInv, Complete
  PROVE  ClientInv' /\ Stream!Handle
<1>1. PICK size \in InPacketSize :
        /\ arrived - at + saved >= size
        /\ packetBuffer' = Copied(packetBuffer, saved, at, size - saved)
        /\ at' = at + (size - saved)
        /\ last' = [i \in 0..(size - 1) |-> packetBuffer'[i]]
  BY DEF Complete
<1>2. /\ count \in 0..(N - 1) /\ size = down[count + 1] - down[count]
      /\ size \in 1..BufSize /\ saved < size
  BY <1>1, NextPacketSize DEF Complete
<1>3. /\ down[count] \in Nat /\ down[count + 1] \in Nat /\ down[N] \in Nat
      /\ arrived \in Nat /\ at \in Nat /\ saved \in Nat /\ at <= arrived /\ arrived <= down[N]
      /\ at - saved = down[count] /\ BufSize \in Nat /\ N \in Nat
  BY <1>2, Packet, DownStream, FramingAssumption DEF ClientInv, ClientType, ClientInStep
<1>4. at' = down[count + 1] /\ at' \in 0..arrived /\ down[count + 1] <= arrived
  <2>1. at' = at + (size - saved) /\ arrived - at + saved >= size
    BY <1>1
  <2>2. size \in Nat
    BY <1>2, <1>3
  <2>3. at + (size - saved) = down[count + 1]
    BY <1>2, <1>3, <2>2
  <2> QED BY <1>3, <2>1, <2>2, <2>3
<1>5. \A i \in 0..(size - 1) : packetBuffer'[i] = down[count] + i
  <2>1. TAKE i \in 0..(size - 1)
  <2>2. packetBuffer'[i] = IF i \in saved..(saved + (size - saved) - 1) THEN at + (i - saved) ELSE packetBuffer[i]
    BY <1>1, <1>2, <1>3 DEF Copied
  <2>3. CASE i < saved
    BY <1>2, <1>3, <2>2, <2>3 DEF ClientInv, ClientInStep
  <2>4. CASE i >= saved
    BY <1>2, <1>3, <2>2, <2>4
  <2> QED BY <1>3, <2>3, <2>4
<1>6. last' = Stream!BytesOf(count)
  BY <1>1, <1>2, <1>5 DEF Stream!BytesOf
<1>7. Stream!Handle
  BY <1>2, <1>3, <1>4, <1>6 DEF Stream!Handle, Complete
<1>8. ClientType'
  <2>1. packetBuffer' \in [0..(BufSize - 1) -> {NoByte} \cup Nat]
    <3>1. packetBuffer \in [0..(BufSize - 1) -> {NoByte} \cup Nat] /\ saved \in Int /\ size - saved \in Int
      BY <1>2, <1>3 DEF ClientInv, ClientType
    <3> QED BY <1>1, <1>3, <3>1, CopiedType
  <2> QED BY <1>2, <1>3, <1>4, <2>1 DEF ClientInv, ClientType, Complete
<1>9. ClientInStep'
  BY <1>2, <1>3, <1>4 DEF ClientInStep, Complete
<1> QED BY <1>7, <1>8, <1>9 DEF ClientInv

(* The beginning of a packet is kept behind what is there of it. *)
LEMMA KeepKeeps ==
  ASSUME ClientInv, Keep
  PROVE  ClientInv'
<1>1. PICK size \in InPacketSize : arrived - at + saved < size /\ inSize' = size
  BY DEF Keep
<1>2. /\ count \in 0..(N - 1) /\ size = down[count + 1] - down[count]
      /\ size \in 1..BufSize /\ saved < size
  BY <1>1, NextPacketSize DEF Keep
<1>3. /\ down[count] \in Nat /\ down[count + 1] \in Nat /\ down[N] \in Nat
      /\ arrived \in Nat /\ at \in Nat /\ saved \in Nat /\ at < arrived /\ arrived <= down[N]
      /\ at - saved = down[count] /\ BufSize \in Nat /\ N \in Nat
  BY <1>2, Packet, DownStream, FramingAssumption DEF ClientInv, ClientType, ClientInStep, Keep
<1>4. /\ saved' = saved + (arrived - at) /\ at' = arrived /\ arrived' = arrived
      /\ count' = count /\ down' = down
      /\ packetBuffer' = Copied(packetBuffer, saved, at, arrived - at)
  BY DEF Keep
<1>5. \A i \in 0..(saved' - 1) : packetBuffer'[i] = down[count] + i
  <2>1. TAKE i \in 0..(saved' - 1)
  <2>2. i \in 0..(BufSize - 1)
    BY <1>1, <1>2, <1>3, <1>4
  <2>3. packetBuffer'[i] = IF i \in saved..(saved + (arrived - at) - 1) THEN at + (i - saved) ELSE packetBuffer[i]
    BY <1>4, <2>2 DEF Copied
  <2>4. CASE i < saved
    BY <1>3, <2>3, <2>4 DEF ClientInv, ClientInStep
  <2>5. CASE i >= saved
    BY <1>3, <1>4, <2>3, <2>5
  <2> QED BY <1>3, <2>4, <2>5
<1>6. packetBuffer' \in [0..(BufSize - 1) -> {NoByte} \cup Nat]
  <2>1. packetBuffer \in [0..(BufSize - 1) -> {NoByte} \cup Nat] /\ saved \in Int /\ arrived - at \in Int
    BY <1>3 DEF ClientInv, ClientType
  <2> QED BY <1>3, <1>4, <2>1, CopiedType
<1>7. ClientType'
  BY <1>1, <1>2, <1>3, <1>4, <1>6 DEF ClientInv, ClientType
<1>8. ClientInStep'
  BY <1>1, <1>2, <1>3, <1>4, <1>5 DEF ClientInv, ClientInStep
<1> QED BY <1>7, <1>8 DEF ClientInv

LEMMA ReceiveKeeps ==
  ASSUME ClientInv, NEW n \in 1..BufSize, Receive(n)
  PROVE  ClientInv' /\ Stream!Arrive
<1>1. down[N] \in Nat /\ BufSize \in Nat
  BY DownStream, FramingAssumption DEF ClientInv
<1>2. ClientType' /\ ClientInStep'
  BY <1>1 DEF ClientInv, ClientType, ClientInStep, Receive
<1>3. Stream!Arrive
  BY <1>1 DEF ClientInv, ClientType, Receive, Stream!Arrive
<1> QED BY <1>2, <1>3 DEF ClientInv

(* The client's part of any step, and what it is to PacketStream. *)
LEMMA ClientStep ==
  ASSUME ClientInv, [Next]_vars
  PROVE  ClientInv' /\ [Stream!Next]_(Stream!vars)
<1>1. CASE \E n \in 1..BufSize : Receive(n)
  BY <1>1, ReceiveKeeps DEF Stream!Next
<1>2. CASE Complete
  BY <1>2, CompleteKeeps DEF Stream!Next
<1>3. CASE Keep
  BY <1>3, KeepKeeps DEF Keep, Stream!vars
<1>4. CASE UNCHANGED clientVars
  BY <1>4 DEF clientVars, ClientInv, ClientType, ClientInStep, Stream!vars
<1>5. Next => \/ \E n \in 1..BufSize : Receive(n)
              \/ Complete \/ Keep
              \/ UNCHANGED clientVars
  BY DEF Next, process_data, process_recv, RecvNothing, Recv, RecvOverType, do_recv, HandleNext
<1> QED BY <1>1, <1>2, <1>3, <1>4, <1>5 DEF vars

-----------------------------------------------------------------------------
(* A receive in the server. *)
LEMMA do_recvKeeps ==
  ASSUME ServerInv, NEW n \in 1..(BufSize - prevRemain), do_recv(n)
  PROVE  /\ n \in Nat /\ BufSize \in Nat /\ up[N] \in Nat
         /\ iter = 0 /\ end = 0
         /\ received' \in 0..up[N] /\ received' = received + n
         /\ recvBuf' \in [0..(BufSize - 1) -> {NoByte} \cup Nat]
         /\ \A i \in 0..(n + prevRemain - 1) : recvBuf'[i] = received' - (n + prevRemain - i)
<1>1. n \in Nat /\ n > 0 /\ BufSize \in Nat /\ up[N] \in Nat /\ received \in Nat /\ prevRemain \in Int /\ prevRemain <= 0
  BY UpStream, FramingAssumption DEF ServerInv, ServerType
<1>2. iter = 0 /\ end = 0
  BY DEF ServerInv, ServerType, do_recv
<1>3. recvBuf' = Copied(recvBuf, prevRemain, received, n) /\ received' = received + n /\ received' \in 0..up[N]
  BY <1>1 DEF do_recv
<1>4. recvBuf' \in [0..(BufSize - 1) -> {NoByte} \cup Nat]
  <2>1. recvBuf \in [0..(BufSize - 1) -> {NoByte} \cup Nat] /\ n \in Int
    BY <1>1 DEF ServerInv, ServerType
  <2> QED BY <1>1, <1>3, <2>1, CopiedType
<1>5. ASSUME NEW i \in 0..(n + prevRemain - 1)
      PROVE  recvBuf'[i] = received' - (n + prevRemain - i)
  <2>1. i \in 0..(BufSize - 1) /\ i \in prevRemain..(prevRemain + n - 1)
    BY <1>1
  <2>2. recvBuf'[i] = received + (i - prevRemain)
    BY <1>3, <2>1 DEF Copied
  <2> QED BY <1>1, <1>3, <2>1, <2>2
<1> QED BY <1>1, <1>2, <1>3, <1>4, <1>5

LEMMA process_recvKeeps ==
  ASSUME ServerInv, NEW n \in 1..(BufSize - prevRemain), process_recv(n)
  PROVE  ServerInv'
<1>1. do_recv(n)
  BY DEF process_recv, RecvNothing, Recv, RecvOverType
<1>2. /\ n \in Nat /\ BufSize \in Nat /\ up[N] \in Nat
      /\ iter = 0 /\ end = 0
      /\ received' \in 0..up[N] /\ received' = received + n
      /\ recvBuf' \in [0..(BufSize - 1) -> {NoByte} \cup Nat]
      /\ \A i \in 0..(n + prevRemain - 1) : recvBuf'[i] = received' - (n + prevRemain - i)
  BY <1>1, do_recvKeeps
<1>3. /\ up' = up /\ prevRemain' = prevRemain /\ upCount' = upCount
      /\ n + prevRemain <= BufSize /\ prevRemain \in Int /\ prevRemain <= 0 /\ received \in Nat
  BY <1>1, <1>2 DEF do_recv, ServerInv, ServerType
<1>4. CASE RecvNothing(n)
  <2>1. ServerType'
    BY <1>2, <1>3, <1>4 DEF ServerInv, ServerType, RecvNothing
  <2>2. ServerInStep'
    BY <1>2, <1>3, <1>4 DEF ServerInv, ServerInStep, RecvNothing
  <2> QED BY <2>1, <2>2 DEF ServerInv
<1>5. CASE Recv(n)
  <2>1. ~deaf /\ deaf' = deaf /\ iter' = 0 /\ end' = n + prevRemain
    BY <1>1, <1>5 DEF do_recv, Recv
  <2>2. ServerType'
    BY <1>2, <1>3, <1>5, <2>1 DEF ServerInv, ServerType, Recv
  <2>3. ASSUME ~starved' PROVE upCount \in 0..N /\ received - prevRemain = up[upCount] /\ 0 < end' /\ up[upCount] \in Nat
    <3>1. ~starved /\ ~(n + prevRemain < 0) /\ n + prevRemain # 0
      BY <1>5, <2>3 DEF Recv
    <3>2. upCount \in 0..N /\ received - prevRemain = up[upCount]
      BY <1>2, <2>1, <3>1 DEF ServerInv, ServerInStep
    <3>3. up[upCount] \in Nat
      BY <3>2, UpStream DEF ServerInv
    <3> QED BY <1>2, <1>3, <2>1, <3>1, <3>2, <3>3
  <2>4. ASSUME ~starved' PROVE received' - (end' - iter') = up'[upCount']
    BY <1>2, <1>3, <2>1, <2>3, <2>4
  <2>5. ServerInStep'
    BY <1>2, <1>3, <2>1, <2>3, <2>4 DEF ServerInStep
  <2> QED BY <2>2, <2>5 DEF ServerInv
<1>6. CASE RecvOverType(n)
  <2>1. ServerType'
    BY <1>2, <1>3, <1>6 DEF ServerInv, ServerType, RecvOverType
  <2>2. ServerInStep'
    BY <1>2, <1>3, <1>6 DEF ServerInv, ServerInStep, RecvOverType
  <2> QED BY <2>1, <2>2 DEF ServerInv
<1> QED BY <1>4, <1>5, <1>6 DEF process_recv

(* While the server is in step, what the loop looks at is a packet. *)
LEMMA OnPacket ==
  ASSUME ServerInv, iter # end, ~starved
  PROVE  /\ upCount \in 0..(N - 1)
         /\ up[upCount] \in Nat /\ up[upCount + 1] \in Nat
         /\ iter < end /\ received - (end - iter) = up[upCount]
         /\ \A i \in iter..(end - 1) : recvBuf[i] = up[upCount] + (i - iter)
<1>1. ~deaf /\ upCount \in 0..N /\ iter < end /\ received - (end - iter) = up[upCount]
      /\ \A i \in iter..(end - 1) : recvBuf[i] = received - (end - i)
  BY DEF ServerInv, ServerInStep
<1>2. up[N] \in Nat /\ received \in Nat /\ received <= up[N] /\ iter \in Nat /\ end \in Int /\ N \in Nat
  BY UpStream, FramingAssumption DEF ServerInv, ServerType
<1>3. upCount \in 0..(N - 1)
  BY <1>1, <1>2
<1>4. up[upCount] \in Nat /\ up[upCount + 1] \in Nat
  BY <1>3, UpStream, Packet DEF ServerInv
<1> QED BY <1>1, <1>2, <1>3, <1>4

LEMMA HandleNextKeeps ==
  ASSUME ServerInv, HandleNext
  PROVE  ServerInv'
<1>1. PICK size \in (IF recvBuf[iter] = NoByte THEN 0..MaxByte ELSE Values(up, recvBuf[iter])) :
        IF end <= iter + size
        THEN prevRemain' = end - (iter + size) /\ iter' = 0 /\ end' = 0
        ELSE iter' = iter + size /\ UNCHANGED <<prevRemain, end>>
  BY DEF HandleNext
<1>2. size \in 0..MaxByte /\ MaxByte \in Nat /\ BufSize \in Nat
  BY <1>1, FramingAssumption DEF Values
<1>3. ServerType'
  BY <1>1, <1>2, FramingAssumption DEF ServerInv, ServerType, HandleNext
<1>4. ~deaf /\ ~deaf' /\ starved' = starved /\ iter \in Nat /\ end \in Int /\ received \in Int
  BY DEF ServerInv, ServerInStep, ServerType, HandleNext
<1>5. ASSUME ~starved PROVE ServerInStep'
  <2>1. /\ upCount \in 0..(N - 1)
        /\ up[upCount] \in Nat /\ up[upCount + 1] \in Nat
        /\ iter < end /\ received - (end - iter) = up[upCount]
        /\ recvBuf[iter] = up[upCount] + (iter - iter)
    BY <1>4, <1>5, OnPacket DEF HandleNext
  <2>2. recvBuf[iter] = up[upCount] /\ recvBuf[iter] # NoByte
    BY <1>4, <2>1 DEF NoByte
  <2>3. size = up[upCount + 1] - up[upCount]
    BY <1>1, <2>1, <2>2, FirstByte
  <2>4. upCount' = upCount + 1 /\ upCount' \in 0..N /\ up' = up /\ received' = received /\ recvBuf' = recvBuf
    BY <2>1, FramingAssumption DEF HandleNext
  <2>5. CASE end <= iter + size
    <3>1. prevRemain' = end - (iter + size) /\ iter' = 0 /\ end' = 0
      BY <1>1, <2>5
    <3>2. received' - prevRemain' = up'[upCount']
      BY <1>4, <2>1, <2>3, <2>4, <3>1
    <3> QED BY <1>4, <2>4, <3>1, <3>2 DEF ServerInStep
  <2>6. CASE ~(end <= iter + size)
    <3>1. iter' = iter + size /\ end' = end /\ iter' < end' /\ size \in Nat
      BY <1>1, <1>2, <1>4, <2>6
    <3>2. received' - (end' - iter') = up'[upCount']
      <4>1. received - (end - (iter + size)) = up[upCount] + size
        BY <1>4, <2>1, <3>1
      <4> QED BY <2>1, <2>3, <2>4, <3>1, <4>1
    <3>3. \A i \in iter'..(end' - 1) : recvBuf'[i] = received' - (end' - i)
      <4>1. \A i \in iter'..(end' - 1) : i \in iter..(end - 1)
        BY <1>4, <3>1
      <4> QED BY <1>4, <1>5, <2>1, <2>4, <3>1, <4>1 DEF ServerInv, ServerInStep
    <3> QED BY <1>4, <2>4, <3>1, <3>2, <3>3 DEF ServerInStep
  <2> QED BY <2>5, <2>6
<1>6. ASSUME starved PROVE ServerInStep'
  BY <1>4, <1>6 DEF ServerInStep
<1> QED BY <1>3, <1>5, <1>6 DEF ServerInv

(* The server's part of any step. *)
LEMMA ServerStep ==
  ASSUME ServerInv, [Next]_vars
  PROVE  ServerInv'
<1>1. CASE \E n \in 1..(BufSize - prevRemain) : process_recv(n)
  BY <1>1, process_recvKeeps
<1>2. CASE HandleNext
  BY <1>2, HandleNextKeeps
<1>3. CASE UNCHANGED serverVars
  BY <1>3 DEF serverVars, ServerInv, ServerType, ServerInStep
<1>4. Next => \/ \E n \in 1..(BufSize - prevRemain) : process_recv(n)
              \/ HandleNext
              \/ UNCHANGED serverVars
  BY DEF Next, process_data, Receive, Complete, Keep
<1> QED BY <1>1, <1>2, <1>3, <1>4 DEF vars

-----------------------------------------------------------------------------
LEMMA Invariance == Spec => []IInv
<1>1. IInv /\ [Next]_vars => IInv'
  BY ClientStep, ServerStep DEF IInv
<1> QED BY InitInvariant, <1>1, PTL DEF Spec

(* The types of both ends; the client's packet_buffer is never overrun, and  *)
(* the server never has bytes left over that it would have to keep.        *)
THEOREM TypeCorrect == Spec => []TypeOK
<1>1. IInv => TypeOK
  BY DEF IInv, ClientInv, ServerInv, ClientType, ServerType, TypeOK
<1> QED BY <1>1, Invariance, PTL

(* The client hands exactly the packets sent to its handlers (process_data), *)
(* whatever their sizes below the sign bit and wherever the stream is cut.  *)
THEOREM ClientHandlesWhatIsSent == Spec => ClientImplements
<1>1. Init => Stream!Init
  BY DEF Init, Nothing, Stream!Init
<1>2. IInv /\ [Next]_vars => [Stream!Next]_(Stream!vars)
  BY ClientStep DEF IInv
<1> QED BY <1>1, <1>2, Invariance, PTL DEF Spec, ClientImplements, Stream!Spec

(* Only the rest of a cut packet that arrives alone gets the server out of   *)
(* step (process_recv); every other cut is made up for by the negative       *)
(* _prev_remain, at which do_recv receives next.                            *)
THEOREM ServerStaysInStep == Spec => []InStepUnlessStarved
<1>1. IInv => InStepUnlessStarved
  <2> SUFFICES ASSUME IInv, iter # end, ~starved
               PROVE  upCount < N /\ \A i \in iter..(end - 1) : recvBuf[i] = up[upCount] + (i - iter)
    BY DEF InStepUnlessStarved
  <2>1. upCount \in 0..(N - 1) /\ \A i \in iter..(end - 1) : recvBuf[i] = up[upCount] + (i - iter)
    BY OnPacket DEF IInv
  <2> QED BY <2>1, FramingAssumption
<1> QED BY <1>1, Invariance, PTL

-----------------------------------------------------------------------------
(* No text the server sends is longer than the one about damage. *)
LEMMA TextsAreShort ==
  ASSUME NEW length \in Texts PROVE length \in Nat /\ length <= 62
BY DEF Texts, DefeatedText, DamageText, HealText, HitText, Number, Name, MAX_ID_LENGTH

(* The packets of game_header.h that are sent have sizes FramingAssumption   *)
(* admits: those to a client fit its buffers and are not negative as a     *)
(* char, and those to the server fit a byte.                               *)
THEOREM SentPacketsAreAdmitted ==
  /\ SentDown \subseteq (0..SCharMax \cap 0..BUF_SIZE) \ {0}
  /\ SentUp \subseteq 0..UCharMax \ {0}
<1> USE DEF Char, Short, Int32, LongLong, SCharMax, UCharMax, BUF_SIZE, MAX_CHAT_LENGTH,
            MAX_ID_LENGTH, Header, WithId
<1>1. send_avatar_packet \cup send_login_fail_packet \cup send_move_packet
        \cup send_enter_packet \cup send_leave_packet \cup send_stat_change_packet
        \subseteq 1..SCharMax
  BY DEF send_avatar_packet, send_login_fail_packet, send_move_packet, send_enter_packet,
         send_leave_packet, send_stat_change_packet, sc_packet_avatar_info, sc_packet_move,
         sc_packet_enter, sc_packet_leave, sc_packet_stat_change, sc_packet_login_fail
<1>2. ASSUME NEW length \in Texts
      PROVE  send_chat_packet(length) \subseteq 1..SCharMax
  <2>1. length \in Nat /\ length <= 62
    BY TextsAreShort
  <2> QED
    BY <2>1 DEF send_chat_packet, ChatTextFits, ChatSize, sc_packet_chat
<1>3. SentUp \subseteq 1..UCharMax
  BY DEF SentUp, LoginUp, DummyUp, KeysUp, cs_packet_login, cs_packet_move, cs_packet_attack
<1> QED
  BY <1>1, <1>2, <1>3 DEF SentDown

(* The test of send_chat_packet would let texts through whose packet the     *)
(* client takes for larger than anything (ptr[0] in process_data): no text  *)
(* of the server is that long, but nothing prevents one.                   *)
THEOREM ChatTestIsTooWide ==
  /\ \A length \in Texts : ChatTextFits(length) /\ ChatSize(length) <= SCharMax
  /\ \E length \in Nat : ChatTextFits(length) /\ ChatSize(length) > SCharMax
<1> USE DEF ChatTextFits, ChatSize, sc_packet_chat, WithId, Header, Char, LongLong, SCharMax,
            MAX_CHAT_LENGTH
<1>1. ChatTextFits(150) /\ ChatSize(150) > SCharMax
  OBVIOUS
<1>2. ASSUME NEW length \in Texts
      PROVE  ChatTextFits(length) /\ ChatSize(length) <= SCharMax
  BY TextsAreShort
<1> QED
  BY <1>1, <1>2

(* The clients and the server agree on directions: every direction a client  *)
(* sends is a step to the server, no two keys make the same step, and       *)
(* opposite keys make opposite steps (client.cpp:177-211, session.cpp:145). *)
THEOREM DirectionsAgree ==
  /\ \A key \in DirectionKeys : Direction(key) \in DrawnDirections
  /\ \A d \in DrawnDirections : StepOf(d) # StepOf(-1)
  /\ \A k, l \in DirectionKeys : StepOf(Direction(k)) = StepOf(Direction(l)) => k = l
  /\ \A i \in 1..2 : /\ StepOf(Direction("Up"))[i] = - StepOf(Direction("Down"))[i]
                     /\ StepOf(Direction("Left"))[i] = - StepOf(Direction("Right"))[i]
<1> USE DEF DirectionKeys, Direction, DrawnDirections, StepOf
<1>1. /\ Direction("Up") = 0 /\ Direction("Down") = 1
      /\ Direction("Left") = 2 /\ Direction("Right") = 3
  OBVIOUS
<1>2. /\ StepOf(0) = <<0, -1>> /\ StepOf(1) = <<0, 1>>
      /\ StepOf(2) = <<-1, 0>> /\ StepOf(3) = <<1, 0>> /\ StepOf(-1) = <<0, 0>>
  OBVIOUS
<1>3. \A key \in DirectionKeys : Direction(key) \in DrawnDirections
  BY <1>1
<1>4. \A d \in DrawnDirections : StepOf(d) # StepOf(-1)
  BY <1>2
<1>5. \A k, l \in DirectionKeys : StepOf(Direction(k)) = StepOf(Direction(l)) => k = l
  BY <1>1, <1>2
<1>6. \A i \in 1..2 : /\ StepOf(Direction("Up"))[i] = - StepOf(Direction("Down"))[i]
                     /\ StepOf(Direction("Left"))[i] = - StepOf(Direction("Right"))[i]
  BY <1>1, <1>2
<1> QED
  BY <1>3, <1>4, <1>5, <1>6

=============================================================================
