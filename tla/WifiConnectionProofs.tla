------------------------- MODULE WifiConnectionProofs -------------------------
(* Theorems about WifiConnection, and what NtpTime promises, for every       *)
(* timestamp.                                                                *)
EXTENDS WifiConnection, NtpTime, TLAPS

One(p) == IF p THEN 1 ELSE 0

\* The callbacks that still may count: connected, all sent, and all received.
Pending ==
  One(pcb = "syn") + One(sendbufleft > 0)
  + One(pcb \in {"syn", "open"} /\ responsebufleft > 0)

\* Callbacks may count on after ERROR, but never as far as to the states of a
\* command that is under way.
CountInv ==
  /\ seq < RESOLVE => seq + Pending <= ERROR + 3
  /\ seq >= RESOLVE => seq + Pending <= CLOSE + 3

\* What lwIP holds belongs to the command in hand, and to the part of it that
\* seq says.
HoldsInv ==
  /\ dns => busy /\ seq = RESOLVE_WAITING
  /\ sock => busy /\ cmd \in {"SENDUDP", "GETNTP"}
  /\ pcb # "none" => cmd \in {"SENDTCP", "HTTPHEAD"}
  /\ ~busy /\ cmd = "SENDTCP" => pcb = "none"
  /\ busy /\ seq \in RESOLVE..CONNECT => pcb = "none" /\ ~sock
  /\ pcb = "syn" /\ seq >= RESOLVE => seq = CONNECT_WAITING
  /\ busy /\ pcb \in {"open", "fin"} /\ seq >= RESOLVE => seq >= SEND

BytesInv ==
  /\ acked + unacked <= BufferLength
  /\ -1 <= sendbufleft + acked
  /\ busy /\ seq \in RESOLVE..SEND => acked = 0 /\ unacked = 0

\* What is left of the response buffer is a part of it, until the command ends.
RoomInv ==
  cmd \in Send /\ busy =>
    ~success /\ responsebufleft <= responselength /\ responselength <= MaxRoom

Received ==
  \/ responselength > 0 /\ responsebufleft = 0
  \/ hungup /\ responsebufleft > 0

\* From SEND_WAITING on seq is a counter of what is complete.
SendTcpInv ==
  cmd = "SENDTCP" /\ busy =>
    /\ seq \in RESOLVE..SEND =>
         ~receiving /\ responsebufleft = responselength /\ ~hungup
    /\ receiving => hasbuffer
    /\ seq > SEND =>
         /\ sendbufleft + acked = BufferLength /\ unacked <= sendbufleft
         /\ hasbuffer =>
              seq = SEND_WAITING + One(sendbufleft = 0) + One(Received)
         /\ ~hasbuffer =>
              \/ seq = SEND_WAITING + One(sendbufleft = 0)
              \/ seq = CLOSE /\ sendbufleft = 0
    /\ hungup => pcb \notin {"syn", "open"}

SuccessInv ==
  /\ CountInv /\ HoldsInv /\ BytesInv /\ RoomInv /\ SendTcpInv
  /\ SuccessMeansSent
IInv == TypeOK /\ SuccessInv

USE WifiConnectionAssumption
    DEF WifiConnectionAssumption, Cmd, Send, RESOLVE, RESOLVE_WAITING,
        CONNECT, CONNECT_WAITING, SEND, SEND_WAITING, RECV_WAITING, CLOSE, ERROR

LEMMA PendingRange == Pending \in 0..3 /\ Pending' \in 0..3
BY DEF Pending, One

LEMMA Step_begin ==
  ASSUME NEW k \in Cmd, NEW b \in BOOLEAN, NEW room \in 0..MaxRoom,
         IInv, begin(k, b, room)
  PROVE  IInv'
<1> USE DEF begin
<1>1. TypeOK'
  <2>1. sendbufleft' \in -1 - BufferLength..BufferLength + 1
    OBVIOUS
  <2>2. success' \in BOOLEAN /\ ntp' \in {"nil", "ours", "late"}
    BY DEF IInv, TypeOK
  <2>3. seq' = RESOLVE \/ seq' = CONNECT_WAITING
    OBVIOUS
  <2>4. responsebufleft' \in 0..MaxRoom /\ responselength' \in Lengths
    BY DEF Lengths
  <2>5. /\ seq' \in RESOLVE..CLOSE + 3
        /\ rounds' \in 0..MaxRounds + ConnectRounds + NtpRounds + 1
    BY <2>3, SMT
  <2>6. /\ unacked' \in 0..BufferLength /\ acked' \in 0..BufferLength
        /\ answered' \in 0..MaxAnswer
        /\ pcb' = "none"
    BY DEF Lengths
  <2>7. {hasbuffer', success', dns', sock', receiving', hungup'}
        \subseteq BOOLEAN
    BY <2>2 DEF IInv, TypeOK
  <2>8. cmd' \in Cmd /\ busy' \in BOOLEAN
    OBVIOUS
  <2> QED BY <2>1, <2>2, <2>4, <2>5, <2>6, <2>7, <2>8 DEF TypeOK
<1>2. CountInv'
  BY DEF IInv, SuccessInv, CountInv, Pending, One
<1>3. HoldsInv'
  BY DEF IInv, SuccessInv, HoldsInv
<1>4. BytesInv'
  <2>1. PICK left \in -1..BufferLength + 1 : sendbufleft' = left
    OBVIOUS
  <2>2. acked' = 0 /\ unacked' = 0
    OBVIOUS
  <2> QED BY <2>1, <2>2 DEF BytesInv
<1>5. RoomInv'
  BY DEF IInv, SuccessInv, RoomInv
<1>6. SendTcpInv'
  BY DEF IInv, SuccessInv, SendTcpInv, Received, One
<1>7. SuccessMeansSent'
  BY DEF IInv, SuccessInv, SuccessMeansSent, Over
<1> QED
  BY <1>1, <1>2, <1>3, <1>4, <1>5, <1>6, <1>7 DEF IInv, SuccessInv

LEMMA Step_connect_turn ==
  ASSUME IInv, connect_turn
  PROVE  IInv'
<1> USE DEF connect_turn, Turn, Ends, progress, lwip
<1>1. TypeOK'
  <2>1. success' \in BOOLEAN /\ busy' \in BOOLEAN
    BY DEF IInv, TypeOK
  <2>3. rounds' = rounds \/ (rounds' = rounds + 1 /\ rounds < ConnectRounds)
    OBVIOUS
  <2>2. rounds' \in 0..MaxRounds + ConnectRounds + NtpRounds + 1
    BY <2>3 DEF IInv, TypeOK
  <2> QED BY <2>1, <2>2 DEF IInv, TypeOK, Lengths
<1>2. CountInv'
  BY DEF IInv, SuccessInv, CountInv, Pending, One
<1>3. HoldsInv'
  BY DEF IInv, SuccessInv, HoldsInv
<1>4. BytesInv'
  BY DEF IInv, SuccessInv, BytesInv
<1>5. RoomInv'
  BY DEF IInv, SuccessInv, RoomInv
<1>6. SendTcpInv'
  BY DEF IInv, SuccessInv, SendTcpInv, Received, One
<1>7. SuccessMeansSent'
  BY DEF IInv, SuccessInv, SuccessMeansSent, Over
<1> QED
  BY <1>1, <1>2, <1>3, <1>4, <1>5, <1>6, <1>7 DEF IInv, SuccessInv

LEMMA Step_resolve ==
  ASSUME IInv, resolve
  PROVE  IInv'
<1> USE DEF resolve, Turn, Counted, Ends, progress, Least
<1>1. TypeOK'
  <2>1. seq' = CONNECT \/ seq' = RESOLVE_WAITING \/ seq' = RESOLVE
    OBVIOUS
  <2>2. dns' \in BOOLEAN /\ busy' \in BOOLEAN
    BY DEF IInv, TypeOK
  <2>4. responselength' \in Lengths
    <3>1. responselength' = responselength \/ responselength' = 0
      OBVIOUS
    <3> QED BY <3>1 DEF IInv, TypeOK, Lengths
  <2>3. rounds' \in 0..MaxRounds + ConnectRounds + NtpRounds + 1
    BY DEF IInv, TypeOK
  <2> QED BY <2>1, <2>2, <2>3, <2>4 DEF IInv, TypeOK, Lengths
<1>2. CountInv'
  <2>1. seq' = CONNECT \/ seq' = RESOLVE_WAITING \/ seq' = RESOLVE
    OBVIOUS
  <2> HIDE DEF resolve
  <2> QED BY <2>1, PendingRange DEF CountInv
<1>3. HoldsInv'
  <2>1. seq = RESOLVE /\ ~dns /\ ~sock /\ pcb = "none"
    BY DEF IInv, SuccessInv, HoldsInv
  <2>2. ~sock' /\ pcb' = "none"
    BY <2>1
  <2>3. dns' => busy' /\ seq' = RESOLVE_WAITING
    BY <2>1
  <2> HIDE DEF resolve
  <2> QED BY <2>2, <2>3 DEF HoldsInv
<1>4. BytesInv'
  BY DEF IInv, SuccessInv, BytesInv
<1>5. RoomInv'
  BY DEF IInv, SuccessInv, RoomInv
<1>6. SendTcpInv'
  BY DEF IInv, SuccessInv, SendTcpInv, Received, One
<1>7. SuccessMeansSent'
  BY DEF IInv, SuccessInv, SuccessMeansSent, Over, TypeOK, RoomInv, SendTcpInv,
         Received, One
<1> QED
  BY <1>1, <1>2, <1>3, <1>4, <1>5, <1>6, <1>7 DEF IInv, SuccessInv

LEMMA Step_connect_tcp ==
  ASSUME IInv, connect_tcp
  PROVE  IInv'
<1> USE DEF connect_tcp, Turn, Counted, result, progress, Least
<1>1. TypeOK'
  BY DEF IInv, SuccessInv, TypeOK, Lengths
<1>2. CountInv'
  BY DEF IInv, SuccessInv, CountInv, Pending, One
<1>3. HoldsInv'
  BY DEF IInv, SuccessInv, HoldsInv
<1>4. BytesInv'
  BY DEF IInv, SuccessInv, BytesInv
<1>5. RoomInv'
  BY DEF IInv, SuccessInv, RoomInv
<1>6. SendTcpInv'
  BY DEF IInv, SuccessInv, SendTcpInv, Received, One, TypeOK
<1>7. SuccessMeansSent'
  BY DEF IInv, SuccessInv, SuccessMeansSent, Over
<1> QED
  BY <1>1, <1>2, <1>3, <1>4, <1>5, <1>6, <1>7 DEF IInv, SuccessInv

LEMMA Step_connect_head ==
  ASSUME IInv, connect_head
  PROVE  IInv'
<1> USE DEF connect_head, Turn, request, result, progress
<1>1. TypeOK'
  BY DEF IInv, SuccessInv, TypeOK, Lengths
<1>2. CountInv'
  BY DEF IInv, SuccessInv, CountInv, Pending, One
<1>3. HoldsInv'
  BY DEF IInv, SuccessInv, HoldsInv
<1>4. BytesInv'
  BY DEF IInv, SuccessInv, BytesInv
<1>5. RoomInv'
  BY DEF IInv, SuccessInv, RoomInv
<1>6. SendTcpInv'
  BY DEF IInv, SuccessInv, SendTcpInv, Received, One, TypeOK
<1>7. SuccessMeansSent'
  BY DEF IInv, SuccessInv, SuccessMeansSent, Over
<1> QED
  BY <1>1, <1>2, <1>3, <1>4, <1>5, <1>6, <1>7 DEF IInv, SuccessInv

LEMMA Step_connect_udp ==
  ASSUME IInv, connect_udp
  PROVE  IInv'
<1> USE DEF connect_udp, Turn, Counted, result, progress, Least
<1>1. TypeOK'
  BY DEF IInv, SuccessInv, TypeOK, Lengths
<1>2. CountInv'
  BY DEF IInv, SuccessInv, CountInv, Pending, One
<1>3. HoldsInv'
  BY DEF IInv, SuccessInv, HoldsInv
<1>4. BytesInv'
  BY DEF IInv, SuccessInv, BytesInv
<1>5. RoomInv'
  BY DEF IInv, SuccessInv, RoomInv
<1>6. SendTcpInv'
  BY DEF IInv, SuccessInv, SendTcpInv, Received, One
<1>7. SuccessMeansSent'
  BY DEF IInv, SuccessInv, SuccessMeansSent, Over
<1> QED
  BY <1>1, <1>2, <1>3, <1>4, <1>5, <1>6, <1>7 DEF IInv, SuccessInv

LEMMA Step_send_tcp ==
  ASSUME IInv, send_tcp
  PROVE  IInv'
<1> USE DEF send_tcp, Turn, Counted, result, Least
<1>1. TypeOK'
  BY DEF IInv, SuccessInv, TypeOK, Lengths
<1>2. CountInv'
  BY DEF IInv, SuccessInv, CountInv, Pending, One
<1>3. HoldsInv'
  BY DEF IInv, SuccessInv, HoldsInv
<1>4. BytesInv'
  <2>1. acked' = 0 /\ seq' = SEND_WAITING
    BY DEF IInv, SuccessInv, BytesInv
  <2>2. unacked' = 0 \/ unacked' = BufferLength
    OBVIOUS
  <2>3. sendbufleft' = BufferLength
    OBVIOUS
  <2>4. 0 <= sendbufleft + 1 /\ sendbufleft \in Int
    BY DEF IInv, SuccessInv, BytesInv, TypeOK
  <2> HIDE DEF send_tcp
  <2> QED BY <2>1, <2>2, <2>3, <2>4 DEF BytesInv
<1>5. RoomInv'
  BY DEF IInv, SuccessInv, RoomInv
<1>6. SendTcpInv'
  BY DEF IInv, SuccessInv, SendTcpInv, Received, One, TypeOK, CountInv, Pending,
         HoldsInv, BytesInv, RoomInv, Lengths
<1>7. SuccessMeansSent'
  BY DEF IInv, SuccessInv, SuccessMeansSent, Over
<1> QED
  BY <1>1, <1>2, <1>3, <1>4, <1>5, <1>6, <1>7 DEF IInv, SuccessInv

LEMMA Step_send_head ==
  ASSUME IInv, send_head
  PROVE  IInv'
<1> USE DEF send_head, Turn, request, result, progress
<1>1. TypeOK'
  BY DEF IInv, SuccessInv, TypeOK, Lengths
<1>2. CountInv'
  BY DEF IInv, SuccessInv, CountInv, Pending, One
<1>3. HoldsInv'
  BY DEF IInv, SuccessInv, HoldsInv
<1>4. BytesInv'
  <2>1. acked' = 0 /\ sendbufleft' = sendbufleft /\ seq' = SEND_WAITING
    BY DEF IInv, SuccessInv, BytesInv
  <2>2. unacked' = 0 \/ unacked' = BufferLength
    OBVIOUS
  <2>3. 0 <= sendbufleft + 1 /\ sendbufleft \in Int
    BY DEF IInv, SuccessInv, BytesInv, TypeOK
  <2> HIDE DEF send_head
  <2> QED BY <2>1, <2>2, <2>3 DEF BytesInv
<1>5. RoomInv'
  BY DEF IInv, SuccessInv, RoomInv
<1>6. SendTcpInv'
  BY DEF IInv, SuccessInv, SendTcpInv, Received, One, TypeOK
<1>7. SuccessMeansSent'
  BY DEF IInv, SuccessInv, SuccessMeansSent, Over
<1> QED
  BY <1>1, <1>2, <1>3, <1>4, <1>5, <1>6, <1>7 DEF IInv, SuccessInv

LEMMA Step_send_udp ==
  ASSUME IInv, send_udp
  PROVE  IInv'
<1> USE DEF send_udp, Turn, Counted, result, lwip, Least
<1>1. TypeOK'
  BY DEF IInv, SuccessInv, TypeOK, Lengths
<1>2. CountInv'
  BY DEF IInv, SuccessInv, CountInv, Pending, One
<1>3. HoldsInv'
  BY DEF IInv, SuccessInv, HoldsInv
<1>4. BytesInv'
  BY DEF IInv, SuccessInv, BytesInv
<1>5. RoomInv'
  BY DEF IInv, SuccessInv, RoomInv, TypeOK
<1>6. SendTcpInv'
  BY DEF IInv, SuccessInv, SendTcpInv, Received, One
<1>7. SuccessMeansSent'
  BY DEF IInv, SuccessInv, SuccessMeansSent, Over
<1> QED
  BY <1>1, <1>2, <1>3, <1>4, <1>5, <1>6, <1>7 DEF IInv, SuccessInv

LEMMA Step_send_ntp ==
  ASSUME IInv, send_ntp
  PROVE  IInv'
<1> USE DEF send_ntp, Turn, request, result, progress
<1>1. TypeOK'
  BY DEF IInv, SuccessInv, TypeOK, Lengths
<1>2. CountInv'
  BY DEF IInv, SuccessInv, CountInv, Pending, One
<1>3. HoldsInv'
  BY DEF IInv, SuccessInv, HoldsInv
<1>4. BytesInv'
  BY DEF IInv, SuccessInv, BytesInv
<1>5. RoomInv'
  BY DEF IInv, SuccessInv, RoomInv
<1>6. SendTcpInv'
  BY DEF IInv, SuccessInv, SendTcpInv, Received, One
<1>7. SuccessMeansSent'
  BY DEF IInv, SuccessInv, SuccessMeansSent, Over
<1> QED
  BY <1>1, <1>2, <1>3, <1>4, <1>5, <1>6, <1>7 DEF IInv, SuccessInv

LEMMA Step_no_response ==
  ASSUME IInv, no_response
  PROVE  IInv'
<1> USE DEF no_response, Turn, Counted, result, progress, lwip, Least
<1>1. TypeOK'
  BY DEF IInv, SuccessInv, TypeOK, Lengths
<1>2. CountInv'
  BY DEF IInv, SuccessInv, CountInv, Pending, One
<1>3. HoldsInv'
  BY DEF IInv, SuccessInv, HoldsInv
<1>4. BytesInv'
  BY DEF IInv, SuccessInv, BytesInv
<1>5. RoomInv'
  BY DEF IInv, SuccessInv, RoomInv
<1>6. SendTcpInv'
  BY DEF IInv, SuccessInv, SendTcpInv, Received, One
<1>7. SuccessMeansSent'
  BY DEF IInv, SuccessInv, SuccessMeansSent, Over
<1> QED
  BY <1>1, <1>2, <1>3, <1>4, <1>5, <1>6, <1>7 DEF IInv, SuccessInv

LEMMA Step_wait_send ==
  ASSUME IInv, wait_send
  PROVE  IInv'
<1> USE DEF wait_send, Counted, Waits, DnsInTime, result, progress, lwip, Least
<1>1. TypeOK'
  BY DEF IInv, SuccessInv, TypeOK, Lengths
<1>2. CountInv'
  BY DEF IInv, SuccessInv, CountInv, Pending, One
<1>3. HoldsInv'
  BY DEF IInv, SuccessInv, HoldsInv, TypeOK
<1>4. BytesInv'
  BY DEF IInv, SuccessInv, BytesInv
<1>5. RoomInv'
  BY DEF IInv, SuccessInv, RoomInv
<1>6. SendTcpInv'
  BY DEF IInv, SuccessInv, SendTcpInv, Received, One
<1>7. SuccessMeansSent'
  BY DEF IInv, SuccessInv, SuccessMeansSent, Over
<1> QED
  BY <1>1, <1>2, <1>3, <1>4, <1>5, <1>6, <1>7 DEF IInv, SuccessInv

LEMMA Step_wait_ntp ==
  ASSUME IInv, wait_ntp
  PROVE  IInv'
<1> USE DEF wait_ntp, Turn, result, progress, lwip
<1>1. TypeOK'
  BY DEF IInv, SuccessInv, TypeOK, Lengths, HoldsInv
<1>2. CountInv'
  BY DEF IInv, SuccessInv, CountInv, Pending, One, TypeOK, HoldsInv
<1>3. HoldsInv'
  BY DEF IInv, SuccessInv, HoldsInv, TypeOK, CountInv, Pending, One
<1>4. BytesInv'
  BY DEF IInv, SuccessInv, BytesInv
<1>5. RoomInv'
  BY DEF IInv, SuccessInv, RoomInv
<1>6. SendTcpInv'
  BY DEF IInv, SuccessInv, SendTcpInv, Received, One
<1>7. SuccessMeansSent'
  BY DEF IInv, SuccessInv, SuccessMeansSent, Over, TypeOK
<1> QED
  BY <1>1, <1>2, <1>3, <1>4, <1>5, <1>6, <1>7 DEF IInv, SuccessInv

LEMMA Step_close_tcp ==
  ASSUME IInv, close_tcp
  PROVE  IInv'
<1> USE DEF close_tcp, Turn, Ends, progress
<1>1. TypeOK'
  <2>1. responselength' \in Lengths
    BY DEF IInv, SuccessInv, RoomInv, TypeOK, Lengths
  <2> QED BY <2>1 DEF IInv, TypeOK, Lengths
<1>2. CountInv'
  BY DEF IInv, SuccessInv, CountInv, Pending, One
<1>3. HoldsInv'
  BY DEF IInv, SuccessInv, HoldsInv
<1>4. BytesInv'
  BY DEF IInv, SuccessInv, BytesInv
<1>5. RoomInv'
  BY DEF IInv, SuccessInv, RoomInv
<1>6. SendTcpInv'
  BY DEF IInv, SuccessInv, SendTcpInv, Received, One
<1>7. SuccessMeansSent'
  BY DEF IInv, SuccessInv, SuccessMeansSent, Over, TypeOK, RoomInv, SendTcpInv,
         Received, One
<1> QED
  BY <1>1, <1>2, <1>3, <1>4, <1>5, <1>6, <1>7 DEF IInv, SuccessInv

LEMMA Step_close_udp ==
  ASSUME IInv, close_udp
  PROVE  IInv'
<1> USE DEF close_udp, Turn, Ends, progress
<1>1. TypeOK'
  <2>1. responselength' \in Lengths
    BY DEF IInv, SuccessInv, RoomInv, TypeOK, Lengths
  <2> QED BY <2>1 DEF IInv, TypeOK, Lengths
<1>2. CountInv'
  BY DEF IInv, SuccessInv, CountInv, Pending, One
<1>3. HoldsInv'
  BY DEF IInv, SuccessInv, HoldsInv
<1>4. BytesInv'
  BY DEF IInv, SuccessInv, BytesInv
<1>5. RoomInv'
  BY DEF IInv, SuccessInv, RoomInv
<1>6. SendTcpInv'
  BY DEF IInv, SuccessInv, SendTcpInv, Received, One
<1>7. SuccessMeansSent'
  BY DEF IInv, SuccessInv, SuccessMeansSent, Over
<1> QED
  BY <1>1, <1>2, <1>3, <1>4, <1>5, <1>6, <1>7 DEF IInv, SuccessInv

LEMMA Step_close_ntp ==
  ASSUME IInv, close_ntp
  PROVE  IInv'
<1> USE DEF close_ntp, Ends, result, progress
<1>1. TypeOK'
  BY DEF IInv, SuccessInv, TypeOK, Lengths
<1>2. CountInv'
  BY DEF IInv, SuccessInv, CountInv, Pending, One
<1>3. HoldsInv'
  BY DEF IInv, SuccessInv, HoldsInv
<1>4. BytesInv'
  BY DEF IInv, SuccessInv, BytesInv
<1>5. RoomInv'
  BY DEF IInv, SuccessInv, RoomInv
<1>6. SendTcpInv'
  BY DEF IInv, SuccessInv, SendTcpInv, Received, One
<1>7. SuccessMeansSent'
  BY DEF IInv, SuccessInv, SuccessMeansSent, Over
<1> QED
  BY <1>1, <1>2, <1>3, <1>4, <1>5, <1>6, <1>7 DEF IInv, SuccessInv

LEMMA Step_close_head ==
  ASSUME IInv, close_head
  PROVE  IInv'
<1> USE DEF close_head, Turn, Ends, result, progress
<1>1. TypeOK'
  BY DEF IInv, SuccessInv, TypeOK, Lengths
<1>2. CountInv'
  BY DEF IInv, SuccessInv, CountInv, Pending, One
<1>3. HoldsInv'
  <2>1. CASE busy' = FALSE /\ pcb' = "closing"
    BY <2>1 DEF IInv, SuccessInv, HoldsInv
  <2>2. CASE UNCHANGED <<pcb, busy>>
    BY <2>2 DEF IInv, SuccessInv, HoldsInv
  <2> QED BY <2>1, <2>2
<1>4. BytesInv'
  BY DEF IInv, SuccessInv, BytesInv
<1>5. RoomInv'
  BY DEF IInv, SuccessInv, RoomInv
<1>6. SendTcpInv'
  BY DEF IInv, SuccessInv, SendTcpInv, Received, One
<1>7. SuccessMeansSent'
  BY DEF IInv, SuccessInv, SuccessMeansSent, Over
<1> QED
  BY <1>1, <1>2, <1>3, <1>4, <1>5, <1>6, <1>7 DEF IInv, SuccessInv

LEMMA Step_fail_send ==
  ASSUME IInv, fail_send
  PROVE  IInv'
<1> USE DEF fail_send, Turn, Ends, progress
<1>1. TypeOK'
  BY DEF IInv, SuccessInv, TypeOK, Lengths
<1>2. CountInv'
  BY DEF IInv, SuccessInv, CountInv, Pending, One
<1>3. HoldsInv'
  BY DEF IInv, SuccessInv, HoldsInv
<1>4. BytesInv'
  BY DEF IInv, SuccessInv, BytesInv
<1>5. RoomInv'
  BY DEF IInv, SuccessInv, RoomInv
<1>6. SendTcpInv'
  BY DEF IInv, SuccessInv, SendTcpInv, Received, One
<1>7. SuccessMeansSent'
  BY DEF IInv, SuccessInv, SuccessMeansSent, Over
<1> QED
  BY <1>1, <1>2, <1>3, <1>4, <1>5, <1>6, <1>7 DEF IInv, SuccessInv

LEMMA Step_fail_head ==
  ASSUME IInv, fail_head
  PROVE  IInv'
<1> USE DEF fail_head, Turn, Ends, progress
<1>1. TypeOK'
  <2>1. responselength' \in Lengths
    BY DEF Lengths
  <2> QED BY <2>1 DEF IInv, TypeOK, Lengths
<1>2. CountInv'
  BY DEF IInv, SuccessInv, CountInv, Pending, One
<1>3. HoldsInv'
  BY DEF IInv, SuccessInv, HoldsInv
<1>4. BytesInv'
  BY DEF IInv, SuccessInv, BytesInv
<1>5. RoomInv'
  BY DEF IInv, SuccessInv, RoomInv
<1>6. SendTcpInv'
  BY DEF IInv, SuccessInv, SendTcpInv, Received, One
<1>7. SuccessMeansSent'
  BY DEF IInv, SuccessInv, SuccessMeansSent, Over
<1> QED
  BY <1>1, <1>2, <1>3, <1>4, <1>5, <1>6, <1>7 DEF IInv, SuccessInv

LEMMA Step_spin ==
  ASSUME IInv, spin
  PROVE  IInv'
<1> USE DEF spin, Counted, result, progress, lwip, Least
<1>1. TypeOK'
  BY DEF IInv, SuccessInv, TypeOK, Lengths
<1>2. CountInv'
  BY DEF IInv, SuccessInv, CountInv, Pending, One
<1>3. HoldsInv'
  BY DEF IInv, SuccessInv, HoldsInv
<1>4. BytesInv'
  BY DEF IInv, SuccessInv, BytesInv
<1>5. RoomInv'
  BY DEF IInv, SuccessInv, RoomInv
<1>6. SendTcpInv'
  BY DEF IInv, SuccessInv, SendTcpInv, Received, One
<1>7. SuccessMeansSent'
  BY DEF IInv, SuccessInv, SuccessMeansSent, Over
<1> QED
  BY <1>1, <1>2, <1>3, <1>4, <1>5, <1>6, <1>7 DEF IInv, SuccessInv

LEMMA Step_domainfound ==
  ASSUME IInv, domainfound
  PROVE  IInv'
<1> USE DEF domainfound, Keeps, progress, request, result
<1>1. TypeOK'
  <2>1. seq' = CONNECT \/ seq' = ERROR
    BY DEF IInv, SuccessInv, HoldsInv
  <2>2. seq' \in ERROR..ERROR + 3 \cup RESOLVE..CLOSE + 3
    BY <2>1
  <2> QED BY <2>2 DEF IInv, TypeOK, Lengths
<1>2. CountInv'
  <2>1. seq' = CONNECT \/ seq' = ERROR
    BY DEF IInv, SuccessInv, HoldsInv
  <2> QED BY <2>1, PendingRange DEF CountInv
<1>3. HoldsInv'
  BY DEF IInv, SuccessInv, HoldsInv
<1>4. BytesInv'
  BY DEF IInv, SuccessInv, BytesInv, TypeOK
<1>5. RoomInv'
  BY DEF IInv, SuccessInv, RoomInv
<1>6. SendTcpInv'
  BY DEF IInv, SuccessInv, SendTcpInv, Received, One, TypeOK, HoldsInv
<1>7. SuccessMeansSent'
  BY DEF IInv, SuccessInv, SuccessMeansSent, Over
<1> QED
  BY <1>1, <1>2, <1>3, <1>4, <1>5, <1>6, <1>7 DEF IInv, SuccessInv

LEMMA Step_connected ==
  ASSUME IInv, connected
  PROVE  IInv'
<1> USE DEF connected, Keeps, progress, request, result
<1>1. TypeOK'
  BY DEF IInv, SuccessInv, TypeOK, Lengths, CountInv, Pending, One
<1>2. CountInv'
  BY DEF IInv, SuccessInv, CountInv, Pending, One, TypeOK
<1>3. HoldsInv'
  BY DEF IInv, SuccessInv, HoldsInv, TypeOK
<1>4. BytesInv'
  BY DEF IInv, SuccessInv, BytesInv, TypeOK
<1>5. RoomInv'
  BY DEF IInv, SuccessInv, RoomInv
<1>6. SendTcpInv'
  <2>1. seq' = SEND \/ seq' <= SEND
    BY DEF IInv, SuccessInv, HoldsInv, TypeOK
  <2>2. seq < RESOLVE => seq' < RESOLVE
    BY PendingRange DEF IInv, SuccessInv, CountInv, TypeOK
  <2> QED BY <2>1, <2>2 DEF IInv, SuccessInv, SendTcpInv, TypeOK, HoldsInv
<1>7. SuccessMeansSent'
  BY DEF IInv, SuccessInv, SuccessMeansSent, Over
<1> QED
  BY <1>1, <1>2, <1>3, <1>4, <1>5, <1>6, <1>7 DEF IInv, SuccessInv

LEMMA Step_broken ==
  ASSUME IInv, broken
  PROVE  IInv'
<1> USE DEF broken, Keeps, progress, request, result
<1>1. TypeOK'
  BY DEF IInv, SuccessInv, TypeOK, Lengths
<1>2. CountInv'
  BY DEF IInv, SuccessInv, CountInv, Pending, One
<1>3. HoldsInv'
  BY DEF IInv, SuccessInv, HoldsInv
<1>4. BytesInv'
  BY DEF IInv, SuccessInv, BytesInv
<1>5. RoomInv'
  BY DEF IInv, SuccessInv, RoomInv
<1>6. SendTcpInv'
  BY DEF IInv, SuccessInv, SendTcpInv, Received, One
<1>7. SuccessMeansSent'
  BY DEF IInv, SuccessInv, SuccessMeansSent, Over
<1> QED
  BY <1>1, <1>2, <1>3, <1>4, <1>5, <1>6, <1>7 DEF IInv, SuccessInv

LEMMA Step_sent ==
  ASSUME NEW n \in 1..BufferLength, IInv, sent(n)
  PROVE  IInv'
<1> USE DEF sent, Keeps, request, result
<1>1. TypeOK'
  BY DEF IInv, SuccessInv, TypeOK, Lengths, CountInv, Pending, One, HoldsInv,
         BytesInv, RoomInv, SendTcpInv, Received
<1>2. CountInv'
  BY DEF IInv, SuccessInv, CountInv, Pending, One, TypeOK
<1>3. HoldsInv'
  BY DEF IInv, SuccessInv, HoldsInv, TypeOK
<1>4. BytesInv'
  BY DEF IInv, SuccessInv, BytesInv, TypeOK
<1>5. RoomInv'
  BY DEF IInv, SuccessInv, RoomInv
<1>6. SendTcpInv'
  BY DEF IInv, SuccessInv, SendTcpInv, Received, One, TypeOK, CountInv, Pending,
         HoldsInv, BytesInv, RoomInv, Lengths
<1>7. SuccessMeansSent'
  BY DEF IInv, SuccessInv, SuccessMeansSent, Over
<1> QED
  BY <1>1, <1>2, <1>3, <1>4, <1>5, <1>6, <1>7 DEF IInv, SuccessInv

LEMMA Step_recv ==
  ASSUME NEW n \in 1..MaxAnswer, NEW m \in 1..MaxAnswer, IInv, recv(n, m)
  PROVE  IInv'
<1> USE DEF recv, Least, Keeps, lwip, request, result
<1> DEFINE copied == IF responsebufleft <= 0 THEN 0
                     ELSE Least(m, responsebufleft)
<1>0. /\ copied \in 0..responsebufleft
      /\ responsebufleft' = responsebufleft - copied
      /\ seq' = IF copied > 0 /\ copied = responsebufleft THEN seq + 1 ELSE seq
  BY DEF IInv, TypeOK
<1>1. TypeOK'
  BY DEF IInv, SuccessInv, TypeOK, Lengths, CountInv, Pending, One, HoldsInv,
         BytesInv, RoomInv, SendTcpInv, Received
<1>2. CountInv'
  BY DEF IInv, SuccessInv, CountInv, Pending, One, TypeOK
<1>3. HoldsInv'
  BY DEF IInv, SuccessInv, HoldsInv, TypeOK
<1>4. BytesInv'
  BY DEF IInv, SuccessInv, BytesInv, TypeOK
<1>5. RoomInv'
  <2>1. responsebufleft' <= responsebufleft
    BY <1>0 DEF IInv, TypeOK, Lengths
  <2> QED BY <1>0, <2>1 DEF IInv, TypeOK, Lengths, SuccessInv, RoomInv
<1>6. SendTcpInv'
  <2> HIDE DEF copied
  <2>1. seq >= RESOLVE => seq > SEND
    BY DEF IInv, SuccessInv, SendTcpInv, HoldsInv, TypeOK
  <2> QED BY <1>0, <2>1 DEF IInv, SuccessInv, SendTcpInv, HoldsInv, TypeOK, CountInv,
             Pending, Received, RoomInv, One, Lengths, Send
<1>7. SuccessMeansSent'
  BY DEF IInv, SuccessInv, SuccessMeansSent, Over
<1> QED
  BY <1>1, <1>2, <1>3, <1>4, <1>5, <1>6, <1>7 DEF IInv, SuccessInv

LEMMA Step_recv_closed ==
  ASSUME IInv, recv_closed
  PROVE  IInv'
<1> USE DEF recv_closed, Keeps, request, result
<1>1. TypeOK'
  BY DEF IInv, SuccessInv, TypeOK, Lengths, CountInv, Pending, One
<1>2. CountInv'
  BY DEF IInv, SuccessInv, CountInv, Pending, One, TypeOK
<1>3. HoldsInv'
  BY DEF IInv, SuccessInv, HoldsInv, TypeOK
<1>4. BytesInv'
  BY DEF IInv, SuccessInv, BytesInv, TypeOK
<1>5. RoomInv'
  BY DEF IInv, SuccessInv, RoomInv
<1>6. SendTcpInv'
  BY DEF IInv, SuccessInv, SendTcpInv, Received, One, TypeOK
<1>7. SuccessMeansSent'
  BY DEF IInv, SuccessInv, SuccessMeansSent, Over
<1> QED
  BY <1>1, <1>2, <1>3, <1>4, <1>5, <1>6, <1>7 DEF IInv, SuccessInv

LEMMA Step_http_recv ==
  ASSUME IInv, http_recv
  PROVE  IInv'
<1> USE DEF http_recv, request, progress, lwip
<1>1. TypeOK'
  BY DEF IInv, SuccessInv, TypeOK, Lengths
<1>2. CountInv'
  BY DEF IInv, SuccessInv, CountInv, Pending, One
<1>3. HoldsInv'
  BY DEF IInv, SuccessInv, HoldsInv
<1>4. BytesInv'
  BY DEF IInv, SuccessInv, BytesInv
<1>5. RoomInv'
  BY DEF IInv, SuccessInv, RoomInv
<1>6. SendTcpInv'
  BY DEF IInv, SuccessInv, SendTcpInv, Received, One
<1>7. SuccessMeansSent'
  BY DEF IInv, SuccessInv, SuccessMeansSent, Over
<1> QED
  BY <1>1, <1>2, <1>3, <1>4, <1>5, <1>6, <1>7 DEF IInv, SuccessInv

LEMMA Step_http_recv_closed ==
  ASSUME IInv, http_recv_closed
  PROVE  IInv'
<1> USE DEF http_recv_closed, Keeps, progress, request, result
<1>1. TypeOK'
  BY DEF IInv, SuccessInv, TypeOK, Lengths
<1>2. CountInv'
  BY DEF IInv, SuccessInv, CountInv, Pending, One
<1>3. HoldsInv'
  BY DEF IInv, SuccessInv, HoldsInv
<1>4. BytesInv'
  BY DEF IInv, SuccessInv, BytesInv
<1>5. RoomInv'
  BY DEF IInv, SuccessInv, RoomInv
<1>6. SendTcpInv'
  BY DEF IInv, SuccessInv, SendTcpInv, Received, One
<1>7. SuccessMeansSent'
  BY DEF IInv, SuccessInv, SuccessMeansSent, Over
<1> QED
  BY <1>1, <1>2, <1>3, <1>4, <1>5, <1>6, <1>7 DEF IInv, SuccessInv

LEMMA Step_getntp_recv ==
  ASSUME NEW answers \in {"ours", "nothing"}, IInv, getntp_recv(answers)
  PROVE  IInv'
<1> USE DEF getntp_recv, request, progress, lwip
<1>1. TypeOK'
  BY DEF IInv, SuccessInv, TypeOK, Lengths
<1>2. CountInv'
  BY DEF IInv, SuccessInv, CountInv, Pending, One
<1>3. HoldsInv'
  BY DEF IInv, SuccessInv, HoldsInv
<1>4. BytesInv'
  BY DEF IInv, SuccessInv, BytesInv
<1>5. RoomInv'
  BY DEF IInv, SuccessInv, RoomInv
<1>6. SendTcpInv'
  BY DEF IInv, SuccessInv, SendTcpInv, Received, One
<1>7. SuccessMeansSent'
  BY DEF IInv, SuccessInv, SuccessMeansSent, Over
<1> QED
  BY <1>1, <1>2, <1>3, <1>4, <1>5, <1>6, <1>7 DEF IInv, SuccessInv

LEMMA Initially == Init => IInv
<1> SUFFICES ASSUME Init PROVE IInv
  OBVIOUS
<1> USE DEF Init
<1>0. seq = CLOSE
  OBVIOUS
<1>1. TypeOK
  <2>1. sendbufleft \in -1 - BufferLength..BufferLength + 1
    OBVIOUS
  <2>2. rounds \in 0..MaxRounds + ConnectRounds + NtpRounds + 1
    OBVIOUS
  <2>3. {hasbuffer, success, dns, sock, receiving, hungup}
        \subseteq BOOLEAN
    OBVIOUS
  <2>4. /\ responsebufleft \in 0..MaxRoom /\ responselength \in Lengths
        /\ unacked \in 0..BufferLength /\ acked \in 0..BufferLength
        /\ answered \in 0..MaxAnswer
    BY DEF Lengths
  <2>5. seq \in ERROR..ERROR + 3 \cup RESOLVE..CLOSE + 3
    BY <1>0
  <2> QED BY <2>1, <2>2, <2>3, <2>4, <2>5 DEF TypeOK
<1>3. CountInv
  BY <1>0, PendingRange DEF CountInv
<1>2. HoldsInv /\ BytesInv /\ RoomInv /\ SendTcpInv /\ SuccessMeansSent
  BY DEF HoldsInv, BytesInv, RoomInv, SendTcpInv, SuccessMeansSent, Over
<1> QED BY <1>1, <1>2, <1>3 DEF IInv, SuccessInv

LEMMA Step_nothing ==
  ASSUME IInv, UNCHANGED vars
  PROVE  IInv'
<1> USE DEF vars, request, result, progress, lwip, IInv, SuccessInv
<1>1. TypeOK' /\ CountInv'
  BY DEF TypeOK, Lengths, CountInv, Pending, One
<1>2. HoldsInv' /\ BytesInv' /\ RoomInv' /\ SendTcpInv' /\ SuccessMeansSent'
  BY DEF HoldsInv, BytesInv, RoomInv, SendTcpInv, Received, One,
         SuccessMeansSent, Over
<1> QED BY <1>1, <1>2

LEMMA HandlerSteps ==
  ASSUME IInv, Handler
  PROVE  IInv'
BY Step_connect_turn, Step_resolve, Step_connect_tcp, Step_connect_head, Step_connect_udp,
   Step_send_tcp, Step_send_head, Step_send_udp, Step_send_ntp, Step_no_response,
   Step_wait_send, Step_wait_ntp, Step_nothing, Step_close_tcp,
   Step_close_udp, Step_close_ntp, Step_close_head, Step_fail_send,
   Step_fail_head, Step_spin, Zenon
   DEF Handler, wait_patiently

LEMMA CallbackSteps ==
  ASSUME IInv, Callback
  PROVE  IInv'
BY Step_domainfound, Step_connected, Step_broken, Step_sent, Step_recv,
   Step_recv_closed, Step_http_recv, Step_http_recv_closed,
   Step_getntp_recv, Zenon
   DEF Callback

\* The inductive invariant.
THEOREM ConnectionInvariance == Spec => []IInv
<1>1. Init => IInv
  BY Initially
<1>2. IInv /\ [Next]_vars => IInv'
  <2> SUFFICES ASSUME IInv, [Next]_vars PROVE IInv'
    OBVIOUS
  <2>1. CASE \E k \in Cmd, b \in BOOLEAN, room \in 0..MaxRoom : begin(k, b, room)
    BY <2>1, Step_begin
  <2>2. CASE Handler
    BY <2>2, HandlerSteps
  <2>3. CASE Callback
    BY <2>3, CallbackSteps
  <2>4. CASE UNCHANGED vars
    BY <2>4, Step_nothing
  <2> QED BY <2>1, <2>2, <2>3, <2>4 DEF Next
<1> QED BY <1>1, <1>2, PTL DEF Spec

\* Late callbacks count on after ERROR, but never as far as to a state of the
\* switch; the lengths stay within the buffers.
THEOREM ConnectionTypeCorrect == Spec => []TypeOK
BY ConnectionInvariance, PTL DEF IInv

\* send_tcp() does not report success before the whole request is acknowledged
\* and the response complete, in whatever order lwIP reports these.
THEOREM SuccessIsSent == Spec => []SuccessMeansSent
BY ConnectionInvariance, PTL DEF IInv, SuccessInv

\* When a handler has returned, by success, error or timeout, lwIP has nothing
\* left that refers to its stack, but for HTTPHEAD.
THEOREM ReturnsClean == Spec => []NothingLeft
<1>1. IInv => NothingLeft
  BY DEF IInv, SuccessInv, HoldsInv, NothingLeft, TypeOK
<1> QED BY <1>1, ConnectionInvariance, PTL
-----------------------------------------------------------------------------
(* The time that an NTP server told. *)

\* The bits that getntp_recv() looks at, as a number.
Leading(temp) ==
  128 * Bit(temp, 1024) + 64 * Bit(temp, 512) + 32 * Bit(temp, 256)
  + 16 * Bit(temp, 128) + 8 * Bit(temp, 64) + 4 * Bit(temp, 32)
  + 2 * Bit(temp, 16) + Bit(temp, 8)

LEMMA BitType ==
  ASSUME NEW temp \in 0..Ticks - 1
  PROVE  /\ Bit(temp, 1024) \in 0..1 /\ Bit(temp, 512) \in 0..1
         /\ Bit(temp, 256) \in 0..1 /\ Bit(temp, 128) \in 0..1
         /\ Bit(temp, 64) \in 0..1 /\ Bit(temp, 32) \in 0..1
         /\ Bit(temp, 16) \in 0..1 /\ Bit(temp, 8) \in 0..1
BY DEF Bit, Ticks

\* They are the fraction but for its last three bits.
LEMMA LeadingBits ==
  ASSUME NEW temp \in 0..Ticks - 1
  PROVE  /\ Leading(temp) = temp \div 8
         /\ 0 <= temp - 8 * Leading(temp)
         /\ temp - 8 * Leading(temp) <= 7
<1>1. temp \div 1024 = Bit(temp, 1024)
  BY DEF Bit, Ticks
<1>2. temp \div 512 = 2 * (temp \div 1024) + Bit(temp, 512)
  BY DEF Bit, Ticks
<1>3. temp \div 256 = 2 * (temp \div 512) + Bit(temp, 256)
  BY DEF Bit, Ticks
<1>4. temp \div 128 = 2 * (temp \div 256) + Bit(temp, 128)
  BY DEF Bit, Ticks
<1>5. temp \div 64 = 2 * (temp \div 128) + Bit(temp, 64)
  BY DEF Bit, Ticks
<1>6. temp \div 32 = 2 * (temp \div 64) + Bit(temp, 32)
  BY DEF Bit, Ticks
<1>7. temp \div 16 = 2 * (temp \div 32) + Bit(temp, 16)
  BY DEF Bit, Ticks
<1>8. temp \div 8 = 2 * (temp \div 16) + Bit(temp, 8)
  BY DEF Bit, Ticks
<1>9. 0 <= temp - 8 * (temp \div 8) /\ temp - 8 * (temp \div 8) <= 7
  BY DEF Ticks
<1>10. temp \div 128 = 8 * Bit(temp, 1024) + 4 * Bit(temp, 512)
                       + 2 * Bit(temp, 256) + Bit(temp, 128)
  <2>1. temp \div 512 = 2 * Bit(temp, 1024) + Bit(temp, 512)
    BY <1>1, <1>2
  <2>2. temp \div 256 = 2 * (2 * Bit(temp, 1024) + Bit(temp, 512)) + Bit(temp, 256)
    BY <1>3, <2>1
  <2>3. temp \div 128
        = 2 * (2 * (2 * Bit(temp, 1024) + Bit(temp, 512)) + Bit(temp, 256))
          + Bit(temp, 128)
    BY <1>4, <2>2
  <2> QED BY <2>3, BitType
<1>11. temp \div 8 = 16 * (temp \div 128) + 8 * Bit(temp, 64)
                     + 4 * Bit(temp, 32) + 2 * Bit(temp, 16) + Bit(temp, 8)
  <2>1. temp \div 128 \in Int
    BY DEF Ticks
  <2> QED BY <1>5, <1>6, <1>7, <1>8, <2>1, BitType
<1>12. Leading(temp) = temp \div 8
  BY <1>10, <1>11, BitType DEF Leading
<1> QED BY <1>9, <1>12

\* The sum of the parts, for any bits: its range, and how far it is from the
\* fraction the bits stand for.
LEMMA Sums ==
  ASSUME NEW a \in 0..1, NEW b \in 0..1, NEW c \in 0..1, NEW d \in 0..1,
         NEW e \in 0..1, NEW f \in 0..1, NEW g \in 0..1, NEW h \in 0..1
  PROVE  LET sum  == 500 * a + 250 * b + 125 * c + 63 * d + 31 * e + 16 * f
                     + 8 * g + 4 * h
             lead == 128 * a + 64 * b + 32 * c + 16 * d + 8 * e + 4 * f
                     + 2 * g + h
         IN  /\ sum \in Int /\ 0 <= sum /\ sum <= 997
             /\ lead \in Int
             /\ -512 <= 2048 * sum - 8000 * lead
             /\ 2048 * sum - 8000 * lead <= 2368
BY SMTT(60)

LEMMA SumsInOrder ==
  ASSUME NEW a \in 0..1, NEW b \in 0..1, NEW c \in 0..1, NEW d \in 0..1,
         NEW e \in 0..1, NEW f \in 0..1, NEW g \in 0..1, NEW h \in 0..1,
         NEW a2 \in 0..1, NEW b2 \in 0..1, NEW c2 \in 0..1, NEW d2 \in 0..1,
         NEW e2 \in 0..1, NEW f2 \in 0..1, NEW g2 \in 0..1, NEW h2 \in 0..1,
         128 * a + 64 * b + 32 * c + 16 * d + 8 * e + 4 * f + 2 * g + h
         <= 128 * a2 + 64 * b2 + 32 * c2 + 16 * d2 + 8 * e2 + 4 * f2 + 2 * g2 + h2
  PROVE  500 * a + 250 * b + 125 * c + 63 * d + 31 * e + 16 * f + 8 * g + 4 * h
         <= 500 * a2 + 250 * b2 + 125 * c2 + 63 * d2 + 31 * e2 + 16 * f2 + 8 * g2
            + 4 * h2
BY SMTT(60)

\* Sums, for the bits of a fraction.
LEMMA FractionSum ==
  ASSUME NEW temp \in 0..Ticks - 1
  PROVE  /\ Fraction(temp) \in Int /\ 0 <= Fraction(temp) /\ Fraction(temp) <= 997
         /\ Leading(temp) \in Int
         /\ -512 <= 2048 * Fraction(temp) - 8000 * Leading(temp)
         /\ 2048 * Fraction(temp) - 8000 * Leading(temp) <= 2368
<1>1. /\ Bit(temp, 1024) \in 0..1 /\ Bit(temp, 512) \in 0..1
      /\ Bit(temp, 256) \in 0..1 /\ Bit(temp, 128) \in 0..1
      /\ Bit(temp, 64) \in 0..1 /\ Bit(temp, 32) \in 0..1
      /\ Bit(temp, 16) \in 0..1 /\ Bit(temp, 8) \in 0..1
  BY BitType
<1> QED BY <1>1, Sums, SMTT(30) DEF Fraction, Leading

\* The milliseconds of a fraction never reach a second, although the parts are
\* rounded, up or down, on their own.
THEOREM FractionBelowASecond ==
  ASSUME NEW temp \in 0..Ticks - 1
  PROVE  Fraction(temp) \in Int /\ 0 <= Fraction(temp) /\ Fraction(temp) <= 997
BY FractionSum

\* "i think at this point we have like 2ms rounding error already": it is less
\* than 3.67 ms too early and less than 1.16 ms too late, in ticks here.
THEOREM FractionClose ==
  ASSUME NEW temp \in 0..Ticks - 1
  PROVE  /\ -7512 <= Ticks * Fraction(temp) - 1000 * temp
         /\ Ticks * Fraction(temp) - 1000 * temp <= 2368
<1>1. /\ Leading(temp) \in Int
      /\ 0 <= temp - 8 * Leading(temp)
      /\ temp - 8 * Leading(temp) <= 7
  BY FractionSum, LeadingBits
<1>2. /\ Fraction(temp) \in Int
      /\ -512 <= 2048 * Fraction(temp) - 8000 * Leading(temp)
      /\ 2048 * Fraction(temp) - 8000 * Leading(temp) <= 2368
  BY FractionSum
<1>3. temp \in Int
  BY DEF Ticks
<1> QED BY <1>1, <1>2, <1>3 DEF Ticks

LEMMA FractionInOrder ==
  ASSUME NEW s \in 0..Ticks - 1, NEW t \in 0..Ticks - 1, s <= t
  PROVE  Fraction(s) <= Fraction(t)
<1>1. s \div 8 <= t \div 8
  BY DEF Ticks
<1>2. Leading(s) <= Leading(t)
  BY <1>1, LeadingBits
<1>3. /\ Bit(s, 1024) \in 0..1 /\ Bit(s, 512) \in 0..1
      /\ Bit(s, 256) \in 0..1 /\ Bit(s, 128) \in 0..1
      /\ Bit(s, 64) \in 0..1 /\ Bit(s, 32) \in 0..1
      /\ Bit(s, 16) \in 0..1 /\ Bit(s, 8) \in 0..1
  BY BitType
<1>4. /\ Bit(t, 1024) \in 0..1 /\ Bit(t, 512) \in 0..1
      /\ Bit(t, 256) \in 0..1 /\ Bit(t, 128) \in 0..1
      /\ Bit(t, 64) \in 0..1 /\ Bit(t, 32) \in 0..1
      /\ Bit(t, 16) \in 0..1 /\ Bit(t, 8) \in 0..1
  BY BitType
<1> QED BY <1>2, <1>3, <1>4, SumsInOrder, SMTT(60) DEF Fraction, Leading

\* A later time of the server never makes an earlier result.
THEOREM MillisecondsMonotone ==
  ASSUME NEW s \in Nat, NEW t \in Nat, s <= t
  PROVE  Milliseconds(s) <= Milliseconds(t)
<1>1. s % Ticks \in 0..Ticks - 1 /\ t % Ticks \in 0..Ticks - 1
  BY DEF Ticks
<1>2. \/ s \div Ticks < t \div Ticks
      \/ (s \div Ticks = t \div Ticks) /\ (s % Ticks <= t % Ticks)
  BY DEF Ticks
<1>3. s \div Ticks \in Nat /\ t \div Ticks \in Nat
  BY DEF Ticks
<1>4. /\ Fraction(s % Ticks) \in Int /\ Fraction(t % Ticks) \in Int
      /\ Fraction(s % Ticks) <= 997 /\ 0 <= Fraction(t % Ticks)
  BY <1>1, FractionBelowASecond
<1>5. CASE s \div Ticks < t \div Ticks
  <2>1. (s \div Ticks) + 1 <= t \div Ticks
    BY <1>3, <1>5
  <2> QED BY <1>3, <1>4, <2>1 DEF Milliseconds
<1>6. CASE (s \div Ticks = t \div Ticks) /\ (s % Ticks <= t % Ticks)
  <2>1. Fraction(s % Ticks) <= Fraction(t % Ticks)
    BY <1>1, <1>6, FractionInOrder
  <2> QED BY <1>3, <1>4, <1>6, <2>1 DEF Milliseconds
<1> QED BY <1>2, <1>5, <1>6

\* 1970 as a timestamp of the server, and the first one of the next era.
Timestamp1970 == 2208988800 * 4294967296
NextEra == 4294967296 * 4294967296

\* From 1970 to the end of the era in 2036 the uint64_t difference does not wrap.
LEMMA NoWrap ==
  ASSUME NEW receive \in Nat, Timestamp1970 <= receive, receive < NextEra,
         NEW transmit \in Nat, Timestamp1970 <= transmit, transmit < NextEra
  PROVE  LET middle == ServerMiddle(receive, transmit)
         IN  /\ middle \in Nat /\ middle - Offset \in Nat
             /\ SinceEpoch(middle) = middle - Offset
<1>1. \A s \in Nat : Timestamp1970 <= s /\ s < NextEra =>
        /\ Shifted(s) \in Nat /\ Offset <= Shifted(s)
        /\ Shifted(s) < 8796093022208
  BY DEF Shifted, Timestamp1970, NextEra, Offset, Ticks
<1> DEFINE middle == ServerMiddle(receive, transmit)
<1>2. middle \in Nat /\ Offset <= middle /\ middle < 8796093022208
  <2>1. Offset \in Nat
    BY DEF Offset, Ticks
  <2>2. /\ Shifted(receive) \in Nat /\ Offset <= Shifted(receive)
        /\ Shifted(receive) < 8796093022208
        /\ Shifted(transmit) \in Nat /\ Offset <= Shifted(transmit)
        /\ Shifted(transmit) < 8796093022208
    BY <1>1
  <2> QED BY <2>1, <2>2 DEF ServerMiddle
<1> HIDE DEF middle
<1>3. middle - Offset \in Nat /\ SinceEpoch(middle) = middle - Offset
  BY <1>2 DEF SinceEpoch, Offset, Ticks
<1> QED BY <1>2, <1>3 DEF middle

\* What getntp_recv() hands to get_ntp() is the middle of the server's two
\* timestamps, cut to ticks, in milliseconds since 1970: less than 3.67 ms too
\* early and less than 1.16 ms too late, with shifting, halving, subtracting and
\* adding up the bits all together.
THEOREM NtpTimeClose ==
  ASSUME NEW receive \in Nat, Timestamp1970 <= receive, receive < NextEra,
         NEW transmit \in Nat, Timestamp1970 <= transmit, transmit < NextEra
  PROVE  LET exact == ServerMiddle(receive, transmit) - Offset
             ms    == MsSince1970(receive, transmit)
         IN  /\ ms \in Nat
             /\ -7512 <= Ticks * ms - 1000 * exact
             /\ Ticks * ms - 1000 * exact <= 2368
<1> DEFINE t == ServerMiddle(receive, transmit) - Offset
           ms == MsSince1970(receive, transmit)
<1>1. t \in Nat /\ ms = Milliseconds(t)
  BY NoWrap DEF MsSince1970
<1> HIDE DEF t, ms
<1>2. /\ t \div Ticks \in Nat /\ t % Ticks \in 0..Ticks - 1
      /\ t = Ticks * (t \div Ticks) + (t % Ticks)
  BY <1>1 DEF Ticks
<1>3. /\ Fraction(t % Ticks) \in Int /\ 0 <= Fraction(t % Ticks)
      /\ -7512 <= Ticks * Fraction(t % Ticks) - 1000 * (t % Ticks)
      /\ Ticks * Fraction(t % Ticks) - 1000 * (t % Ticks) <= 2368
  BY <1>2, FractionClose, FractionBelowASecond
<1>4. ms = (t \div Ticks) * 1000 + Fraction(t % Ticks)
  BY <1>1 DEF Milliseconds
<1>5. ms \in Nat
  BY <1>2, <1>3, <1>4
<1>6. Ticks * ms - 1000 * t = Ticks * Fraction(t % Ticks) - 1000 * (t % Ticks)
  <2> DEFINE seconds == t \div Ticks
             rest == t % Ticks
             part == Fraction(rest)
  <2>1. /\ seconds \in Nat /\ rest \in Int /\ part \in Int
        /\ t = 2048 * seconds + rest /\ ms = seconds * 1000 + part
    BY <1>2, <1>3, <1>4 DEF Ticks
  <2> HIDE DEF seconds, rest, part
  <2>2. 2048 * ms - 1000 * t = 2048 * part - 1000 * rest
    BY <2>1
  <2> QED BY <2>2 DEF Ticks, seconds, rest, part
<1>7. -7512 <= Ticks * ms - 1000 * t /\ Ticks * ms - 1000 * t <= 2368
  BY <1>3, <1>6
<1> QED BY <1>5, <1>7 DEF t, ms
=============================================================================
