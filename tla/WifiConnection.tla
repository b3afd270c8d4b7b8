---------------------------- MODULE WifiConnection ----------------------------
(***************************************************************************)
(* The command handlers of src/picowwifi.cpp and the callbacks they give   *)
(* to lwIP.  wififunc() carries out one command after the other; a handler *)
(* is a loop that polls lwIP, which may call back any number of times, and *)
(* then does what seq says.  An action of a handler is one turn of that    *)
(* loop after the poll, an action of lwIP is one callback.                 *)
(*                                                                         *)
(* lwIP runs inside cyw43_arch_poll() only (pico_cyw43_arch_lwip_poll), as *)
(* the code has it: it takes no lock around dns_gethostbyname().           *)
(*                                                                         *)
(* A definition NAME_but_... is no part of the model: it is NAME with a    *)
(* plausible mistake, which one of the properties has to notice.           *)
(***************************************************************************)
EXTENDS Integers

CONSTANTS
  BufferLength,     \* bytes of a request: two are enough to be acked in parts
  MaxRoom,          \* bound: bytes of a response buffer
  MaxAnswer,        \* bound: bytes a server sends
  MaxRounds,        \* 60000/10: a request gives up after that many turns
  ConnectRounds,    \* 30000/10: so does CONNECT
  NtpRounds,        \* 1 s, in turns of 10 ms: so does GETNTP
  DnsRounds         \* the resolver of lwIP gives up after that many turns

ASSUME WifiConnectionAssumption ==
  /\ BufferLength \in Nat \ {0} /\ MaxRoom \in Nat /\ MaxAnswer \in Nat
  /\ MaxRounds \in Nat /\ ConnectRounds \in Nat /\ NtpRounds \in Nat
  \* "should take at most 4 sec, see DNS_TMR_INTERVAL and DNS_MAX_RETRIES"
  /\ DnsRounds \in Nat /\ DnsRounds < MaxRounds

Cmd == {"CONNECT", "SENDUDP", "SENDTCP", "GETNTP", "HTTPHEAD"}
Send == {"SENDTCP", "SENDUDP"}

\* The values of seq.  The enumerations for SENDUDP and SENDTCP, HTTPHEAD and
\* GETNTP have them in this order and start at __LINE__, far from ERROR; what a
\* command does not use is left out.
RESOLVE == 11
RESOLVE_WAITING == 12
CONNECT == 13
CONNECT_WAITING == 14
SEND == 15
SEND_WAITING == 16
RECV_WAITING == 17      \* HTTPHEAD_SEQ_RECV, GETNTP_SEQ_RECV
CLOSE == 18
ERROR == -1

VARIABLES
  cmd, busy,            \* the command in hand, or the last one when not busy
  seq,
  rounds,               \* turns of the loop, as far as a timeout counts them
  sendbufleft, responsebufleft,
  hasbuffer,            \* the caller passed a responsebuffer
  responselength,       \* what *responselength says
  success,              \* what *success says
  ntp,                  \* *ms_since_1970: "nil", or the time from our answer:
                        \* "ours", or "late" when it came after the timeout
  dns,                  \* lwIP is going to call common_domainfound_callback
  pcb,                  \* TCP: "none", "new", "syn", "open", "fin" (the remote
                        \* end hung up), "gone" (lwIP gave it up), "closing"
  sock,                 \* UDP: there is one
  receiving,            \* a receive callback is registered
  unacked,              \* bytes that were sent and are not acknowledged
  \* auxiliary, of the command in hand or the last one:
  acked,                \* bytes the remote end has acknowledged
  answered,             \* bytes of the answer the callback was given
  hungup                \* the callback was told that the remote end hung up

request == <<cmd, busy, rounds, hasbuffer>>
result == <<success, responselength, ntp>>
progress == <<sendbufleft, responsebufleft, acked, answered, hungup>>
lwip == <<dns, pcb, sock, receiving, unacked>>
vars == <<request, result, progress, lwip, seq>>

Least(a, b) == IF a < b THEN a ELSE b

Init ==
  /\ cmd = "CONNECT" /\ busy = FALSE /\ seq = CLOSE /\ rounds = 0
  /\ sendbufleft = 0 /\ responsebufleft = 0 /\ hasbuffer = FALSE
  /\ responselength = 0 /\ success = FALSE /\ ntp = "nil"
  /\ dns = FALSE /\ pcb = "none" /\ sock = FALSE /\ receiving = FALSE
  /\ unacked = 0 /\ acked = 0 /\ answered = 0 /\ hungup = FALSE
-----------------------------------------------------------------------------
(* The handlers.  Each starts with a state of its own on the stack.        *)

\* SENDUDP and SENDTCP set sendbufleft when they send; HTTPHEAD never does,
\* and finds there what the stack has.  The pcb of an HTTPHEAD before, which
\* lwIP is still closing, is forgotten: its callbacks write to where the state of
\* that handler was, to an effect that is not modelled.
begin(k, b, room) ==
  /\ ~busy
  /\ cmd' = k /\ busy' = TRUE
  /\ seq' = IF k = "CONNECT" THEN CONNECT_WAITING ELSE RESOLVE
  /\ rounds' = 0
  /\ sendbufleft' \in IF k = "HTTPHEAD" THEN -1..BufferLength + 1 ELSE {0}
  /\ hasbuffer' = b /\ responsebufleft' = room /\ responselength' = room
  /\ success' = IF k \in Send THEN FALSE ELSE success
  /\ ntp' = IF k = "GETNTP" THEN "nil" ELSE ntp
  /\ pcb' = "none" /\ receiving' = FALSE /\ unacked' = 0
  /\ acked' = 0 /\ answered' = 0 /\ hungup' = FALSE
  /\ UNCHANGED <<dns, sock>>

Turn(k, s) == busy /\ cmd \in k /\ seq = s

Counted == rounds' = IF cmd \in Send THEN Least(rounds + 1, MaxRounds + 1)
                     ELSE rounds

Ends == busy' = FALSE

\* handle_connect(): the driver of the chip refuses, or it is asked for the
\* state of the link every 10 ms.
connect_turn ==
  /\ Turn({"CONNECT"}, CONNECT_WAITING)
  /\ \/ rounds = 0 /\ success' = FALSE /\ Ends /\ UNCHANGED rounds
     \/ rounds < ConnectRounds /\ success' \in BOOLEAN /\ Ends /\ UNCHANGED rounds
     \/ /\ rounds < ConnectRounds /\ rounds' = rounds + 1
        /\ UNCHANGED <<success, busy>>
     \/ rounds = ConnectRounds /\ success' = FALSE /\ Ends /\ UNCHANGED rounds
  /\ UNCHANGED <<cmd, hasbuffer, responselength, ntp, progress, lwip,
                 seq>>

\* dns_gethostbyname() knows the host, asks for it, or finds it malformed.
resolve ==
  /\ Turn(Cmd, RESOLVE)
  /\ \/ seq' = CONNECT /\ UNCHANGED <<dns, busy, responselength>>
     \/ seq' = RESOLVE_WAITING /\ dns' = TRUE /\ UNCHANGED <<busy, responselength>>
     \/ /\ Ends
        /\ responselength' = IF cmd = "HTTPHEAD" THEN 0 ELSE responselength
        /\ UNCHANGED <<seq, dns>>
  /\ Counted
  /\ UNCHANGED <<cmd, hasbuffer, success, ntp, progress, pcb, sock,
                 receiving, unacked>>

\* tcp_connect() starts connecting or fails,
connect_tcp ==
  /\ Turn({"SENDTCP"}, CONNECT)
  /\ \/ pcb' = "syn" /\ seq' = CONNECT_WAITING
     \/ pcb' = "new" /\ seq' = ERROR
  /\ Counted
  /\ UNCHANGED <<cmd, busy, hasbuffer, result, progress, dns, sock, receiving,
                 unacked>>

\* which HTTPHEAD does not look at.
connect_head ==
  /\ Turn({"HTTPHEAD"}, CONNECT)
  /\ pcb' \in {"syn", "new"} /\ seq' = CONNECT_WAITING
  /\ receiving' = TRUE
  /\ UNCHANGED <<request, result, progress, dns, sock, unacked>>

connect_udp ==
  /\ Turn({"SENDUDP", "GETNTP"}, CONNECT)
  /\ sock' = TRUE /\ seq' = SEND
  /\ Counted
  /\ UNCHANGED <<cmd, busy, hasbuffer, result, progress, dns, pcb,
                 receiving, unacked>>

\* What tcp_write() returns is ignored: when it fails there is nothing to ack.
send_tcp ==
  /\ Turn({"SENDTCP"}, SEND)
  /\ seq' = SEND_WAITING
  /\ receiving' = hasbuffer
  /\ sendbufleft' = BufferLength
  /\ unacked' \in {0, BufferLength}
  /\ Counted
  /\ UNCHANGED <<cmd, busy, hasbuffer, result, responsebufleft, acked, answered,
                 hungup, dns, pcb, sock>>

send_head ==
  /\ Turn({"HTTPHEAD"}, SEND)
  /\ seq' = SEND_WAITING
  /\ unacked' \in {0, BufferLength}
  /\ UNCHANGED <<request, result, progress, dns, pcb, sock, receiving>>

\* No callback is registered for what comes back.
send_udp ==
  /\ Turn({"SENDUDP"}, SEND)
  /\ seq' = RECV_WAITING
  /\ sendbufleft' = BufferLength
  /\ Counted
  /\ UNCHANGED <<cmd, busy, hasbuffer, result, responsebufleft, acked,
                 answered, hungup, lwip>>

send_ntp ==
  /\ Turn({"GETNTP"}, SEND)
  /\ seq' = RECV_WAITING
  /\ receiving' = TRUE
  /\ UNCHANGED <<request, result, progress, dns, pcb, sock, unacked>>

\* Nothing to receive: done.
no_response ==
  /\ Turn(Send, RECV_WAITING) /\ ~hasbuffer
  /\ seq' = CLOSE
  /\ Counted
  /\ UNCHANGED <<cmd, busy, hasbuffer, result, progress, lwip>>

Waits(s) ==
  \/ s \in {RESOLVE_WAITING, CONNECT_WAITING, SEND_WAITING}
  \/ s = RECV_WAITING /\ (cmd \in Send => hasbuffer)

\* The resolver has given up by then, one way or the other.
DnsInTime == dns => rounds < DnsRounds

\* SENDUDP and SENDTCP sleep for 10 ms or give up,
wait_send ==
  /\ busy /\ cmd \in Send /\ Waits(seq) /\ DnsInTime
  /\ seq' = IF rounds > MaxRounds THEN ERROR ELSE seq
  /\ Counted
  /\ UNCHANGED <<cmd, busy, hasbuffer, result, progress, lwip>>

\* HTTPHEAD sleeps and never gives up, nor does GETNTP before it has sent,
wait_patiently ==
  /\ busy
  /\ \/ cmd = "HTTPHEAD" /\ Waits(seq)
     \/ cmd = "GETNTP" /\ seq = RESOLVE_WAITING
  /\ UNCHANGED vars

wait_ntp_but_no_timeout ==
  /\ Turn({"GETNTP"}, RECV_WAITING)
  /\ rounds' = Least(rounds + 1, NtpRounds)
  /\ UNCHANGED <<seq, cmd, busy, hasbuffer, result, progress, lwip>>

\* which then gives up after a second.
wait_ntp ==
  /\ Turn({"GETNTP"}, RECV_WAITING)
  /\ IF rounds > NtpRounds THEN seq' = ERROR /\ UNCHANGED rounds
                           ELSE rounds' = rounds + 1 /\ UNCHANGED seq
  /\ UNCHANGED <<cmd, busy, hasbuffer, result, progress, lwip>>

close_tcp_but_not_aborted ==
  /\ Turn({"SENDTCP"}, CLOSE)
  /\ pcb' = "closing"
  /\ success' = TRUE
  /\ responselength' = responselength - responsebufleft
  /\ Ends
  /\ UNCHANGED <<cmd, rounds, hasbuffer, ntp, progress, dns, sock,
                 receiving, unacked, seq>>

\* tcp_abort() frees the socket: "there is no later".
close_tcp ==
  /\ Turn({"SENDTCP"}, CLOSE)
  /\ pcb' = "none"
  /\ success' = TRUE
  /\ responselength' = responselength - responsebufleft
  /\ Ends
  /\ UNCHANGED <<cmd, rounds, hasbuffer, ntp, progress, dns, sock,
                 receiving, unacked, seq>>

close_udp ==
  /\ Turn({"SENDUDP"}, CLOSE)
  /\ sock' = FALSE
  /\ success' = TRUE
  /\ responselength' = responselength - responsebufleft
  /\ Ends
  /\ UNCHANGED <<cmd, rounds, hasbuffer, ntp, progress, dns, pcb,
                 receiving, unacked, seq>>

\* The union of udpsock and tcpsock is NULL before CONNECT.
fail_send ==
  /\ Turn(Send, ERROR)
  /\ success' = FALSE
  /\ pcb' = "none" /\ sock' = FALSE
  /\ Ends
  /\ UNCHANGED <<cmd, rounds, hasbuffer, responselength, ntp, progress,
                 dns, receiving, unacked, seq>>

\* GETNTP_SEQ_CLOSE and GETNTP_SEQ_ERROR.
close_ntp ==
  /\ busy /\ cmd = "GETNTP" /\ seq \in {CLOSE, ERROR}
  /\ sock' = FALSE
  /\ Ends
  /\ UNCHANGED <<cmd, rounds, hasbuffer, result, progress, dns, pcb, receiving,
                 unacked, seq>>

\* tcp_close() leaves the pcb to lwIP; or it has no memory, and is called
\* again after 10 ms.
close_head ==
  /\ Turn({"HTTPHEAD"}, CLOSE)
  /\ \/ pcb' = "closing" /\ Ends
     \/ UNCHANGED <<pcb, busy>>
  /\ UNCHANGED <<cmd, rounds, hasbuffer, result, progress, dns, sock,
                 receiving, unacked, seq>>

fail_head ==
  /\ Turn({"HTTPHEAD"}, ERROR)
  /\ responselength' = 0
  /\ pcb' = IF pcb = "none" THEN "none" ELSE "closing"
  /\ Ends
  /\ UNCHANGED <<cmd, rounds, hasbuffer, success, ntp, progress, dns,
                 sock, receiving, unacked, seq>>

\* The cases of the switch are all there are: any other seq falls through it, and
\* the loop polls on without ever sleeping.
spin ==
  /\ busy /\ cmd \in {"SENDTCP", "HTTPHEAD"} /\ seq \notin {ERROR} \cup RESOLVE..CLOSE
  /\ Counted
  /\ UNCHANGED <<cmd, busy, hasbuffer, result, progress, lwip, seq>>
-----------------------------------------------------------------------------
(* The callbacks, and what lwIP is assumed to do: external but for the     *)
(* bodies of the callbacks.                                                *)

Keeps(v) == UNCHANGED <<request, result, v>>

\* common_domainfound_callback(): the name is resolved or it is not.
domainfound ==
  /\ busy /\ dns
  /\ dns' = FALSE
  /\ seq' = seq + 1 \/ seq' = ERROR
  /\ Keeps(<<progress, pcb, sock, receiving, unacked>>)

\* tcpclient_connected_callback().
connected ==
  /\ busy /\ pcb = "syn"
  /\ pcb' = "open"
  /\ seq' = seq + 1
  /\ Keeps(<<progress, dns, sock, receiving, unacked>>)

\* tcpclient_err_callback(): refused, reset, or out of memory.
broken ==
  /\ busy /\ pcb \in {"syn", "open", "fin"}
  /\ pcb' = "gone"
  /\ seq' = ERROR
  /\ Keeps(<<progress, dns, sock, receiving, unacked>>)

\* tcpclient_sent_callback(): the remote end has acknowledged n bytes.
sent(n) ==
  /\ busy /\ pcb \in {"open", "fin"}
  /\ n <= unacked
  /\ unacked' = unacked - n /\ acked' = acked + n
  /\ sendbufleft' = sendbufleft - n
  /\ seq' = IF sendbufleft - n = 0 THEN seq + 1 ELSE seq
  /\ Keeps(<<responsebufleft, answered, hungup, dns, pcb, sock,
             receiving>>)

recv_but_not_limited(n, m) ==
  LET copied == IF responsebufleft <= 0 THEN 0 ELSE m IN
  /\ busy /\ cmd = "SENDTCP" /\ pcb = "open" /\ receiving
  /\ m <= n
  /\ answered + n <= MaxAnswer
  /\ answered' = answered + n
  /\ responsebufleft' = responsebufleft - copied
  /\ seq' = IF copied > 0 /\ copied = responsebufleft THEN seq + 1 ELSE seq
  /\ Keeps(<<sendbufleft, acked, hungup, lwip>>)

\* tcpclient_recv_callback() with data: n bytes, of which the first m are in
\* the first pbuf.  What comes when the buffer is full is thrown away, and so
\* is what comes before SEND, when lwIP has no callback to give it to.
recv(n, m) ==
  LET copied == IF responsebufleft <= 0 THEN 0 ELSE Least(m, responsebufleft) IN
  /\ busy /\ cmd = "SENDTCP" /\ pcb = "open" /\ receiving
  /\ m <= n
  /\ answered + n <= MaxAnswer
  /\ answered' = answered + n
  /\ responsebufleft' = responsebufleft - copied
  /\ seq' = IF copied > 0 /\ copied = responsebufleft THEN seq + 1 ELSE seq
  /\ Keeps(<<sendbufleft, acked, hungup, lwip>>)

recv_closed_but_counted_always ==
  /\ busy /\ cmd = "SENDTCP" /\ pcb = "open"
  /\ pcb' = "fin"
  /\ hungup' = receiving
  /\ seq' = IF receiving THEN seq + 1 ELSE seq
  /\ Keeps(<<sendbufleft, responsebufleft, acked, answered, dns, sock,
             receiving, unacked>>)

\* The same with p = NULL: the remote end hung up.
recv_closed ==
  /\ busy /\ cmd = "SENDTCP" /\ pcb = "open"
  /\ pcb' = "fin"
  /\ hungup' = receiving
  /\ seq' = IF receiving /\ responsebufleft > 0 THEN seq + 1 ELSE seq
  /\ Keeps(<<sendbufleft, responsebufleft, acked, answered, dns, sock,
             receiving, unacked>>)

\* httpclient_recv_callback(): a packet that has the date, all of it, or one
\* that has not, which changes nothing.  *bufferlength becomes that of a date,
\* which is 1 here.
http_recv ==
  /\ busy /\ cmd = "HTTPHEAD" /\ pcb = "open"
  /\ responselength' = 1
  /\ UNCHANGED <<request, success, ntp, progress, lwip, seq>>

http_recv_closed ==
  /\ busy /\ cmd = "HTTPHEAD" /\ pcb = "open"
  /\ pcb' = "fin"
  /\ seq' = CLOSE
  /\ Keeps(<<progress, dns, sock, receiving, unacked>>)

\* getntp_recv(): any packet ends the wait; the time is taken from one that
\* relays the timestamp of this request, also in the poll after the timeout.
getntp_recv(answers) ==
  /\ busy /\ cmd = "GETNTP" /\ sock /\ receiving
  /\ ntp' = IF answers = "nothing" THEN ntp
            ELSE IF seq = ERROR THEN "late" ELSE "ours"
  /\ seq' = CLOSE
  /\ UNCHANGED <<request, success, responselength, progress, lwip>>
-----------------------------------------------------------------------------
Handler ==
  \/ connect_turn
  \/ resolve
  \/ connect_tcp \/ connect_head \/ connect_udp
  \/ send_tcp \/ send_head \/ send_udp \/ send_ntp
  \/ no_response
  \/ wait_send \/ wait_patiently \/ wait_ntp
  \/ close_tcp \/ close_udp \/ close_ntp \/ close_head
  \/ fail_send \/ fail_head
  \/ spin

Callback ==
  \/ domainfound
  \/ connected
  \/ broken
  \/ \E n \in 1..BufferLength : sent(n)
  \/ \E n \in 1..MaxAnswer, m \in 1..MaxAnswer : recv(n, m)
  \/ recv_closed
  \/ http_recv
  \/ http_recv_closed
  \/ \E answers \in {"ours", "nothing"} : getntp_recv(answers)

Next ==
  \/ \E k \in Cmd, b \in BOOLEAN, room \in 0..MaxRoom : begin(k, b, room)
  \/ Handler
  \/ Callback

Spec == Init /\ [][Next]_vars

\* A handler goes on, and the resolver answers; nobody else has to.
Fairness == WF_vars(Handler) /\ WF_vars(domainfound)

LiveSpec == Spec /\ Fairness
-----------------------------------------------------------------------------
(* What a command promises when the driver has signalled its end.          *)

Lengths == 0..(MaxRoom + 1)

TypeOK ==
  /\ cmd \in Cmd /\ busy \in BOOLEAN
  /\ seq \in ERROR..ERROR + 3 \cup RESOLVE..CLOSE + 3
  /\ rounds \in 0..MaxRounds + ConnectRounds + NtpRounds + 1
  /\ sendbufleft \in -1 - BufferLength..BufferLength + 1
  /\ responsebufleft \in 0..MaxRoom /\ responselength \in Lengths
  /\ {hasbuffer, success, dns, sock, receiving, hungup} \subseteq BOOLEAN
  /\ ntp \in {"nil", "ours", "late"}
  /\ pcb \in {"none", "new", "syn", "open", "fin", "gone", "closing"}
  /\ unacked \in 0..BufferLength /\ acked \in 0..BufferLength
  /\ answered \in 0..MaxAnswer

Over(k) == ~busy /\ cmd = k

\* seq counts events, in whatever order lwIP reports them: yet SENDTCP reports
\* success only when all of the request has been acknowledged and, if a response
\* is wanted, when the buffer is full or the remote end has hung up.
SuccessMeansSent ==
  Over("SENDTCP") /\ success =>
    /\ acked = BufferLength
    /\ hasbuffer => responsebufleft = 0 \/ hungup

\* "it will receive at most responsebufferlength and discard the rest": what
\* SENDTCP reports as received is the answer, up to the room there was.
AnswerKept ==
  Over("SENDTCP") /\ success /\ hasbuffer =>
    responselength = Least(answered, responselength + responsebufleft)

\* The state of a handler is on its stack, or used by the next command: when the
\* handler returns lwIP holds no socket and no callback that refers to it.  Not
\* so HTTPHEAD, which calls tcp_close().
NothingLeft ==
  ~busy /\ cmd # "HTTPHEAD" => ~dns /\ pcb = "none" /\ ~sock

\* However the network behaves a command ends, with all behind it in the queue.
\* Not so HTTPHEAD, which has no timeout, nor SENDTCP.
CommandsEnd ==
  \A k \in {"CONNECT", "SENDUDP", "GETNTP"} : (busy /\ cmd = k) ~> ~busy

\* "it'll wait for a response, up to some (unspecified) timeout expires."
SendTcpEnds == (busy /\ cmd = "SENDTCP") ~> ~busy
=============================================================================
