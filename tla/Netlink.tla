------------------------------ MODULE Netlink ------------------------------
(***************************************************************************)
(* tcp_netlink: a message that starts in one machine's kernel and ends in  *)
(* another's.  lx_kernel.c (the receive machine) sends a message to its    *)
(* user-space client every 10 s; the client forwards it over TCP; the      *)
(* server of the send machine hands what it reads to send_kernel.c, which  *)
(* logs it as an MD5 payload.  Each daemon first shakes hands with its own *)
(* kernel module.  The daemons exist in two generations: client_old and    *)
(* server_old use the socket calls, client and server use libnl.           *)
(*                                                                         *)
(* A payload is a sequence of pieces, so that TCP may split and join       *)
(* messages: a timer message is two pieces, a reply to a handshake and the *)
(* text of a handshake one.                                                *)
(***************************************************************************)
EXTENDS Integers, Sequences, SequencesExt

CONSTANTS
    Generations,    \* subset of {"old", "new"}: the daemons started
    MaxTicks,       \* bound: timer messages lx_kernel.c makes
    MaxQueue,       \* messages the client's netlink socket holds
    MaxFails,       \* bound: allocations, loads and calls of sendmsg that fail
    MAX_LINE,       \* pieces read_cb takes at a time
    MAX_PAYLOAD     \* pieces the server's netlink message has room for

ASSUME NetlinkAssumption ==
    /\ Generations \subseteq {"old", "new"}
    /\ MaxTicks \in Nat /\ MaxQueue \in Nat /\ MaxFails \in Nat
    /\ MAX_LINE \in Nat \ {0} /\ MAX_PAYLOAD \in Nat \ {0}

VARIABLES
    gen,        \* the generation of both daemons
    rloaded, sloaded,   \* lx_kernel.c, send_kernel.c is loaded
    timer,      \* message_timer: "off", "armed", or "dead" after a failure
    stray,      \* a load of lx_kernel.c failed and left its timer running
    pid,        \* lx_kernel.c's pid: 1 until a client made itself known
    handler,    \* lx_kernel.c's nl_data_ready: "idle", "reply" or "ticked"
    cpc, count, \* the client: where it is, check_netlink_status's count
    sent,       \* messages lx_kernel.c put in the client's netlink socket
    taken,      \* how many of them the client has read
    shook,      \* how many of those the handshake read
    edge,       \* epoll has an event for the netlink socket
    overrun,    \* the socket was full: the next read of it fails (ENOBUFS)
    conn,       \* the TCP connection: "none", "pending", "up" or "broken"
    wire,       \* pieces written by the client, not yet in the server
    spc,        \* the server: where it is
    inbuf,      \* the server's bufferevent
    reading,    \* read_cb is running
    send_nlh,   \* payload of the server's netlink message
    passed,     \* the payloads read_cb gave to send_to_kernel
    dropped,    \* the sendmsg of one of them failed
    log,        \* the MD5 payloads send_kernel.c logged
    ticks, fails, \* timer messages made, failures
    lost,       \* requests and replies of the client's handshake lost
    undefined   \* the program's behaviour is no longer defined

kvars == <<rloaded, timer, stray, pid, handler>>
cvars == <<cpc, count, taken, shook>>
socket == <<sent, edge, overrun>>
server == <<spc, sloaded>>
stream == <<inbuf, reading, send_nlh, passed, dropped, log>>
svars == <<server, stream>>
tcp == <<conn, wire>>
counters == <<ticks, fails, lost>>
vars == <<gen, kvars, cvars, svars, tcp, counters, socket, undefined>>

Live == ~undefined

Reply == 0      \* "get your pid"; a positive number is a timer message
Hello == <<"hello", 1>>     \* "give your present!"
PiecesOf(m) == IF m = Reply THEN <<<<m, 1>>>> ELSE <<<<m, 1>>, <<m, 2>>>>
Pieces(ms) ==
    LET p[n \in 0 .. Len(ms)] == IF n = 0 THEN << >> ELSE p[n - 1] \o PiecesOf(ms[n])
    IN p[Len(ms)]

\* Messages waiting in the client's netlink socket.
Queue == SubSeq(sent, taken + 1, Len(sent))
\* The client's netlink socket is open.
Open == cpc \notin {"start", "failed", "ended"}

\* PING_PONG_TYPE, MD5_TYPE and MY_MSG_TYPE as offsets from 0x10.
PING_PONG_TYPE == 3
MD5_TYPE == 4
ClientType == [old |-> PING_PONG_TYPE, new |-> 2]

-----------------------------------------------------------------------------
(***************************************************************************)
(* lx_kernel.c.                                                            *)
(***************************************************************************)
\* my_module_init: the socket, then the timer, which is started also when
\* there is no socket and the load fails.
LoadReceive ==
    /\ Live /\ ~rloaded
    /\ \/ /\ rloaded' = TRUE /\ timer' = "armed"
          /\ UNCHANGED <<stray, fails>>
       \/ /\ fails < MaxFails
          /\ fails' = fails + 1 /\ stray' = TRUE
          /\ UNCHANGED <<rloaded, timer>>
    /\ UNCHANGED <<gen, pid, handler, cvars, svars, tcp, ticks, lost, socket, undefined>>

\* That timer expires in a module that is not there any more.
StrayTimer ==
    /\ Live /\ stray
    /\ undefined' = TRUE
    /\ UNCHANGED <<gen, kvars, cvars, svars, tcp, counters, socket>>

\* nlmsg_unicast: the message goes in the socket's queue.  When nobody has the
\* socket open it is lost, when the queue is full too, and the owner's next
\* read fails.  A running client's epoll notices either.
Unicast(m) ==
    IF Open
    THEN /\ edge' = (edge \/ cpc = "running")
         /\ IF Len(Queue) < MaxQueue
            THEN sent' = Append(sent, m) /\ UNCHANGED overrun
            ELSE overrun' = TRUE /\ UNCHANGED sent
    ELSE UNCHANGED socket

\* A version of send_message that does not arm the timer again while no
\* client is known.
send_message_NoRearm ==
    /\ Live /\ timer = "armed" /\ handler # "ticked"
    /\ \/ /\ pid = 1
          /\ timer' = "off"
          /\ UNCHANGED <<handler, socket, ticks, fails>>
       \/ /\ pid # 1 /\ ticks < MaxTicks
          /\ ticks' = ticks + 1 /\ Unicast(ticks')
          /\ handler' = (IF handler = "reply" THEN "ticked" ELSE handler)
          /\ UNCHANGED <<timer, fails>>
       \/ /\ pid # 1 /\ fails < MaxFails
          /\ fails' = fails + 1 /\ timer' = "dead"
          /\ UNCHANGED <<handler, socket, ticks>>
    /\ UNCHANGED <<gen, rloaded, stray, pid, cvars, svars, tcp, lost, undefined>>

\* send_message.  The timer is armed again on every path but the one where the
\* message cannot be allocated.  A handler takes far less than the 10 s
\* between two expiries, so at most one falls between its two halves.
send_message ==
    /\ Live /\ timer = "armed" /\ handler # "ticked"
    /\ \/ /\ pid = 1
          /\ UNCHANGED <<timer, handler, socket, ticks, fails>>
       \/ /\ pid # 1 /\ ticks < MaxTicks
          /\ ticks' = ticks + 1 /\ Unicast(ticks')
          /\ handler' = (IF handler = "reply" THEN "ticked" ELSE handler)
          /\ UNCHANGED <<timer, fails>>
       \/ /\ pid # 1 /\ fails < MaxFails
          /\ fails' = fails + 1 /\ timer' = "dead"
          /\ UNCHANGED <<handler, socket, ticks>>
    /\ UNCHANGED <<gen, rloaded, stray, pid, cvars, svars, tcp, lost, undefined>>

\* nl_data_ready runs inside the client's sendmsg.  Its first half refuses
\* every type but PING_PONG_TYPE and records the pid; the client is then still
\* in its call ("sending").
data_ready(type) ==
    IF type = PING_PONG_TYPE
    THEN pid' = 2 /\ handler' = "reply" /\ cpc' = "sending"
    ELSE cpc' = "wait" /\ UNCHANGED <<pid, handler>>

\* Its second half answers, or cannot allocate the answer; an answer that finds
\* the queue full is lost too.
data_reply ==
    /\ Live /\ handler # "idle"
    /\ handler' = "idle" /\ cpc' = "wait"
    /\ \/ /\ Unicast(Reply)
          /\ lost' = lost + (IF sent' = sent THEN 1 ELSE 0)
          /\ UNCHANGED fails
       \/ /\ fails < MaxFails
          /\ fails' = fails + 1 /\ lost' = lost + 1
          /\ UNCHANGED socket
    /\ UNCHANGED <<gen, rloaded, timer, stray, pid, count, taken, shook, svars, tcp, ticks, undefined>>

-----------------------------------------------------------------------------
(***************************************************************************)
(* The client.                                                             *)
(***************************************************************************)
\* main starts the thread thread_comm_kernel, which makes the netlink socket and
\* then shakes hands; without a socket main quits.
ClientStart_old ==
    /\ Live /\ cpc = "start" /\ gen = "old"
    /\ cpc' \in {"ask", "ended"}
    /\ UNCHANGED <<gen, kvars, count, taken, shook, svars, tcp, counters, socket, undefined>>

ClientStart_new ==
    /\ Live /\ cpc = "start" /\ gen = "new"
    /\ cpc' \in {"ask", "ended"}
    /\ UNCHANGED <<gen, kvars, count, taken, shook, svars, tcp, counters, socket, undefined>>

\* send_to_kernel.  sendmsg fails when the module is not loaded, and may fail
\* when it is: the old client ignores it, the new one frees its socket and goes
\* on to receive from it.
ClientAsk ==
    /\ Live /\ cpc = "ask"
    /\ \/ /\ rloaded
          /\ data_ready(ClientType[gen])
          /\ UNCHANGED <<fails, lost, undefined>>
       \/ /\ \/ ~rloaded /\ UNCHANGED <<fails, lost>>
             \/ rloaded /\ fails < MaxFails /\ fails' = fails + 1 /\ lost' = lost + 1
          /\ cpc' = "wait" /\ undefined' = (gen = "new")
          /\ UNCHANGED <<pid, handler>>
    /\ UNCHANGED <<gen, rloaded, timer, stray, count, taken, shook, svars, tcp, ticks, socket>>

\* A version of check_netlink_status that gives up at the first mismatch.
ClientCheck_Once ==
    /\ Live /\ cpc = "wait" /\ (overrun \/ Queue # <<>>)
    /\ overrun' = FALSE
    /\ IF overrun THEN UNCHANGED <<taken, shook>> ELSE taken' = taken + 1 /\ shook' = shook + 1
    /\ IF ~overrun /\ Head(Queue) = Reply
       THEN cpc' = "connect" /\ UNCHANGED count
       ELSE /\ count' = count + 1
            /\ cpc' = (IF count' < 1 THEN "sleep" ELSE "failed")
    /\ UNCHANGED <<gen, kvars, svars, tcp, counters, sent, edge, undefined>>

\* check_from_kernel: a blocking read; any message but the reply is a failed
\* attempt, a read that fails is one too, and the third one is the last.
ClientCheck ==
    /\ Live /\ cpc = "wait" /\ (overrun \/ Queue # <<>>)
    /\ overrun' = FALSE
    /\ IF overrun THEN UNCHANGED <<taken, shook>> ELSE taken' = taken + 1 /\ shook' = shook + 1
    /\ IF ~overrun /\ Head(Queue) = Reply
       THEN cpc' = "connect" /\ UNCHANGED count
       ELSE /\ count' = count + 1
            /\ cpc' = (IF count' < 3 THEN "sleep" ELSE "failed")
    /\ UNCHANGED <<gen, kvars, svars, tcp, counters, sent, edge, undefined>>

\* sleep(10), then restart.
ClientRetry ==
    /\ Live /\ cpc = "sleep"
    /\ cpc' = "ask"
    /\ UNCHANGED <<gen, kvars, count, taken, shook, svars, tcp, counters, socket, undefined>>

\* run: connect, and eventcb with what became of it.  Once connected the
\* netlink socket is given to epoll, which reports what is queued already.
ClientConnect ==
    /\ Live /\ cpc = "connect"
    /\ \/ /\ spc = "listen"
          /\ cpc' = "running" /\ conn' = "pending" /\ edge' = (overrun \/ Queue # <<>>)
       \/ /\ cpc' = "closing" /\ UNCHANGED <<conn, edge>>
    /\ UNCHANGED <<gen, kvars, count, taken, shook, svars, wire, counters, sent, overrun, undefined>>

\* event_handler: one message per event, copied to the connection; nothing when
\* the read fails.
event_handler ==
    /\ Live /\ cpc = "running" /\ edge
    /\ edge' = FALSE /\ overrun' = FALSE
    /\ taken' = IF overrun THEN taken ELSE taken + 1
    /\ wire' = IF overrun \/ conn = "broken" THEN wire ELSE wire \o PiecesOf(Head(Queue))
    /\ UNCHANGED <<gen, kvars, cpc, count, shook, svars, conn, counters, sent, undefined>>

\* eventcb when the connection fails: the bufferevent is freed and the loop is
\* told to exit, which it does after the events of this pass ...
ClientError ==
    /\ Live /\ cpc = "running" /\ conn = "broken"
    /\ cpc' = "closing"
    /\ UNCHANGED <<gen, kvars, count, taken, shook, svars, tcp, counters, socket, undefined>>

\* ... and one of them may be the netlink socket's, with the freed bufferevent.
ClientLoopExit ==
    /\ Live /\ cpc = "closing"
    /\ \/ cpc' = "ended" /\ UNCHANGED undefined
       \/ edge /\ undefined' = TRUE /\ UNCHANGED cpc
    /\ UNCHANGED <<gen, kvars, count, taken, shook, svars, tcp, counters, socket>>

-----------------------------------------------------------------------------
(***************************************************************************)
(* The TCP connection: it delivers what was written, in order and in       *)
(* portions of its own, until it breaks.                                   *)
(***************************************************************************)
TcpDeliver ==
    /\ Live /\ conn = "up" /\ wire # <<>> /\ ~reading
    /\ \E n \in 1..Len(wire) :
          /\ inbuf' = inbuf \o SubSeq(wire, 1, n)
          /\ wire' = SubSeq(wire, n + 1, Len(wire))
    /\ reading' = TRUE
    /\ UNCHANGED <<gen, kvars, cvars, server, send_nlh, passed, dropped, log, conn, counters, socket, undefined>>

\* An error or a time-out; the server's error_cb frees its bufferevent.
TcpBreak ==
    /\ Live /\ conn \in {"pending", "up"} /\ ~reading
    /\ conn' = "broken" /\ wire' = <<>> /\ inbuf' = <<>>
    /\ UNCHANGED <<gen, kvars, cvars, server, reading, send_nlh, passed, dropped, log, counters, socket, undefined>>

-----------------------------------------------------------------------------
(***************************************************************************)
(* The server and send_kernel.c.                                           *)
(***************************************************************************)
LoadSend ==
    /\ Live /\ ~sloaded
    /\ sloaded' = TRUE
    /\ UNCHANGED <<gen, kvars, cvars, spc, stream, tcp, counters, socket, undefined>>

\* send_kernel.c's nl_data_ready, inside the server's sendmsg: a handshake is
\* answered, a payload of type MD5_TYPE is logged, of another type ignored.
data_ready_send(type, payload) ==
    /\ log' = IF type = MD5_TYPE THEN log \o payload ELSE log
    /\ spc' = IF type = PING_PONG_TYPE THEN "run" ELSE "wait"

\* main starts the thread that shakes hands, as in the client.
ServerStart_old ==
    /\ Live /\ spc = "start" /\ gen = "old"
    /\ spc' \in {"ask", "ended"}
    /\ UNCHANGED <<gen, kvars, cvars, sloaded, stream, tcp, counters, socket, undefined>>

ServerStart_new ==
    /\ Live /\ spc = "start" /\ gen = "new"
    /\ spc' \in {"ask", "ended"}
    /\ UNCHANGED <<gen, kvars, cvars, sloaded, stream, tcp, counters, socket, undefined>>

\* check_netlink_status of server_old.  Nothing else is ever sent to the
\* server, so its first read is the reply, if there is one; it waits for ever
\* when sendmsg fails.  A reply that cannot be allocated is filled in all the
\* same.
ServerAsk_old ==
    /\ Live /\ spc = "ask" /\ gen = "old"
    /\ \/ /\ sloaded
          /\ data_ready_send(PING_PONG_TYPE, <<Hello>>)
          /\ UNCHANGED <<fails, undefined>>
       \/ /\ sloaded /\ fails < MaxFails
          /\ fails' = fails + 1 /\ undefined' = TRUE /\ UNCHANGED <<spc, log>>
       \/ /\ \/ ~sloaded /\ UNCHANGED fails
             \/ sloaded /\ fails < MaxFails /\ fails' = fails + 1
          /\ spc' = "wait" /\ UNCHANGED <<log, undefined>>
    /\ UNCHANGED <<gen, kvars, cvars, sloaded, inbuf, reading, send_nlh, passed, dropped, tcp, ticks, lost, socket>>

\* check_netlink_status of server, which sends its handshake with the type of a
\* payload; after a failed send it receives from the socket it has freed.
ServerAsk_new ==
    /\ Live /\ spc = "ask" /\ gen = "new"
    /\ \/ /\ sloaded
          /\ data_ready_send(MD5_TYPE, <<Hello>>) /\ UNCHANGED <<fails, undefined>>
       \/ /\ \/ ~sloaded /\ UNCHANGED fails
             \/ sloaded /\ fails < MaxFails /\ fails' = fails + 1
          /\ undefined' = TRUE /\ UNCHANGED <<spc, log>>
    /\ UNCHANGED <<gen, kvars, cvars, sloaded, inbuf, reading, send_nlh, passed, dropped, tcp, ticks, lost, socket>>

\* run: the listening socket, or the end when its port is taken.
ServerRun ==
    /\ Live /\ spc = "run"
    /\ spc' \in {"listen", "ended"}
    /\ UNCHANGED <<gen, kvars, cvars, sloaded, stream, tcp, counters, socket, undefined>>

\* A version of do_accept that does not enable reading.
ServerAccept_NotEnabled ==
    /\ Live /\ conn = "pending"
    /\ UNCHANGED vars

\* do_accept: the connection gets a bufferevent that reads.
ServerAccept ==
    /\ Live /\ conn = "pending"
    /\ conn' = "up"
    /\ UNCHANGED <<gen, kvars, cvars, svars, wire, counters, socket, undefined>>

\* A version that copies without clearing.
build_md5_msg_NoClear(old, line) == line \o SubSeq(old, Len(line) + 1, Len(old))

\* build_md5_msg clears the message before it copies the line into it.
build_md5_msg(old, line) == line

\* One pass of read_cb's loop: a line of at most MAX_LINE, made into a message
\* and sent to the kernel, which logs it; nobody looks whether sendmsg failed.
\* A full line has no room for its terminator, a message's payload neither: the
\* kernel prints what follows it, or the line is written past the message.
read_cb ==
    /\ Live /\ reading
    /\ \/ /\ inbuf # <<>>
          /\ LET n == IF Len(inbuf) < MAX_LINE THEN Len(inbuf) ELSE MAX_LINE
                 line == SubSeq(inbuf, 1, n)
             IN  IF n = MAX_LINE \/ n >= MAX_PAYLOAD
                 THEN undefined' = TRUE /\ UNCHANGED <<inbuf, send_nlh, passed, dropped, log, fails>>
                 ELSE /\ inbuf' = SubSeq(inbuf, n + 1, Len(inbuf))
                      /\ send_nlh' = build_md5_msg(send_nlh, line)
                      /\ passed' = passed \o send_nlh'
                      /\ \/ log' = log \o send_nlh' /\ UNCHANGED <<dropped, fails>>
                         \/ /\ fails < MaxFails /\ fails' = fails + 1
                            /\ dropped' = TRUE /\ UNCHANGED log
                      /\ UNCHANGED undefined
          /\ UNCHANGED reading
       \/ /\ inbuf = <<>>
          /\ reading' = FALSE
          /\ UNCHANGED <<inbuf, send_nlh, passed, dropped, log, fails, undefined>>
    /\ UNCHANGED <<gen, kvars, cvars, server, tcp, ticks, lost, socket>>

-----------------------------------------------------------------------------
Init ==
    /\ gen \in Generations
    /\ rloaded = FALSE /\ sloaded = FALSE
    /\ timer = "off" /\ stray = FALSE /\ pid = 1 /\ handler = "idle"
    /\ cpc = "start" /\ count = 0 /\ taken = 0 /\ shook = 0
    /\ sent = <<>> /\ edge = FALSE /\ overrun = FALSE
    /\ conn = "none" /\ wire = <<>>
    /\ spc = "start" /\ inbuf = <<>> /\ reading = FALSE
    /\ send_nlh = <<Hello>> /\ passed = <<>> /\ dropped = FALSE /\ log = <<>>
    /\ ticks = 0 /\ fails = 0 /\ lost = 0
    /\ undefined = FALSE

Next ==
    \/ LoadReceive \/ StrayTimer \/ send_message \/ data_reply
    \/ ClientStart_old \/ ClientStart_new \/ ClientAsk \/ ClientCheck \/ ClientRetry
    \/ ClientConnect \/ event_handler \/ ClientError \/ ClientLoopExit
    \/ TcpDeliver \/ TcpBreak
    \/ LoadSend \/ ServerStart_old \/ ServerStart_new \/ ServerAsk_old \/ ServerAsk_new \/ ServerRun
    \/ ServerAccept \/ read_cb

Spec == Init /\ [][Next]_vars

(***************************************************************************)
(* A kernel handler returns, an armed timer expires, a daemon that can go  *)
(* on does, and a connection that stays up delivers.  Nothing is assumed   *)
(* of loading, starting or breaking.                                       *)
(***************************************************************************)
FairSpec ==
    /\ Spec
    /\ WF_vars(send_message) /\ WF_vars(data_reply)
    /\ WF_vars(ClientAsk) /\ WF_vars(ClientCheck) /\ WF_vars(ClientRetry)
    /\ WF_vars(ClientConnect) /\ WF_vars(event_handler) /\ WF_vars(ClientLoopExit)
    /\ WF_vars(TcpDeliver) /\ WF_vars(ServerAsk_old) /\ WF_vars(ServerAsk_new)
    /\ WF_vars(ServerRun) /\ WF_vars(ServerAccept) /\ WF_vars(read_cb)

-----------------------------------------------------------------------------
(***************************************************************************)
(* The old daemons lose nothing they promised to carry and add nothing:    *)
(* the payloads read_cb sends to send_kernel.c are a prefix of the         *)
(* messages event_handler took, in the order lx_kernel.c sent them,        *)
(* however TCP cut and joined them and whatever the buffers held before.   *)
(* While the connection has not broken, the rest is on its way.  They are  *)
(* what send_kernel.c logs as long as no sendmsg failed: send_to_kernel    *)
(* does not tell read_cb when one did.                                     *)
(***************************************************************************)
Written == Pieces(SubSeq(sent, shook + 1, taken))
Faithful ==
    gen = "old" =>
        /\ IsPrefix(passed, Written)
        /\ conn # "broken" => passed \o inbuf \o wire = Written
        /\ ~dropped => log = passed

\* The client gives up on a kernel module that is loaded only after a request or a reply was
\* lost: timer messages that reach the socket before a reply, and reads that fail because the
\* socket was full, cost it attempts, never the handshake (check_netlink_status).
GivesUpAfterLoss == cpc = "failed" => lost > 0

\* The inductive invariant behind GivesUpAfterLoss.  Before a reply is sent at most one timer
\* message can get ahead of it; so one of the first two messages is a reply, and the client,
\* which has read as many messages as it has failed attempts, finds it in time.  A read that
\* fails takes no message; but then the socket is still full when the client asks again, and
\* the reply to that is lost.
EarlyReply == \E k \in {1, 2} : k <= Len(sent) /\ sent[k] = Reply
Full == taken + MaxQueue <= Len(sent)
HandshakeInv ==
    /\ sent \in Seq(Nat) /\ taken \in Nat /\ count \in Nat /\ lost \in Nat /\ ticks \in Nat
    /\ taken <= Len(sent) /\ gen \in {"old", "new"} /\ rloaded \in BOOLEAN
    /\ overrun \in BOOLEAN /\ (overrun => Full)
    /\ handler # "idle" => cpc = "sending"
    /\ pid = 1 => handler = "idle" /\ sent = << >> /\ ~overrun
    /\ pid # 1 => gen = "old" /\ rloaded
    /\ cpc \in {"start", "ask", "sending", "wait", "sleep"} => \A k \in 1 .. taken : sent[k] # Reply
    /\ lost = 0 /\ cpc \in {"start", "ask", "sending", "wait", "sleep"} =>
        \/ count = taken
        \/ count = taken + 1 /\ Full /\ pid # 1 /\ cpc \in {"sleep", "ask", "sending"}
    /\ lost = 0 /\ pid # 1 => \/ EarlyReply
                              \/ handler = "reply" /\ sent = << >>
                              \/ handler = "ticked" /\ Len(sent) <= 1
    /\ GivesUpAfterLoss

\* The inductive invariant behind Faithful.  epoll reports only what is there to be read,
\* and nothing is read from the connection once it is broken.
Piece == Nat \X {1, 2}
Carried ==
    gen = "old" =>
        /\ passed \in Seq(Piece) /\ inbuf \in Seq(Piece) /\ wire \in Seq(Piece)
        /\ conn = "broken" => IsPrefix(passed, Written)
        /\ conn # "broken" => passed \o inbuf \o wire = Written
        /\ ~dropped => log = passed
StreamInv ==
    /\ shook \in Nat /\ shook <= taken
    /\ edge \in BOOLEAN /\ (edge => overrun \/ taken < Len(sent))
    /\ cpc \notin {"running", "closing", "ended"} => shook = taken /\ conn = "none" /\ ~edge
    /\ conn = "broken" => ~reading
    /\ Carried

\* A handshake of the old client that reached the module ends, also when the
\* reply is lost: the pid is recorded before the reply is made, so the next
\* timer message ends the blocking read and the client asks again.  Only a
\* timer that died from a failed allocation stops this.
HandshakeEnds ==
    (gen = "old" /\ cpc = "sending") ~>
        (cpc \in {"connect", "running", "closing", "ended", "failed"}
         \/ timer = "dead" \/ undefined)

\* What the client wrote is logged in the other kernel, unless the connection
\* breaks or a sendmsg fails: do_accept, the event loop and read_cb leave nothing
\* behind.
Logged ==
    \A n \in 1..(2 * MaxTicks + 3) :
        (conn \in {"pending", "up"} /\ Len(Written) >= n) ~>
            (Len(log) >= n \/ dropped \/ conn = "broken" \/ undefined)

=============================================================================
