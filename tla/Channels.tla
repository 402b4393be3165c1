------------------------------- MODULE Channels -------------------------------
(***************************************************************************)
(* Client connections in the event loop (core/server.c): the acceptor, the *)
(* reassembly of a packet from what recv returns, the ten second limit,    *)
(* and the closing of everything at the end.                               *)
(*                                                                         *)
(* A connection takes a channel from chan_stk; epl_map leads from its file *)
(* descriptor back to the channel.  epoll_wait returns a batch of ready    *)
(* descriptors, which are handled one after the other: what an earlier     *)
(* event of the batch does (close a descriptor, accept a connection that   *)
(* gets the same number) must not make a later one wrong.                  *)
(*                                                                         *)
(* A packet is two bytes of length and that many bytes of data.  The bytes *)
(* of a packet are abstracted to the connection they came from.  What      *)
(* becomes of a complete packet is the business of WorkerPool: here        *)
(* submit_event accepts or refuses it.                                     *)
(***************************************************************************)
EXTENDS Integers, Sequences, FiniteSets

CONSTANTS ThreadC,    \* cfg->worker.thread_c, the number of channels
          MapSize,    \* EPL_MAP_SIZE
          BufSize,    \* CHPKT_DATA_BUFSIZ, sizeof(pkt->data)
          MaxEvents,  \* the 32 events of a batch
          Fds,        \* file descriptors accept can return
          TcpFd,      \* state->tcp_fd
          NoFd,       \* a chan_fd of -1
          Conns,      \* connections clients make
          NoConn,
          Lengths,    \* the lengths clients announce
          MaxSent     \* bound on the bytes of one connection

ASSUME ChannelAssumption ==
  /\ ThreadC \in Nat \ {0} /\ MapSize \in Nat \ {0} /\ BufSize \in Nat \ {0}
  /\ MaxEvents \in Nat \ {0} /\ MaxSent \in Nat
  /\ Lengths \subseteq Nat
  /\ TcpFd \notin Fds /\ NoFd \notin Fds /\ NoConn \notin Conns

Chans == 0 .. ThreadC - 1
Header == 2               \* offsetof(struct chan_pkt, data)
RawSize == Header + BufSize
MapToNop == 0             \* EPL_MAP_TO_NOP; EPL_MAP_SHIFT is 1
MaybeConn == Conns \cup {NoConn}

VARIABLES
  \* struct gwbot_state
  stop_el, chan_stk, epl_map,
  \* struct gwbot_chan, one per channel
  is_online, chan_fd, recv_s, buf,
  expired,     \* accepted_at is more than ten seconds ago
  \* the main thread: where it is in run_event_loop, the rest of the batch
  mpc, batch,
  \* the kernel: the connection behind an open descriptor, the descriptors epoll
  \* watches, those the server has shut down
  conn_of, watched, shut,
  \* the clients: unmade, in the backlog, accepted or gone; the length announced;
  \* bytes sent and bytes recv has returned; end of file or reset
  client, announced, sent, taken, ended,
  \* history: how often the packet of a connection was submitted, and channels
  \* popped for a connection that failed
  submitted, lost

chanVars == <<is_online, chan_fd, recv_s, buf>>
kernelVars == <<conn_of, watched, shut>>
clientVars == <<client, announced, sent, taken, ended>>
histVars == <<submitted, lost>>
vars == <<stop_el, chan_stk, epl_map, chanVars, expired, mpc, batch,
          kernelVars, clientVars, histVars>>

Distinct(q) == \A i, j \in 1 .. Len(q) : q[i] = q[j] => i = j
Elements(q) == {q[i] : i \in 1 .. Len(q)}
Stacked == Elements(chan_stk)

\* Slip: the indices pushed start at 1.
InitStack_from_one == [i \in 1 .. ThreadC |-> i]

\* init_state pushes thread_c - 1 down to 0.
InitStack == [i \in 1 .. ThreadC |-> i - 1]

\* init_state and reset_chan: every channel offline, its index on the stack.
Init ==
  /\ stop_el = FALSE
  /\ chan_stk = InitStack
  /\ epl_map = [fd \in Fds |-> MapToNop]
  /\ is_online = [i \in Chans |-> FALSE]
  /\ chan_fd = [i \in Chans |-> NoFd]
  /\ recv_s = [i \in Chans |-> 0]
  /\ buf = [i \in Chans |-> [b \in 1 .. RawSize |-> NoConn]]
  /\ expired = [i \in Chans |-> FALSE]
  /\ mpc = "top" /\ batch = <<>>
  /\ conn_of = [fd \in Fds |-> NoConn]
  /\ watched = {} /\ shut = {}
  /\ client = [c \in Conns |-> "unmade"]
  /\ announced \in [Conns -> Lengths]
  /\ sent = [c \in Conns |-> 0]
  /\ taken = [c \in Conns |-> 0]
  /\ ended = [c \in Conns |-> "no"]
  /\ submitted = [c \in Conns |-> 0]
  /\ lost = {}

-------------------------------------------------------------------------------
(* Clients.                                                                *)

\* A connection enters the backlog of tcp_fd.
client_connect(c) ==
  /\ client[c] = "unmade"
  /\ client' = [client EXCEPT ![c] = "backlog"]
  /\ UNCHANGED <<stop_el, chan_stk, epl_map, chanVars, expired, mpc, batch,
                 kernelVars, announced, sent, taken, ended, histVars>>

\* Bytes arrive at the socket, any number at a time.
client_send(c, n) ==
  /\ client[c] \in {"backlog", "accepted"} /\ ended[c] = "no"
  /\ sent[c] + n <= MaxSent
  /\ sent' = [sent EXCEPT ![c] = @ + n]
  /\ UNCHANGED <<stop_el, chan_stk, epl_map, chanVars, expired, mpc, batch,
                 kernelVars, client, announced, taken, ended, histVars>>

\* The client closes its end ("eof") or the connection is reset ("error").
client_end(c, how) ==
  /\ client[c] \in {"backlog", "accepted"} /\ ended[c] = "no"
  /\ ended' = [ended EXCEPT ![c] = how]
  /\ UNCHANGED <<stop_el, chan_stk, epl_map, chanVars, expired, mpc, batch,
                 kernelVars, client, announced, sent, taken, histVars>>

\* A new connection gets the name of one that is gone, so that the stream of
\* connections never ends.  What is left of the old one in a buffer loses its name.
client_again(c) ==
  /\ client[c] = "gone" /\ mpc # "closed"
  /\ client' = [client EXCEPT ![c] = "backlog"]
  /\ announced' \in {[announced EXCEPT ![c] = l] : l \in Lengths}
  /\ sent' = [sent EXCEPT ![c] = 0]
  /\ taken' = [taken EXCEPT ![c] = 0]
  /\ ended' = [ended EXCEPT ![c] = "no"]
  /\ submitted' = [submitted EXCEPT ![c] = 0]
  /\ buf' = [i \in Chans |-> [b \in 1 .. RawSize |->
                               IF buf[i][b] = c THEN NoConn ELSE buf[i][b]]]
  /\ UNCHANGED <<stop_el, chan_stk, epl_map, is_online, chan_fd, recv_s, expired,
                 mpc, batch, kernelVars, lost>>

\* A connection that was reset may leave the backlog before it is accepted.
client_abort(c) ==
  /\ client[c] = "backlog" /\ ended[c] = "error"
  /\ client' = [client EXCEPT ![c] = "gone"]
  /\ UNCHANGED <<stop_el, chan_stk, epl_map, chanVars, expired, mpc, batch,
                 kernelVars, announced, sent, taken, ended, histVars>>

\* Ten seconds have passed since the channel was accepted.
time_passes(i) ==
  /\ is_online[i] /\ ~expired[i] /\ mpc # "closed"
  /\ expired' = [expired EXCEPT ![i] = TRUE]
  /\ UNCHANGED <<stop_el, chan_stk, epl_map, chanVars, mpc, batch,
                 kernelVars, clientVars, histVars>>

\* What epoll reports a descriptor for: EPOLLERR and EPOLLHUP, or input.
HasError(fd) == fd \in shut \/ ended[conn_of[fd]] = "error"
HasInput(fd) == sent[conn_of[fd]] > taken[conn_of[fd]] \/ ended[conn_of[fd]] = "eof"
Ready(fd) == conn_of[fd] # NoConn /\ (HasError(fd) \/ HasInput(fd))

Backlog == {c \in Conns : client[c] = "backlog"}
ReadyFds == {fd \in watched : Ready(fd)} \cup (IF Backlog = {} THEN {} ELSE {TcpFd})

-------------------------------------------------------------------------------
(* The event loop.                                                         *)

\* The handler of the signals that end the server.
handle_interrupt ==
  /\ mpc # "closed" /\ ~stop_el
  /\ stop_el' = TRUE
  /\ UNCHANGED <<chan_stk, epl_map, chanVars, expired, mpc, batch,
                 kernelVars, clientVars, histVars>>

\* Slip: the timeout is only noted.
monitor_client_time_note == UNCHANGED shut

\* The descriptors of the clients that have been connected for too long.
Overdue == {chan_fd[i] : i \in {j \in Chans : is_online[j] /\ expired[j]}}

\* monitor_client_time shuts them down, unless gettimeofday fails; the channel
\* stays until epoll reports the descriptor.
monitor_client_time == shut' = shut \cup Overdue \/ UNCHANGED shut

\* The top of the loop: clients are looked at unless every channel is free.
run_event_loop_top ==
  /\ mpc = "top" /\ ~stop_el
  /\ IF Len(chan_stk) # ThreadC THEN monitor_client_time ELSE UNCHANGED shut
  /\ mpc' = "wait"
  /\ UNCHANGED <<stop_el, chan_stk, epl_map, chanVars, expired, batch,
                 conn_of, watched, clientVars, histVars>>

\* epoll_wait returns what is ready, in any order; if that is more than fits in
\* the array, as much of it as fits.
epoll_wait ==
  /\ mpc = "wait" /\ ReadyFds # {}
  /\ \E n \in 1 .. Cardinality(ReadyFds) :
       /\ n = Cardinality(ReadyFds) \/ n = MaxEvents
       /\ n <= MaxEvents
       /\ \E q \in [1 .. n -> ReadyFds] : Distinct(q) /\ batch' = q
  /\ mpc' = "batch"
  /\ UNCHANGED <<stop_el, chan_stk, epl_map, chanVars, expired,
                 kernelVars, clientVars, histVars>>

\* epoll_wait reached its timeout or was interrupted, or it failed and the loop
\* is left.
epoll_wait_nothing ==
  /\ mpc = "wait"
  /\ \/ (ReadyFds = {} \/ stop_el) /\ mpc' = "top"
     \/ mpc' = "out"
  /\ UNCHANGED <<stop_el, chan_stk, epl_map, chanVars, expired, batch,
                 kernelVars, clientVars, histVars>>

\* Slip: only the first event of a batch is handled.
handle_events_first(ret) ==
  \/ ret \in {"ok", "again"} /\ batch' = <<>> /\ UNCHANGED stop_el
  \/ ret = "fail" /\ batch' = <<>> /\ stop_el' = TRUE

\* Slip: the index into the batch is not advanced.
handle_events_stuck(ret) ==
  \/ ret = "ok" /\ UNCHANGED <<batch, stop_el>>
  \/ ret = "again" /\ batch' = <<>> /\ UNCHANGED stop_el
  \/ ret = "fail" /\ batch' = <<>> /\ stop_el' = TRUE

\* handle_events goes on after 0 and drops the rest of the batch after an error;
\* run_event_loop stops unless the error is EAGAIN.
handle_events(ret) ==
  \/ ret = "ok" /\ batch' = Tail(batch) /\ UNCHANGED stop_el
  \/ ret = "again" /\ batch' = <<>> /\ UNCHANGED stop_el
  \/ ret = "fail" /\ batch' = <<>> /\ stop_el' = TRUE

Handling(fd) == mpc = "batch" /\ Head(batch) = fd
BackToLoop == mpc' = IF batch' = <<>> THEN "top" ELSE "batch"

\* The accepted connection is closed again.
DropConn(c) == client' = [client EXCEPT ![c] = "gone"]

\* run_acceptor with an error before a channel is popped: EPOLLERR on tcp_fd, a
\* failing accept, an address that cannot be read.
run_acceptor_error ==
  /\ Handling(TcpFd)
  /\ handle_events("fail") /\ BackToLoop
  /\ \/ UNCHANGED client
     \/ \E c \in Backlog : DropConn(c)
  /\ UNCHANGED <<chan_stk, epl_map, chanVars, expired, kernelVars,
                 announced, sent, taken, ended, histVars>>

\* Nothing to accept, or no channel for it: EAGAIN, the rest of the batch is
\* dropped.
run_acceptor_again ==
  /\ Handling(TcpFd)
  /\ handle_events("again") /\ BackToLoop
  /\ \/ Backlog = {} /\ UNCHANGED client
     \/ chan_stk = <<>> /\ \E c \in Backlog : DropConn(c)
  /\ UNCHANGED <<chan_stk, epl_map, chanVars, expired, kernelVars,
                 announced, sent, taken, ended, histVars>>

\* A channel was popped and the connection is closed for another reason; the
\* channel is not pushed back.  The index is too large for epl_map (EAGAIN), or
\* epoll_add or gettimeofday fails.
run_acceptor_lose ==
  /\ Handling(TcpFd) /\ chan_stk # <<>>
  /\ \E c \in Backlog : DropConn(c)
  /\ chan_stk' = Tail(chan_stk)
  /\ lost' = lost \cup {Head(chan_stk)}
  /\ \/ Head(chan_stk) + 1 >= MapSize /\ handle_events("again")
     \/ Head(chan_stk) + 1 < MapSize /\ handle_events("fail")
  /\ BackToLoop
  /\ UNCHANGED <<epl_map, chanVars, expired, kernelVars,
                 announced, sent, taken, ended, submitted>>

\* Slip: the channel is not marked.
OpenChan_offline(i, fd) ==
  /\ chan_fd' = [chan_fd EXCEPT ![i] = fd]
  /\ expired' = [expired EXCEPT ![i] = FALSE]
  /\ recv_s' = [recv_s EXCEPT ![i] = 0]
  /\ UNCHANGED is_online

\* The fields of the channel are set for the new connection.
OpenChan(i, fd) ==
  /\ chan_fd' = [chan_fd EXCEPT ![i] = fd]
  /\ expired' = [expired EXCEPT ![i] = FALSE]
  /\ recv_s' = [recv_s EXCEPT ![i] = 0]
  /\ is_online' = [is_online EXCEPT ![i] = TRUE]

\* run_acceptor succeeds: accept returns a free descriptor.
run_acceptor(c, fd) ==
  /\ Handling(TcpFd) /\ c \in Backlog /\ conn_of[fd] = NoConn
  /\ chan_stk # <<>> /\ Head(chan_stk) + 1 < MapSize
  /\ chan_stk' = Tail(chan_stk)
  /\ watched' = watched \cup {fd}
  /\ OpenChan(Head(chan_stk), fd)
  /\ epl_map' = [epl_map EXCEPT ![fd] = Head(chan_stk) + 1]
  /\ conn_of' = [conn_of EXCEPT ![fd] = c]
  /\ client' = [client EXCEPT ![c] = "accepted"]
  /\ handle_events("ok") /\ BackToLoop
  /\ UNCHANGED <<buf, shut, announced, sent, taken, ended, histVars>>


\* Slip: the descriptor stays in epl_map.
Unmap_not(fd) == UNCHANGED epl_map

\* handle_client_event2 makes the descriptor unknown again.
Unmap(fd) == epl_map' = [epl_map EXCEPT ![fd] = MapToNop]

\* Slip: the channel is not given back.
PushChan_not(i) == UNCHANGED chan_stk

\* tss_push; a full stack refuses the index.
PushChan(i) == chan_stk' = IF Len(chan_stk) < ThreadC THEN <<i>> \o chan_stk ELSE chan_stk

\* out_close of handle_client_event2: tss_push, epl_map, epoll_delete,
\* reset_chan, close.
close_chan(i, fd) ==
  /\ PushChan(i)
  /\ Unmap(fd)
  /\ watched' = watched \ {fd}
  /\ chan_fd' = [chan_fd EXCEPT ![i] = NoFd]
  /\ expired' = [expired EXCEPT ![i] = FALSE]
  /\ recv_s' = [recv_s EXCEPT ![i] = 0]
  /\ is_online' = [is_online EXCEPT ![i] = FALSE]
  /\ conn_of' = [conn_of EXCEPT ![fd] = NoConn]
  /\ shut' = shut \ {fd}
  /\ client' = [client EXCEPT ![conn_of[fd]] = "gone"]

\* The channel handle_client_event finds for a descriptor; it panics if there
\* is none.
Mapped(fd) == fd \in Fds /\ epl_map[fd] # MapToNop
ChanOf(fd) == epl_map[fd] - 1

Unread(fd) == sent[conn_of[fd]] - taken[conn_of[fd]]

\* handle_client_event2 closes the connection without a packet: an error, or
\* recv returns 0 (end of file, or no room left to receive to).
handle_client_gone(fd) ==
  /\ Handling(fd) /\ Mapped(fd)
  /\ \/ HasError(fd)
     \/ ended[conn_of[fd]] = "eof" /\ Unread(fd) = 0
     \/ recv_s[ChanOf(fd)] = RawSize
  /\ close_chan(ChanOf(fd), fd)
  /\ handle_events("ok") /\ BackToLoop
  /\ UNCHANGED <<buf, announced, sent, taken, ended, histVars>>

\* Slip: recv always writes to the start of the buffer.
Received_at_start(i, n) ==
  [b \in 1 .. RawSize |-> IF b \in 1 .. n THEN conn_of[chan_fd[i]] ELSE buf[i][b]]

\* The buffer after recv has returned n bytes.
Received(i, n) ==
  [b \in 1 .. RawSize |-> IF b \in recv_s[i] + 1 .. recv_s[i] + n
                          THEN conn_of[chan_fd[i]] ELSE buf[i][b]]

\* pkt->len of a buffer: it is what the sender of its first bytes announced.
LengthIn(b) == IF b[1] = NoConn THEN 0 ELSE announced[b[1]]

\* Slip: a length is compared with the size of the whole buffer.
TooBig_raw(len) == len > RawSize

\* The packet does not fit pkt->data.
TooBig(len) == len > BufSize

\* Slip: bytes after the packet are ignored.
Verdict_lenient(r, b) ==
  IF r < Header THEN "wait"
  ELSE IF TooBig(LengthIn(b)) THEN "close"
  ELSE IF r - Header < LengthIn(b) THEN "wait" ELSE "submit"

\* What handle_client_event3 does with r bytes in the buffer.  (sizeof(pkt->data)
\* is below 2^16, so that cdata_len is not truncated.)
Verdict(r, b) ==
  IF r < Header THEN "wait"
  ELSE IF TooBig(LengthIn(b)) THEN "close"
  ELSE IF r - Header < LengthIn(b) THEN "wait"
  ELSE IF r - Header > LengthIn(b) THEN "close" ELSE "submit"

\* recv returns bytes, as many as there are and fit or fewer.  The connection
\* is closed unless more bytes are to come; submit_event may refuse a packet,
\* which makes no difference to the channel.
handle_client_recv(fd, n) ==
  LET i == ChanOf(fd)
      c == conn_of[fd]
      verdict == Verdict(recv_s[i] + n, Received(i, n)) IN
  /\ Handling(fd) /\ Mapped(fd) /\ fd \notin shut
  /\ n <= Unread(fd) /\ recv_s[i] + n <= RawSize
  /\ taken' = [taken EXCEPT ![c] = @ + n]
  /\ buf' = [buf EXCEPT ![i] = Received(i, n)]
  /\ submitted' = IF verdict = "submit" THEN [submitted EXCEPT ![c] = @ + 1] ELSE submitted
  /\ \/ /\ verdict = "wait"
        /\ recv_s' = [recv_s EXCEPT ![i] = @ + n]
        /\ UNCHANGED <<chan_stk, epl_map, is_online, chan_fd, expired, kernelVars, client>>
     \/ /\ verdict # "wait"
        /\ close_chan(i, fd)
  /\ handle_events("ok") /\ BackToLoop
  /\ UNCHANGED <<announced, sent, ended, lost>>

\* close_fds, called by destroy_state once the loop is left.
close_fds ==
  /\ mpc = "out" \/ (mpc = "top" /\ stop_el)
  /\ mpc' = "closed" /\ stop_el' = TRUE
  /\ conn_of' = [fd \in Fds |-> IF \E i \in Chans : is_online[i] /\ chan_fd[i] = fd
                                THEN NoConn ELSE conn_of[fd]]
  /\ client' = [c \in Conns |-> IF client[c] = "unmade" THEN "unmade" ELSE "gone"]
  /\ is_online' = [i \in Chans |-> FALSE]
  /\ chan_fd' = [i \in Chans |-> IF is_online[i] THEN NoFd ELSE chan_fd[i]]
  /\ recv_s' = [i \in Chans |-> IF is_online[i] THEN 0 ELSE recv_s[i]]
  /\ expired' = [i \in Chans |-> FALSE]
  /\ watched' = {} /\ shut' = {}
  /\ UNCHANGED <<chan_stk, epl_map, buf, batch, announced, sent, taken, ended, histVars>>


-------------------------------------------------------------------------------
ClientStep ==
  \E c \in Conns :
    \/ client_connect(c) \/ client_abort(c)
    \/ \E n \in 1 .. MaxSent : client_send(c, n)
    \/ \E how \in {"eof", "error"} : client_end(c, how)

AcceptStep ==
  \/ run_acceptor_error \/ run_acceptor_again \/ run_acceptor_lose
  \/ \E c \in Conns, fd \in Fds : run_acceptor(c, fd)

ChannelStep ==
  \E fd \in Fds :
    \/ handle_client_gone(fd)
    \/ \E n \in 1 .. RawSize : handle_client_recv(fd, n)

LoopStep ==
  \/ run_event_loop_top \/ epoll_wait \/ epoll_wait_nothing
  \/ AcceptStep \/ ChannelStep \/ close_fds

Terminated == mpc = "closed" /\ UNCHANGED vars

Next ==
  \/ LoopStep \/ ClientStep \/ handle_interrupt
  \/ \E i \in Chans : time_passes(i)
  \/ Terminated

Spec == Init /\ [][Next]_vars

\* The main thread runs, and gettimeofday does not fail for ever.  Clients owe
\* nothing, and time is not made to pass.
Fairness ==
  /\ WF_vars(LoopStep)
  /\ SF_vars(run_event_loop_top /\ Overdue \subseteq shut')

\* The stream of connections never ends, and no signal ends the server (which
\* would free every channel).
StreamStep ==
  \/ LoopStep \/ ClientStep \/ Terminated
  \/ \E i \in Chans : time_passes(i)
  \/ \E c \in Conns : client_again(c)

StreamSpec == Init /\ [][StreamStep]_vars /\ Fairness

-------------------------------------------------------------------------------
(* Properties.                                                             *)

\* Every variable stays within its type.
TypeOK ==
  /\ stop_el \in BOOLEAN
  /\ chan_stk \in Seq(Chans)
  /\ epl_map \in [Fds -> 0 .. ThreadC]
  /\ is_online \in [Chans -> BOOLEAN] /\ expired \in [Chans -> BOOLEAN]
  /\ chan_fd \in [Chans -> Fds \cup {NoFd}]
  /\ recv_s \in [Chans -> 0 .. RawSize]
  /\ buf \in [Chans -> [1 .. RawSize -> MaybeConn]]
  /\ mpc \in {"top", "wait", "batch", "out", "closed"}
  /\ batch \in Seq(Fds \cup {TcpFd})
  /\ conn_of \in [Fds -> MaybeConn]
  /\ watched \subseteq Fds /\ shut \subseteq Fds
  /\ client \in [Conns -> {"unmade", "backlog", "accepted", "gone"}]
  /\ announced \in [Conns -> Lengths]
  /\ sent \in [Conns -> Nat] /\ taken \in [Conns -> Nat]
  /\ ended \in [Conns -> {"no", "eof", "error"}]
  /\ submitted \in [Conns -> Nat]
  /\ lost \subseteq Chans

\* While the loop runs, the open descriptors, the entries of epl_map, the
\* descriptors epoll watches and the online channels are one and the same thing
\* seen from four sides; no path through run_acceptor or handle_client_event2
\* leaves one of them behind.
FdsAreChannels ==
  mpc # "closed" =>
    /\ \A fd \in Fds :
         /\ (conn_of[fd] # NoConn) <=> Mapped(fd)
         /\ (fd \in watched) <=> Mapped(fd)
         /\ Mapped(fd) => is_online[ChanOf(fd)] /\ chan_fd[ChanOf(fd)] = fd
    /\ \A i \in Chans : is_online[i] => chan_fd[i] \in Fds /\ epl_map[chan_fd[i]] = i + 1

\* After close_fds no connection is open: none escapes because its channel was
\* forgotten.
NothingLeftOpen == mpc = "closed" => \A fd \in Fds : conn_of[fd] = NoConn

\* A channel is on chan_stk, once, or online, never both.  Only an index that
\* does not fit epl_map is ever lost while the server goes on.
ChannelsConserved ==
  mpc # "closed" =>
    /\ Distinct(chan_stk)
    /\ \A i \in Chans : ~(i \in Stacked /\ is_online[i])
    /\ \A i \in Chans : i \in Stacked \/ is_online[i] \/ i \in lost
    /\ \A i \in lost : stop_el \/ i + 1 >= MapSize

\* An event of the batch is never stale: when its turn comes its descriptor
\* still has a channel (the panic of handle_client_event is out of reach) and
\* recv, on a socket that blocks, has something to return.
BatchIsFresh ==
  mpc = "batch" =>
    /\ Distinct(batch)
    /\ \A fd \in Elements(batch) \ {TcpFd} : Mapped(fd) /\ Ready(fd)

\* The bytes of a channel are the bytes of its connection, in order and from the
\* first one, whoever had the channel before.
OwnBytes ==
  \A i \in Chans : is_online[i] =>
    /\ recv_s[i] = taken[conn_of[chan_fd[i]]]
    /\ \A b \in 1 .. recv_s[i] : buf[i][b] = conn_of[chan_fd[i]]

\* A connection that waits for the rest of its packet has room for it: recv is
\* never asked for zero bytes, which would look like the end of the connection.
RoomForRest ==
  \A i \in Chans : is_online[i] =>
    /\ recv_s[i] < RawSize
    /\ recv_s[i] >= Header => /\ recv_s[i] < Header + LengthIn(buf[i])
                              /\ Header + LengthIn(buf[i]) <= RawSize

\* A packet is submitted at most once, whole, and only if it fits.
WholePackets ==
  \A c \in Conns : submitted[c] > 0 =>
    /\ submitted[c] = 1
    /\ taken[c] = Header + announced[c]
    /\ announced[c] <= BufSize

\* handle_events drops the rest of a batch because run_acceptor had nothing to
\* accept, or no channel for it.
BatchIsCut ==
  /\ Handling(TcpFd) /\ (Backlog = {} \/ chan_stk = <<>>)
  /\ Len(batch) > 1 /\ batch' = <<>>

\* Connections that come to nothing keep cutting batches short.  As tcp_fd may be
\* the first of every batch, nobody else is served then.
Flooded == []<><<BatchIsCut>>_vars

\* No client keeps a channel for ever, not even one that sends nothing: once its
\* time is up its channel is freed, however many others connect, unless the
\* server is flooded.
ChannelsAreFreed == Flooded \/ \A i \in Chans : expired[i] ~> ~is_online[i]

Packet(c) == Header + announced[c]
ShutDown(c) == \E fd \in shut : conn_of[fd] = c

\* A packet that is there is submitted, however many other clients connect and
\* although handle_events drops the rest of a batch after EAGAIN: unless the
\* client spoils it, the server stops, its ten seconds run out first (nothing
\* makes them run out), or the server is flooded.
PacketsAreTaken ==
  Flooded \/ \A c \in Conns :
    (client[c] = "accepted" /\ sent[c] = Packet(c) /\ announced[c] <= BufSize)
      ~> \/ submitted[c] = 1
         \/ sent[c] > Packet(c) \/ ended[c] = "error" \/ ShutDown(c)
         \/ stop_el \/ mpc \in {"out", "closed"}

===============================================================================
