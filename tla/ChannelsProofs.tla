----------------------------- MODULE ChannelsProofs -----------------------------
(***************************************************************************)
(* Proofs about Channels, for every number of channels, descriptors and    *)
(* connections, every buffer size and every batch size.                    *)
(*                                                                         *)
(* The properties lean on each other.  That a channel's bytes are its      *)
(* connection's needs that no two descriptors share a connection; that a   *)
(* late event of a batch is not stale needs it too, and that a closed      *)
(* descriptor is no longer in the batch; that tss_push is never refused    *)
(* needs that a channel in use is not on the stack.                        *)
(***************************************************************************)
EXTENDS Channels, SequenceTheorems, FiniteSetTheorems, TLAPS

\* An open descriptor belongs to one accepted connection, of its own.
ConnsAreOwned ==
  /\ \A fd \in Fds : conn_of[fd] # NoConn => client[conn_of[fd]] = "accepted"
  /\ \A f, g \in Fds : conn_of[f] # NoConn /\ conn_of[f] = conn_of[g] => f = g

\* handle_events is in its loop only while the batch has an event left.
BatchIsThere == mpc = "batch" => batch # <<>>

\* Nothing is received before accept; a packet that was submitted is the last
\* thing of its connection.
ConnHistory ==
  /\ \A c \in Conns : client[c] \in {"unmade", "backlog"} => taken[c] = 0
  /\ \A c \in Conns : submitted[c] # 0 => client[c] = "gone"

Links == FdsAreChannels /\ ChannelsConserved /\ ConnsAreOwned /\ NothingLeftOpen
Events == BatchIsFresh /\ BatchIsThere
Bytes == OwnBytes /\ RoomForRest /\ WholePackets /\ ConnHistory

ChanInv == TypeOK /\ Links /\ Events /\ Bytes

-------------------------------------------------------------------------------
(* Sequences without repetitions: chan_stk and the batch.                  *)

\* Taking the first element leaves the others.
LEMMA PopFacts ==
  ASSUME NEW S, NEW q \in Seq(S), q # <<>>
  PROVE  /\ Len(q) \in Nat \ {0} /\ Head(q) = q[1] /\ Head(q) \in S
         /\ Tail(q) \in Seq(S) /\ Len(Tail(q)) = Len(q) - 1
         /\ \A i \in 1 .. Len(q) - 1 : Tail(q)[i] = q[i + 1]
  BY EmptySeq, HeadTailProperties

\* Nor is it found among them if the elements are distinct.
LEMMA PopDistinct ==
  ASSUME NEW S, NEW q \in Seq(S), q # <<>>, Distinct(q)
  PROVE  /\ Distinct(Tail(q)) /\ Head(q) \in Elements(q)
         /\ Elements(Tail(q)) = Elements(q) \ {Head(q)}
  <1> USE PopFacts
  <1>1. Distinct(Tail(q))
    BY DEF Distinct
  <1>2. Head(q) \in Elements(q)
    BY DEF Elements
  <1>3. ASSUME NEW x \in Elements(Tail(q)) PROVE x \in Elements(q) \ {Head(q)}
    <2>1. PICK i \in 1 .. Len(Tail(q)) : x = Tail(q)[i]
      BY DEF Elements
    <2>2. i + 1 \in 1 .. Len(q) /\ 1 \in 1 .. Len(q) /\ i + 1 # 1 /\ x = q[i + 1]
      BY <2>1
    <2>3. QED
      BY <2>2 DEF Distinct, Elements
  <1>4. ASSUME NEW x \in Elements(q) \ {Head(q)} PROVE x \in Elements(Tail(q))
    <2>1. PICK i \in 1 .. Len(q) : x = q[i]
      BY DEF Elements
    <2>2. i # 1
      BY <2>1
    <2>3. i - 1 \in 1 .. Len(Tail(q)) /\ x = Tail(q)[i - 1]
      BY <2>1, <2>2
    <2>4. QED
      BY <2>3 DEF Elements
  <1>5. QED
    BY <1>1, <1>2, <1>3, <1>4

\* A new first element.
LEMMA PushDistinct ==
  ASSUME NEW S, NEW q \in Seq(S), NEW x \in S, x \notin Elements(q), Distinct(q)
  PROVE  /\ <<x>> \o q \in Seq(S) /\ Distinct(<<x>> \o q)
         /\ Elements(<<x>> \o q) = Elements(q) \cup {x}
  <1> DEFINE p == <<x>> \o q
  <1>1. /\ p \in Seq(S) /\ Len(p) = Len(q) + 1 /\ Len(q) \in Nat /\ p[1] = x
        /\ \A i \in 1 .. Len(q) : p[i + 1] = q[i]
    OBVIOUS
  <1> HIDE DEF p
  <1>2. \A i \in 1 .. Len(p) : i = 1 \/ (i - 1 \in 1 .. Len(q) /\ p[i] = q[i - 1])
    BY <1>1
  <1>3. \A i \in 1 .. Len(q) : q[i] # x
    BY DEF Elements
  <1>4. Distinct(p)
    <2> SUFFICES ASSUME NEW i \in 1 .. Len(p), NEW j \in 1 .. Len(p), p[i] = p[j]
                 PROVE  i = j
      BY DEF Distinct
    <2>1. CASE i = 1
      BY <1>1, <1>2, <1>3, <2>1
    <2>2. CASE j = 1
      BY <1>1, <1>2, <1>3, <2>2
    <2>3. CASE i # 1 /\ j # 1
      <3>1. i - 1 \in 1 .. Len(q) /\ j - 1 \in 1 .. Len(q) /\ q[i - 1] = q[j - 1]
        BY <1>2, <2>3
      <3>2. i - 1 = j - 1
        BY <3>1 DEF Distinct
      <3>3. QED
        BY <3>2
    <2>4. QED
      BY <2>1, <2>2, <2>3
  <1>5. Elements(p) = Elements(q) \cup {x}
    <2>1. ASSUME NEW y \in Elements(p) PROVE y \in Elements(q) \cup {x}
      BY <1>1, <1>2, <2>1 DEF Elements
    <2>2. ASSUME NEW y \in Elements(q) PROVE y \in Elements(p)
      <3>1. PICK i \in 1 .. Len(q) : y = q[i]
        BY <2>2 DEF Elements
      <3>2. i + 1 \in 1 .. Len(p) /\ p[i + 1] = y
        BY <1>1, <3>1
      <3>3. QED
        BY <3>2 DEF Elements
    <2>3. x \in Elements(p)
      <3>1. 1 \in 1 .. Len(p)
        BY <1>1
      <3>2. QED
        BY <1>1, <3>1 DEF Elements
    <2>4. QED
      BY <2>1, <2>2, <2>3
  <1>6. QED
    BY <1>1, <1>4, <1>5 DEF p

\* The numbers from 1 to n are n.
LEMMA UpToSize == \A n \in Nat : IsFiniteSet(1 .. n) /\ Cardinality(1 .. n) = n
  BY FS_Interval

\* There are ThreadC channels.
LEMMA ChansFinite == IsFiniteSet(Chans) /\ Cardinality(Chans) = ThreadC
  <1>1. 0 \in Int /\ ThreadC - 1 \in Int /\ ThreadC > 0 /\ ThreadC \in Nat
    BY ChannelAssumption
  <1>2. /\ IsFiniteSet(0 .. ThreadC - 1)
        /\ Cardinality(0 .. ThreadC - 1) = IF 0 > ThreadC - 1 THEN 0 ELSE (ThreadC - 1) - 0 + 1
    BY Zenon, <1>1, FS_Interval
  <1>3. QED
    BY <1>1, <1>2 DEF Chans

\* tss_push has room for a channel that is not on the stack.
LEMMA StackNotFull ==
  ASSUME chan_stk \in Seq(Chans), Distinct(chan_stk), NEW i \in Chans, i \notin Stacked
  PROVE  Len(chan_stk) < ThreadC
  <1> DEFINE n == Len(chan_stk)
             Rest == Chans \ {i}
  <1>1. n \in Nat /\ ThreadC \in Nat
    BY ChannelAssumption
  <1>2. IsFiniteSet(Chans) /\ Cardinality(Chans) = ThreadC
    BY ChansFinite
  <1>3. IsFiniteSet(Rest) /\ Cardinality(Rest) = ThreadC - 1
    BY Zenon, <1>2, FS_RemoveElement
  <1>4. IsFiniteSet(1 .. n) /\ Cardinality(1 .. n) = n
    BY Zenon, <1>1, UpToSize
  <1>5. chan_stk \in [1 .. n -> Rest]
    BY DEF Stacked, Elements
  <1>6. ~(Cardinality(Rest) < Cardinality(1 .. n))
    BY <1>3, <1>4, <1>5, FS_PigeonHole DEF Distinct
  <1>7. QED
    BY <1>1, <1>3, <1>4, <1>6

-------------------------------------------------------------------------------
(* The initial state, and the steps that do not touch a channel.           *)

\* What init_state sets up is a legal state.
LEMMA InitChan == Init => ChanInv
  <1> SUFFICES ASSUME Init PROVE ChanInv
    OBVIOUS
  <1> USE ChannelAssumption
  <1>1. chan_stk \in [1 .. ThreadC -> Chans] /\ Len(chan_stk) = ThreadC
    <2>1. chan_stk = [i \in 1 .. ThreadC |-> i - 1]
      BY DEF Init, InitStack
    <2>2. QED
      BY <2>1 DEF Chans
  <1>2. chan_stk \in Seq(Chans)
    BY <1>1
  <1>3. TypeOK
    <2>1. /\ stop_el \in BOOLEAN /\ is_online \in [Chans -> BOOLEAN]
          /\ expired \in [Chans -> BOOLEAN]
      BY Zenon DEF Init
    <2>2. /\ epl_map \in [Fds -> 0 .. ThreadC] /\ recv_s \in [Chans -> 0 .. RawSize]
          /\ sent \in [Conns -> Nat] /\ taken \in [Conns -> Nat] /\ submitted \in [Conns -> Nat]
      BY DEF Init, MapToNop, RawSize, Header
    <2>3. /\ chan_fd \in [Chans -> Fds \cup {NoFd}]
          /\ buf \in [Chans -> [1 .. RawSize -> MaybeConn]]
          /\ conn_of \in [Fds -> MaybeConn]
          /\ client \in [Conns -> {"unmade", "backlog", "accepted", "gone"}]
          /\ announced \in [Conns -> Lengths]
          /\ ended \in [Conns -> {"no", "eof", "error"}]
      BY Zenon DEF Init, MaybeConn
    <2>4. /\ mpc \in {"top", "wait", "batch", "out", "closed"}
          /\ batch \in Seq(Fds \cup {TcpFd})
          /\ watched \subseteq Fds /\ shut \subseteq Fds /\ lost \subseteq Chans
      BY DEF Init
    <2>5. QED
      BY Zenon, <1>2, <2>1, <2>2, <2>3, <2>4 DEF TypeOK
  <1>4. FdsAreChannels
    BY DEF Init, FdsAreChannels, Mapped
  <1>5. ChannelsConserved
    <2>1. Distinct(chan_stk)
      BY <1>1 DEF Init, InitStack, Distinct
    <2>2. ASSUME NEW i \in Chans PROVE i \in Stacked /\ ~is_online[i]
      <3>1. i + 1 \in 1 .. Len(chan_stk) /\ chan_stk[i + 1] = i
        BY <1>1 DEF Init, InitStack, Chans
      <3>2. QED
        BY Zenon, <3>1 DEF Init, Stacked, Elements
    <2>3. QED
      BY <2>1, <2>2 DEF Init, ChannelsConserved
  <1>6. ConnsAreOwned /\ NothingLeftOpen /\ Events
    BY DEF Init, ConnsAreOwned, NothingLeftOpen, Events, BatchIsFresh, BatchIsThere
  <1>7. Bytes
    BY DEF Init, Bytes, OwnBytes, RoomForRest, WholePackets, ConnHistory
  <1>8. QED
    BY <1>3, <1>4, <1>5, <1>6, <1>7 DEF ChanInv, Links

USE DEF vars, chanVars, kernelVars, clientVars, histVars

\* What a client does never makes an event of the batch stale: bytes only
\* arrive, and an end is never taken back.
LEMMA ClientKeepsChan ==
  ASSUME ChanInv, ClientStep
  PROVE  ChanInv'
  <1> USE DEF ChanInv
  <1>0. PICK c \in Conns :
          \/ client_connect(c) \/ client_abort(c)
          \/ \E n \in 1 .. MaxSent : client_send(c, n)
          \/ \E how \in {"eof", "error"} : client_end(c, how)
    BY Zenon DEF ClientStep
  <1> DEFINE Same == UNCHANGED <<stop_el, chan_stk, epl_map, chanVars, expired, mpc, batch,
                                 kernelVars, announced, taken, histVars>>
  <1>1. Same
    BY Zenon, <1>0 DEF client_connect, client_abort, client_send, client_end
  <1>2. /\ sent' \in [Conns -> Nat]
        /\ \A d \in Conns : sent'[d] >= sent[d]
    <2>1. sent \in [Conns -> Nat] /\ MaxSent \in Nat
      BY ChannelAssumption DEF TypeOK
    <2>2. QED
      BY <1>0, <2>1 DEF client_connect, client_abort, client_send, client_end
  <1>3. /\ ended' \in [Conns -> {"no", "eof", "error"}]
        /\ \A d \in Conns : ended[d] # "no" => ended'[d] = ended[d]
    BY <1>0 DEF client_connect, client_abort, client_send, client_end, TypeOK
  <1>4. /\ client' \in [Conns -> {"unmade", "backlog", "accepted", "gone"}]
        /\ \A d \in Conns : client[d] \in {"accepted", "gone"} => client'[d] = client[d]
        /\ \A d \in Conns : client'[d] \in {"unmade", "backlog"} =>
                              client[d] \in {"unmade", "backlog"}
    BY <1>0 DEF client_connect, client_abort, client_send, client_end, TypeOK
  <1> HIDE DEF Same
  <1>5. TypeOK'
    BY Zenon, <1>1, <1>2, <1>3, <1>4 DEF TypeOK, Same
  <1>6. Links'
    <2>1. FdsAreChannels' /\ ChannelsConserved' /\ NothingLeftOpen'
      BY <1>1 DEF Same, Links, FdsAreChannels, ChannelsConserved, NothingLeftOpen, Mapped,
         ChanOf, Stacked
    <2>2. ConnsAreOwned'
      BY <1>1, <1>4 DEF Same, Links, ConnsAreOwned, TypeOK, MaybeConn
    <2>3. QED
      BY <2>1, <2>2 DEF Links
  <1>7. Events'
    <2>1. ASSUME mpc = "batch", NEW fd \in Elements(batch) \ {TcpFd} PROVE Ready(fd)'
      <3>1. Ready(fd) /\ fd \in Fds
        BY <2>1 DEF Events, BatchIsFresh, Mapped
      <3>2. conn_of[fd] \in Conns
        BY <3>1 DEF Ready, TypeOK, MaybeConn
      <3>3. taken[conn_of[fd]] \in Nat /\ sent[conn_of[fd]] \in Nat /\ sent'[conn_of[fd]] \in Nat
        BY <1>2, <3>2 DEF TypeOK
      <3>4. HasError(fd) => HasError(fd)'
        BY Zenon, <1>1, <1>3, <3>2 DEF Same, HasError
      <3>5. sent[conn_of[fd]] > taken[conn_of[fd]] => sent'[conn_of[fd]] > taken[conn_of[fd]]
        BY <1>2, <3>2, <3>3
      <3>6. HasInput(fd) => HasInput(fd)'
        BY Zenon, <1>1, <1>3, <3>2, <3>5 DEF Same, HasInput
      <3>7. QED
        BY Zenon, <1>1, <3>1, <3>4, <3>6 DEF Same, Ready
    <2>2. QED
      BY <1>1, <2>1 DEF Same, Events, BatchIsFresh, BatchIsThere, Mapped
  <1>8. Bytes'
    <2>1. OwnBytes' /\ RoomForRest' /\ WholePackets'
      BY <1>1 DEF Same, Bytes, OwnBytes, RoomForRest, WholePackets, LengthIn
    <2>2. ConnHistory'
      BY <1>1, <1>4 DEF Same, Bytes, ConnHistory
    <2>3. QED
      BY <2>1, <2>2 DEF Bytes
  <1>9. QED
    BY <1>5, <1>6, <1>7, <1>8

\* Steps that change no channel, connection or packet.
LEMMA StayKeepsChan ==
  ASSUME Links, Bytes, mpc # "closed", mpc' # "closed", stop_el => stop_el',
         UNCHANGED <<chan_stk, epl_map, chanVars, conn_of, watched, client, announced, taken,
                     histVars>>
  PROVE  Links' /\ Bytes'
  <1>1. FdsAreChannels' /\ NothingLeftOpen'
    BY DEF Links, FdsAreChannels, NothingLeftOpen, Mapped, ChanOf
  <1>2. ChannelsConserved'
    BY DEF Links, ChannelsConserved, Stacked
  <1>3. ConnsAreOwned'
    BY DEF Links, ConnsAreOwned
  <1>4. OwnBytes' /\ RoomForRest'
    BY DEF Bytes, OwnBytes, RoomForRest, LengthIn
  <1>5. WholePackets' /\ ConnHistory'
    BY DEF Bytes, WholePackets, ConnHistory
  <1>6. QED
    BY <1>1, <1>2, <1>3, <1>4, <1>5 DEF Links, Bytes

\* What epoll_wait returns is fresh: a descriptor it watches has a channel.
LEMMA WaitKeepsChan ==
  ASSUME ChanInv, epoll_wait
  PROVE  ChanInv'
  <1> USE DEF ChanInv
  <1>1. mpc = "wait" /\ mpc' = "batch"
    BY DEF epoll_wait
  <1>2. Links' /\ Bytes'
    BY <1>1, StayKeepsChan DEF epoll_wait
  <1>3. PICK n \in 1 .. Cardinality(ReadyFds) :
          \E q \in [1 .. n -> ReadyFds] : Distinct(q) /\ batch' = q
    BY Zenon DEF epoll_wait
  <1>4. n \in Nat /\ n >= 1
    BY <1>3
  <1>5. PICK q \in [1 .. n -> ReadyFds] : Distinct(q) /\ batch' = q
    BY Zenon, <1>3
  <1>6. q \in Seq(ReadyFds) /\ Len(q) = n /\ q # <<>>
    BY <1>4
  <1>7. ReadyFds \subseteq Fds \cup {TcpFd}
    BY DEF ReadyFds, TypeOK
  <1>8. Elements(q) \subseteq ReadyFds
    BY <1>5, <1>6 DEF Elements
  <1>9. TypeOK'
    <2>1. batch' \in Seq(Fds \cup {TcpFd})
      BY <1>5, <1>6, <1>7
    <2>2. mpc' \in {"top", "wait", "batch", "out", "closed"}
      BY <1>1
    <2>3. QED
      BY Zenon, <2>1, <2>2 DEF TypeOK, epoll_wait
  <1>10. ASSUME NEW fd \in Elements(q) \ {TcpFd} PROVE Mapped(fd)' /\ Ready(fd)'
    <2>1. fd \in watched /\ Ready(fd)
      BY <1>8 DEF ReadyFds
    <2>2. Mapped(fd)
      BY <1>1, <2>1 DEF Links, FdsAreChannels, TypeOK
    <2>3. QED
      BY <2>1, <2>2 DEF epoll_wait, Mapped, Ready, HasError, HasInput
  <1>11. Events'
    BY <1>1, <1>5, <1>6, <1>10 DEF Events, BatchIsFresh, BatchIsThere
  <1>12. QED
    BY <1>2, <1>9, <1>11

\* The rest of the loop between two batches, the signal handler, and time.
LEMMA QuietKeepsChan ==
  ASSUME ChanInv,
         \/ handle_interrupt \/ run_event_loop_top \/ epoll_wait_nothing
         \/ \E i \in Chans : time_passes(i)
  PROVE  ChanInv'
  <1> USE DEF ChanInv
  <1>1. mpc # "closed" /\ mpc' # "closed"
    BY DEF handle_interrupt, run_event_loop_top, epoll_wait_nothing, time_passes
  <1>2. UNCHANGED <<chan_stk, epl_map, chanVars, conn_of, watched, clientVars, histVars, batch>>
    BY DEF handle_interrupt, run_event_loop_top, epoll_wait_nothing, time_passes
  <1>3. stop_el => stop_el'
    BY Zenon DEF handle_interrupt, run_event_loop_top, epoll_wait_nothing, time_passes
  <1>4. Links' /\ Bytes'
    BY <1>1, <1>2, <1>3, StayKeepsChan
  <1>5. stop_el' \in BOOLEAN /\ expired' \in [Chans -> BOOLEAN]
    BY Zenon DEF TypeOK, handle_interrupt, run_event_loop_top, epoll_wait_nothing, time_passes
  <1>6. mpc' \in {"top", "wait", "batch", "out", "closed"}
    BY DEF TypeOK, handle_interrupt, run_event_loop_top, epoll_wait_nothing, time_passes
  <1>7. shut' \subseteq Fds
    <2>1. CASE run_event_loop_top
      <3>1. \A i \in Chans : is_online[i] => chan_fd[i] \in Fds
        BY <1>1 DEF Links, FdsAreChannels
      <3>2. QED
        BY <2>1, <3>1 DEF run_event_loop_top, monitor_client_time, Overdue, TypeOK
    <2>2. CASE ~run_event_loop_top
      BY <2>2 DEF TypeOK, handle_interrupt, epoll_wait_nothing, time_passes
    <2>3. QED
      BY <2>1, <2>2
  <1>8. TypeOK'
    BY Zenon, <1>2, <1>5, <1>6, <1>7 DEF TypeOK
  <1>9. Events'
    <2>1. mpc' = "batch" => mpc = "batch" /\ UNCHANGED shut
      BY DEF handle_interrupt, run_event_loop_top, epoll_wait_nothing, time_passes
    <2>2. QED
      BY <1>2, <2>1 DEF Events, BatchIsFresh, BatchIsThere, Mapped, Ready, HasError, HasInput
  <1>10. QED
    BY <1>4, <1>8, <1>9

\* close_fds finds every open descriptor, for each is the descriptor of an
\* online channel.
LEMMA CloseFdsKeepsChan ==
  ASSUME ChanInv, close_fds
  PROVE  ChanInv'
  <1> USE DEF ChanInv
  <1>1. mpc # "closed" /\ mpc' = "closed"
    BY DEF close_fds
  <1>2. ASSUME NEW fd \in Fds PROVE conn_of'[fd] = NoConn
    <2>1. CASE conn_of[fd] = NoConn
      BY <2>1 DEF close_fds
    <2>2. CASE conn_of[fd] # NoConn
      <3>1. Mapped(fd) /\ is_online[ChanOf(fd)] /\ chan_fd[ChanOf(fd)] = fd
        BY <1>1, <2>2 DEF Links, FdsAreChannels
      <3>2. ChanOf(fd) \in Chans
        <4>1. epl_map[fd] \in 0 .. ThreadC /\ epl_map[fd] # 0
          BY <3>1 DEF TypeOK, Mapped, MapToNop
        <4>2. QED
          BY <4>1, ChannelAssumption DEF ChanOf, Chans
      <3>3. \E i \in Chans : is_online[i] /\ chan_fd[i] = fd
        BY <3>1, <3>2
      <3>4. QED
        BY <3>3 DEF close_fds
    <2>3. QED
      BY <2>1, <2>2
  <1>3. TypeOK'
    <2>1. /\ stop_el' \in BOOLEAN /\ is_online' \in [Chans -> BOOLEAN]
          /\ expired' \in [Chans -> BOOLEAN]
      BY Zenon DEF close_fds
    <2>2. conn_of' \in [Fds -> MaybeConn]
      BY <1>2 DEF close_fds, MaybeConn
    <2>3. client' \in [Conns -> {"unmade", "backlog", "accepted", "gone"}]
      BY DEF close_fds
    <2>4. chan_fd' \in [Chans -> Fds \cup {NoFd}] /\ recv_s' \in [Chans -> 0 .. RawSize]
      BY ChannelAssumption DEF close_fds, TypeOK, RawSize, Header
    <2>5. /\ mpc' \in {"top", "wait", "batch", "out", "closed"}
          /\ watched' \subseteq Fds /\ shut' \subseteq Fds
      BY DEF close_fds
    <2>6. QED
      BY Zenon, <2>1, <2>2, <2>3, <2>4, <2>5 DEF TypeOK, close_fds
  <1>4. Links'
    BY <1>1, <1>2 DEF Links, FdsAreChannels, ChannelsConserved, ConnsAreOwned, NothingLeftOpen
  <1>5. Events'
    BY <1>1 DEF Events, BatchIsFresh, BatchIsThere
  <1>6. OwnBytes' /\ RoomForRest'
    BY DEF close_fds, OwnBytes, RoomForRest
  <1>7. WholePackets' /\ ConnHistory'
    BY DEF close_fds, Bytes, WholePackets, ConnHistory, TypeOK
  <1>8. QED
    BY <1>3, <1>4, <1>5, <1>6, <1>7 DEF Bytes

-------------------------------------------------------------------------------
(* handle_events: one event of the batch.                                  *)

\* The batch gets shorter, and the event handled is no longer in it.
LEMMA NextEvent ==
  ASSUME TypeOK, Events, mpc = "batch", NEW ret, handle_events(ret), BackToLoop
  PROVE  /\ batch' \in Seq(Fds \cup {TcpFd}) /\ Distinct(batch')
         /\ Elements(batch') \subseteq Elements(batch) \ {Head(batch)}
         /\ mpc' \in {"top", "batch"} /\ BatchIsThere'
         /\ stop_el' \in BOOLEAN /\ (stop_el => stop_el')
  <1>1. batch \in Seq(Fds \cup {TcpFd}) /\ batch # <<>> /\ Distinct(batch)
    BY DEF TypeOK, Events, BatchIsFresh, BatchIsThere
  <1>2. batch' = Tail(batch) \/ batch' = <<>>
    BY DEF handle_events
  <1>3. mpc' \in {"top", "batch"} /\ BatchIsThere'
    BY DEF BackToLoop, BatchIsThere
  <1>4. stop_el' \in BOOLEAN /\ (stop_el => stop_el')
    BY Zenon DEF handle_events, TypeOK
  <1>5. CASE batch' = <<>>
    <2>1. Distinct(<<>>) /\ Elements(<<>>) = {} /\ <<>> \in Seq(Fds \cup {TcpFd})
      BY DEF Distinct, Elements
    <2>2. QED
      BY <1>3, <1>4, <1>5, <2>1
  <1>6. CASE batch' = Tail(batch)
    <2>1. batch' \in Seq(Fds \cup {TcpFd})
      BY <1>1, <1>6, PopFacts
    <2>2. Distinct(batch') /\ Elements(batch') = Elements(batch) \ {Head(batch)}
      BY Zenon, <1>1, <1>6, PopDistinct
    <2>3. QED
      BY <1>3, <1>4, <2>1, <2>2
  <1>7. QED
    BY <1>2, <1>5, <1>6

\* The rest stays fresh if the step leaves other descriptors alone.
LEMMA RestIsFresh ==
  ASSUME TypeOK, Events, mpc = "batch", NEW ret, handle_events(ret), BackToLoop,
         \A fd \in Fds : fd # Head(batch) /\ Mapped(fd) /\ Ready(fd) => Mapped(fd)' /\ Ready(fd)'
  PROVE  Events'
  <1>1. /\ Distinct(batch') /\ BatchIsThere'
        /\ Elements(batch') \subseteq Elements(batch) \ {Head(batch)}
    BY Zenon, NextEvent
  <1>2. ASSUME NEW fd \in Elements(batch') \ {TcpFd} PROVE Mapped(fd)' /\ Ready(fd)'
    <2>1. fd # Head(batch) /\ Mapped(fd) /\ Ready(fd)
      BY <1>1 DEF Events, BatchIsFresh
    <2>2. QED
      BY <2>1 DEF Mapped
  <1>3. QED
    BY <1>1, <1>2 DEF Events, BatchIsFresh

\* The connections an error of run_acceptor leaves: none, or one of the backlog,
\* is closed.
Dropped == UNCHANGED client \/ \E c \in Backlog : DropConn(c)

\* A connection of the backlog has no descriptor, so closing it changes nothing
\* for those that have one.
LEMMA DropFacts ==
  ASSUME TypeOK, Links, Bytes, Dropped,
         UNCHANGED <<conn_of, taken, announced, submitted>>
  PROVE  /\ client' \in [Conns -> {"unmade", "backlog", "accepted", "gone"}]
         /\ ConnsAreOwned' /\ ConnHistory' /\ WholePackets'
  <1>1. /\ client' \in [Conns -> {"unmade", "backlog", "accepted", "gone"}]
        /\ \A c \in Conns : client[c] \in {"accepted", "gone"} => client'[c] = client[c]
        /\ \A c \in Conns : client'[c] \in {"unmade", "backlog"} => client'[c] = client[c]
    BY DEF Dropped, DropConn, Backlog, TypeOK
  <1>2. ConnsAreOwned'
    BY <1>1 DEF Links, ConnsAreOwned, TypeOK, MaybeConn
  <1>3. ConnHistory'
    BY <1>1 DEF Bytes, ConnHistory
  <1>4. WholePackets'
    BY DEF Bytes, WholePackets
  <1>5. QED
    BY <1>1, <1>2, <1>3, <1>4

\* run_acceptor without a new connection; it may lose the channel it popped.
LEMMA RefuseKeepsChan ==
  ASSUME ChanInv, run_acceptor_error \/ run_acceptor_again \/ run_acceptor_lose
  PROVE  ChanInv'
  <1> USE DEF ChanInv
  <1>1. /\ mpc = "batch" /\ BackToLoop /\ Dropped
        /\ \E ret \in {"again", "fail"} : handle_events(ret)
        /\ UNCHANGED <<epl_map, chanVars, expired, kernelVars, announced, sent, taken, ended,
                       submitted>>
    BY DEF run_acceptor_error, run_acceptor_again, run_acceptor_lose, Handling, Dropped
  <1>2. PICK ret \in {"again", "fail"} : handle_events(ret)
    BY <1>1
  <1>3. /\ batch' \in Seq(Fds \cup {TcpFd}) /\ mpc' \in {"top", "batch"}
        /\ stop_el' \in BOOLEAN /\ (stop_el => stop_el')
    BY Zenon, <1>1, <1>2, NextEvent
  <1>4. /\ client' \in [Conns -> {"unmade", "backlog", "accepted", "gone"}]
        /\ ConnsAreOwned' /\ ConnHistory' /\ WholePackets'
    BY <1>1, DropFacts
  <1>5. /\ chan_stk' \in Seq(Chans) /\ lost' \subseteq Chans
        /\ ChannelsConserved'
    <2>1. CASE UNCHANGED <<chan_stk, lost>>
      BY <1>1, <1>3, <2>1 DEF TypeOK, Links, ChannelsConserved, Stacked
    <2>2. CASE run_acceptor_lose
      <3> DEFINE i == Head(chan_stk)
      <3>1. chan_stk \in Seq(Chans) /\ chan_stk # <<>> /\ Distinct(chan_stk)
        BY <1>1, <2>2 DEF run_acceptor_lose, TypeOK, Links, ChannelsConserved
      <3>2. chan_stk' = Tail(chan_stk) /\ lost' = lost \cup {i}
        BY <2>2 DEF run_acceptor_lose
      <3>3. i \in Chans /\ chan_stk' \in Seq(Chans)
        BY <3>1, <3>2, PopFacts
      <3>4. Distinct(chan_stk') /\ Stacked' = Stacked \ {i}
        BY Zenon, <3>1, <3>2, PopDistinct DEF Stacked
      <3>5. stop_el' \/ i + 1 >= MapSize
        BY <2>2 DEF run_acceptor_lose, handle_events
      <3>6. mpc' # "closed" /\ UNCHANGED is_online
        BY <1>1, <1>3
      <3> HIDE DEF i
      <3>7. ChannelsConserved'
        BY <1>1, <1>3, <3>2, <3>3, <3>4, <3>5, <3>6 DEF Links, ChannelsConserved
      <3>8. QED
        BY <3>2, <3>3, <3>7 DEF TypeOK
    <2>3. QED
      BY <2>1, <2>2 DEF run_acceptor_error, run_acceptor_again
  <1>6. TypeOK'
    <2>1. mpc' \in {"top", "wait", "batch", "out", "closed"}
      BY <1>3
    <2>2. QED
      BY Zenon, <1>1, <1>3, <1>4, <1>5, <2>1 DEF TypeOK
  <1>7. FdsAreChannels' /\ NothingLeftOpen'
    BY <1>1, <1>3 DEF Links, FdsAreChannels, NothingLeftOpen, Mapped, ChanOf
  <1>8. OwnBytes' /\ RoomForRest'
    BY <1>1 DEF Bytes, OwnBytes, RoomForRest, LengthIn
  <1>9. Events'
    <2>1. \A fd \in Fds : Mapped(fd) /\ Ready(fd) => Mapped(fd)' /\ Ready(fd)'
      BY <1>1 DEF Mapped, Ready, HasError, HasInput
    <2>2. QED
      BY <1>1, <1>2, <2>1, RestIsFresh
  <1>10. QED
    BY <1>4, <1>5, <1>6, <1>7, <1>8, <1>9 DEF Links, Bytes

\* What epl_map leads to: the channel of the descriptor, with its connection.
LEMMA MappedFacts ==
  ASSUME TypeOK, Links, mpc # "closed", NEW fd \in Fds, Mapped(fd)
  PROVE  /\ ChanOf(fd) \in Chans /\ is_online[ChanOf(fd)] /\ chan_fd[ChanOf(fd)] = fd
         /\ conn_of[fd] \in Conns /\ client[conn_of[fd]] = "accepted"
         /\ ChanOf(fd) \notin Stacked /\ Len(chan_stk) < ThreadC
         /\ Distinct(chan_stk)
  <1>1. epl_map[fd] \in 0 .. ThreadC /\ epl_map[fd] # 0
    BY DEF TypeOK, Mapped, MapToNop
  <1>2. ChanOf(fd) \in Chans
    BY <1>1, ChannelAssumption DEF ChanOf, Chans
  <1>3. is_online[ChanOf(fd)] /\ chan_fd[ChanOf(fd)] = fd /\ conn_of[fd] # NoConn
    BY DEF Links, FdsAreChannels
  <1>4. conn_of[fd] \in Conns /\ client[conn_of[fd]] = "accepted"
    BY <1>3 DEF TypeOK, MaybeConn, Links, ConnsAreOwned
  <1>5. ChanOf(fd) \notin Stacked /\ Distinct(chan_stk)
    BY <1>2, <1>3 DEF Links, ChannelsConserved
  <1>6. Len(chan_stk) < ThreadC
    BY <1>2, <1>5, StackNotFull DEF TypeOK
  <1>7. QED
    BY <1>2, <1>3, <1>4, <1>5, <1>6

\* And back: an online channel leads to its descriptor and its connection.
LEMMA OnlineFacts ==
  ASSUME TypeOK, Links, mpc # "closed", NEW j \in Chans, is_online[j]
  PROVE  /\ chan_fd[j] \in Fds /\ Mapped(chan_fd[j]) /\ ChanOf(chan_fd[j]) = j
         /\ epl_map[chan_fd[j]] = j + 1 /\ conn_of[chan_fd[j]] \in Conns
  <1>1. chan_fd[j] \in Fds /\ epl_map[chan_fd[j]] = j + 1
    BY Zenon DEF Links, FdsAreChannels
  <1>2. j + 1 # 0 /\ (j + 1) - 1 = j
    BY ChannelAssumption DEF Chans
  <1>3. Mapped(chan_fd[j]) /\ ChanOf(chan_fd[j]) = j
    BY Zenon, <1>1, <1>2 DEF Mapped, MapToNop, ChanOf
  <1>4. conn_of[chan_fd[j]] # NoConn
    BY Zenon, <1>1, <1>3 DEF Links, FdsAreChannels
  <1>5. conn_of[chan_fd[j]] \in Conns
    BY Zenon, <1>1, <1>4 DEF TypeOK, MaybeConn
  <1>6. QED
    BY <1>1, <1>3, <1>5

\* The other online channels have other descriptors and other connections.
LEMMA OthersApart ==
  ASSUME TypeOK, Links, mpc # "closed", NEW fd \in Fds, Mapped(fd),
         NEW j \in Chans, j # ChanOf(fd), is_online[j]
  PROVE  /\ chan_fd[j] \in Fds /\ chan_fd[j] # fd
         /\ conn_of[chan_fd[j]] \in Conns /\ conn_of[chan_fd[j]] # conn_of[fd]
  <1>1. /\ chan_fd[j] \in Fds /\ ChanOf(chan_fd[j]) = j
        /\ conn_of[chan_fd[j]] \in Conns
    BY OnlineFacts
  <1>2. chan_fd[j] # fd
    BY Zenon, <1>1
  <1>3. conn_of[chan_fd[j]] # NoConn
    BY Zenon, <1>1, ChannelAssumption
  <1>4. QED
    BY Zenon, <1>1, <1>2, <1>3 DEF Links, ConnsAreOwned

-------------------------------------------------------------------------------
(* run_acceptor with a new connection.                                     *)

\* A new connection gets a channel nobody has and a descriptor nobody has.
LEMMA AcceptKeepsChan ==
  ASSUME ChanInv, NEW c \in Conns, NEW fd \in Fds, run_acceptor(c, fd)
  PROVE  ChanInv'
  <1> USE DEF ChanInv
  <1> DEFINE i == Head(chan_stk)
  <1>1. /\ mpc = "batch" /\ Head(batch) = TcpFd /\ handle_events("ok") /\ BackToLoop
        /\ client[c] = "backlog" /\ conn_of[fd] = NoConn
        /\ chan_stk # <<>> /\ chan_stk' = Tail(chan_stk)
    BY DEF run_acceptor, Handling, Backlog
  <1>2. /\ watched' = watched \cup {fd}
        /\ chan_fd' = [chan_fd EXCEPT ![i] = fd]
        /\ expired' = [expired EXCEPT ![i] = FALSE]
        /\ recv_s' = [recv_s EXCEPT ![i] = 0]
        /\ is_online' = [is_online EXCEPT ![i] = TRUE]
        /\ epl_map' = [epl_map EXCEPT ![fd] = i + 1]
        /\ conn_of' = [conn_of EXCEPT ![fd] = c]
        /\ client' = [client EXCEPT ![c] = "accepted"]
        /\ UNCHANGED <<buf, shut, announced, sent, taken, ended, histVars>>
    BY DEF run_acceptor, OpenChan
  <1>3. /\ batch' \in Seq(Fds \cup {TcpFd}) /\ mpc' \in {"top", "batch"}
        /\ stop_el' \in BOOLEAN /\ (stop_el => stop_el')
    BY Zenon, <1>1, NextEvent
  <1>4. mpc # "closed" /\ mpc' # "closed" /\ chan_stk \in Seq(Chans) /\ Distinct(chan_stk)
    BY <1>1, <1>3 DEF TypeOK, Links, ChannelsConserved
  <1>5. i \in Chans /\ chan_stk' \in Seq(Chans)
    BY <1>1, <1>4, PopFacts
  <1>6. Distinct(chan_stk') /\ Stacked' = Stacked \ {i} /\ i \in Stacked
    BY Zenon, <1>1, <1>4, PopDistinct DEF Stacked
  <1> HIDE DEF i
  <1>7. ~is_online[i] /\ ~Mapped(fd)
    BY <1>1, <1>5, <1>6 DEF Links, ChannelsConserved, FdsAreChannels
  <1>8. i \in Nat /\ i + 1 \in 0 .. ThreadC /\ i + 1 # 0 /\ (i + 1) - 1 = i
    BY <1>5, ChannelAssumption DEF Chans
  <1>9. TypeOK'
    <2>1. is_online' \in [Chans -> BOOLEAN] /\ expired' \in [Chans -> BOOLEAN]
      BY Zenon, <1>2 DEF TypeOK
    <2>2. epl_map' \in [Fds -> 0 .. ThreadC] /\ recv_s' \in [Chans -> 0 .. RawSize]
      <3>1. 0 \in 0 .. RawSize
        BY ChannelAssumption DEF RawSize, Header
      <3>2. QED
        BY Zenon, <1>2, <1>8, <3>1 DEF TypeOK
    <2>3. /\ chan_fd' \in [Chans -> Fds \cup {NoFd}] /\ conn_of' \in [Fds -> MaybeConn]
          /\ client' \in [Conns -> {"unmade", "backlog", "accepted", "gone"}]
      BY <1>2 DEF TypeOK, MaybeConn
    <2>4. /\ watched' \subseteq Fds /\ shut' \subseteq Fds
          /\ mpc' \in {"top", "wait", "batch", "out", "closed"}
      BY <1>2, <1>3 DEF TypeOK
    <2>5. QED
      BY Zenon, <1>2, <1>3, <1>5, <2>1, <2>2, <2>3, <2>4 DEF TypeOK
  <1>10. Mapped(fd)' /\ ChanOf(fd)' = i /\ conn_of'[fd] = c /\ chan_fd'[i] = fd /\ is_online'[i]
    <2>1. /\ epl_map'[fd] = i + 1 /\ conn_of'[fd] = c /\ chan_fd'[i] = fd
          /\ is_online'[i] = TRUE
      BY Zenon, <1>2, <1>5 DEF TypeOK
    <2>2. QED
      BY <1>8, <2>1 DEF Mapped, ChanOf, MapToNop
  <1>11. ASSUME NEW f \in Fds, f # fd
         PROVE  /\ Mapped(f)' = Mapped(f) /\ ChanOf(f)' = ChanOf(f) /\ conn_of'[f] = conn_of[f]
                /\ f \in watched' <=> f \in watched
    BY <1>2, <1>11 DEF Mapped, ChanOf, TypeOK
  <1>12. ASSUME NEW j \in Chans, j # i
         PROVE  /\ is_online'[j] = is_online[j] /\ chan_fd'[j] = chan_fd[j]
                /\ recv_s'[j] = recv_s[j]
    BY <1>2, <1>12 DEF TypeOK
  <1>13. FdsAreChannels'
    <2>1. ASSUME NEW f \in Fds
          PROVE  /\ (conn_of'[f] # NoConn) <=> Mapped(f)'
                 /\ (f \in watched') <=> Mapped(f)'
                 /\ Mapped(f)' => is_online'[ChanOf(f)'] /\ chan_fd'[ChanOf(f)'] = f
      <3>1. CASE f = fd
        BY <1>2, <1>10, <3>1, ChannelAssumption
      <3>2. CASE f # fd
        <4>1. /\ (conn_of[f] # NoConn) <=> Mapped(f)
              /\ (f \in watched) <=> Mapped(f)
              /\ Mapped(f) => is_online[ChanOf(f)] /\ chan_fd[ChanOf(f)] = f
          BY <1>1 DEF Links, FdsAreChannels
        <4>2. Mapped(f) => ChanOf(f) \in Chans /\ ChanOf(f) # i
          BY Zenon, <1>4, <1>7, MappedFacts
        <4>3. QED
          BY Zenon, <1>11, <1>12, <3>2, <4>1, <4>2
      <3>3. QED
        BY <3>1, <3>2
    <2>2. ASSUME NEW j \in Chans, is_online'[j]
          PROVE  chan_fd'[j] \in Fds /\ epl_map'[chan_fd'[j]] = j + 1
      <3>1. CASE j = i
        BY <1>2, <1>10, <3>1 DEF TypeOK
      <3>2. CASE j # i
        <4>1. is_online[j] /\ chan_fd'[j] = chan_fd[j]
          BY <1>12, <2>2, <3>2
        <4>2. chan_fd[j] \in Fds /\ Mapped(chan_fd[j]) /\ epl_map[chan_fd[j]] = j + 1
          BY Zenon, <1>4, <4>1, OnlineFacts
        <4>3. chan_fd[j] # fd
          BY Zenon, <1>7, <4>2
        <4>4. QED
          BY Zenon, <1>2, <4>1, <4>2, <4>3 DEF TypeOK
      <3>3. QED
        BY <3>1, <3>2
    <2>3. QED
      BY <2>1, <2>2 DEF FdsAreChannels
  <1>14. ChannelsConserved'
    BY <1>1, <1>2, <1>3, <1>6, <1>10, <1>12 DEF Links, ChannelsConserved, TypeOK
  <1>15. ASSUME NEW f \in Fds, f # fd, conn_of[f] # NoConn
         PROVE  conn_of[f] \in Conns /\ conn_of[f] # c
    BY <1>1, <1>15 DEF Links, ConnsAreOwned, TypeOK, MaybeConn
  <1>16. ConnsAreOwned'
    <2>1. ASSUME NEW f \in Fds, conn_of'[f] # NoConn PROVE client'[conn_of'[f]] = "accepted"
      <3>1. client'[c] = "accepted" /\ \A d \in Conns : d # c => client'[d] = client[d]
        BY Zenon, <1>2 DEF TypeOK
      <3>2. CASE f = fd
        BY Zenon, <1>10, <3>1, <3>2
      <3>3. CASE f # fd
        <4>1. conn_of'[f] = conn_of[f] /\ conn_of[f] \in Conns /\ conn_of[f] # c
          BY Zenon, <1>11, <1>15, <2>1, <3>3
        <4>2. client[conn_of[f]] = "accepted"
          BY Zenon, <2>1, <4>1 DEF Links, ConnsAreOwned
        <4>3. QED
          BY Zenon, <3>1, <4>1, <4>2
      <3>4. QED
        BY Zenon, <3>2, <3>3
    <2>2. ASSUME NEW f \in Fds, NEW g \in Fds, conn_of'[f] # NoConn, conn_of'[f] = conn_of'[g]
          PROVE  f = g
      <3>1. CASE f = fd
        BY Zenon, <1>10, <1>11, <1>15, <2>2, <3>1
      <3>2. CASE g = fd
        BY Zenon, <1>10, <1>11, <1>15, <2>2, <3>2
      <3>3. CASE f # fd /\ g # fd
        BY Zenon, <1>11, <2>2, <3>3 DEF Links, ConnsAreOwned
      <3>4. QED
        BY Zenon, <3>1, <3>2, <3>3
    <2>3. QED
      BY <2>1, <2>2 DEF ConnsAreOwned
  <1>17. Links'
    BY <1>3, <1>13, <1>14, <1>16 DEF Links, NothingLeftOpen
  <1>18. Events'
    <2>1. ASSUME NEW f \in Fds, Mapped(f), Ready(f) PROVE Mapped(f)' /\ Ready(f)'
      <3>1. f # fd
        BY <1>7, <2>1
      <3>2. QED
        BY <1>2, <1>11, <2>1, <3>1 DEF Ready, HasError, HasInput
    <2>2. QED
      BY <1>1, <2>1, RestIsFresh
  <1>19. OwnBytes' /\ RoomForRest'
    <2>1. recv_s'[i] = 0 /\ taken'[c] = 0
      BY <1>1, <1>2, <1>5 DEF Bytes, ConnHistory, TypeOK
    <2>2. ASSUME NEW j \in Chans, is_online'[j], j # i
          PROVE  /\ is_online[j] /\ recv_s'[j] = recv_s[j] /\ chan_fd'[j] = chan_fd[j]
                 /\ conn_of'[chan_fd'[j]] = conn_of[chan_fd[j]]
      <3>1. is_online[j] /\ chan_fd'[j] = chan_fd[j] /\ recv_s'[j] = recv_s[j]
        BY <1>12, <2>2
      <3>2. chan_fd[j] \in Fds /\ Mapped(chan_fd[j])
        BY Zenon, <1>4, <3>1, OnlineFacts
      <3>3. chan_fd[j] # fd
        BY Zenon, <1>7, <3>2
      <3>4. conn_of'[chan_fd[j]] = conn_of[chan_fd[j]]
        BY Zenon, <1>11, <3>2, <3>3
      <3>5. QED
        BY Zenon, <3>1, <3>4
    <2>3. UNCHANGED <<buf, taken, announced>>
      BY <1>2
    <2>4. OwnBytes'
      <3> SUFFICES ASSUME NEW j \in Chans, is_online'[j]
                   PROVE  /\ recv_s'[j] = taken'[conn_of'[chan_fd'[j]]]
                          /\ \A b \in 1 .. recv_s'[j] : buf'[j][b] = conn_of'[chan_fd'[j]]
        BY Zenon DEF OwnBytes
      <3>1. CASE j = i
        <4>1. recv_s'[j] = 0 /\ conn_of'[chan_fd'[j]] = c
          BY Zenon, <1>10, <2>1, <3>1
        <4>2. 1 .. recv_s'[j] = {}
          BY <4>1
        <4>3. QED
          BY Zenon, <2>1, <4>1, <4>2
      <3>2. CASE j # i
        <4>1. /\ is_online[j] /\ recv_s'[j] = recv_s[j]
              /\ conn_of'[chan_fd'[j]] = conn_of[chan_fd[j]]
          BY Zenon, <2>2, <3>2
        <4>2. /\ recv_s[j] = taken[conn_of[chan_fd[j]]]
              /\ \A b \in 1 .. recv_s[j] : buf[j][b] = conn_of[chan_fd[j]]
          BY Zenon, <4>1 DEF Bytes, OwnBytes
        <4>3. buf' = buf /\ taken' = taken
          BY <2>3
        <4>4. recv_s'[j] = taken'[conn_of'[chan_fd'[j]]]
          BY Zenon, <4>1, <4>2, <4>3
        <4>5. ASSUME NEW b \in 1 .. recv_s'[j] PROVE buf'[j][b] = conn_of'[chan_fd'[j]]
          <5>1. b \in 1 .. recv_s[j]
            BY Zenon, <4>1, <4>5
          <5>2. buf[j][b] = conn_of[chan_fd[j]]
            BY Zenon, <4>2, <5>1
          <5>3. QED
            BY Zenon, <4>1, <4>3, <5>2
        <4>6. QED
          BY Zenon, <4>4, <4>5
      <3>3. QED
        BY <3>1, <3>2
    <2>5. RoomForRest'
      <3> SUFFICES ASSUME NEW j \in Chans, is_online'[j]
                   PROVE  /\ recv_s'[j] < RawSize
                          /\ recv_s'[j] >= Header =>
                               /\ recv_s'[j] < Header + LengthIn(buf[j])
                               /\ Header + LengthIn(buf[j]) <= RawSize
        BY Zenon, <2>3 DEF RoomForRest, LengthIn
      <3>1. CASE j = i
        <4>1. 0 < RawSize /\ ~(0 >= Header)
          BY ChannelAssumption DEF RawSize, Header
        <4>2. recv_s'[j] = 0
          BY Zenon, <2>1, <3>1
        <4>3. QED
          BY Zenon, <4>1, <4>2
      <3>2. CASE j # i
        BY Zenon, <2>2, <3>2 DEF Bytes, RoomForRest
      <3>3. QED
        BY <3>1, <3>2
    <2>6. QED
      BY <2>4, <2>5
  <1>20. WholePackets' /\ ConnHistory'
    BY <1>1, <1>2 DEF Bytes, WholePackets, ConnHistory, TypeOK
  <1>21. QED
    BY <1>9, <1>17, <1>18, <1>19, <1>20 DEF Bytes

-------------------------------------------------------------------------------
(* handle_client_event2 and 3.                                             *)

\* out_close gives the channel back, and forgets the descriptor everywhere.
LEMMA CloseKeepsLinks ==
  ASSUME TypeOK, Links, mpc # "closed", mpc' # "closed", stop_el => stop_el',
         NEW fd \in Fds, Mapped(fd), close_chan(ChanOf(fd), fd), UNCHANGED lost
  PROVE  /\ Links'
         /\ chan_stk' \in Seq(Chans) /\ epl_map' \in [Fds -> 0 .. ThreadC]
         /\ watched' \subseteq Fds /\ shut' \subseteq Fds
         /\ chan_fd' \in [Chans -> Fds \cup {NoFd}] /\ recv_s' \in [Chans -> 0 .. RawSize]
         /\ is_online' \in [Chans -> BOOLEAN] /\ expired' \in [Chans -> BOOLEAN]
         /\ conn_of' \in [Fds -> MaybeConn]
         /\ client' \in [Conns -> {"unmade", "backlog", "accepted", "gone"}]
  <1> DEFINE i == ChanOf(fd)
             c == conn_of[fd]
  <1>1. /\ i \in Chans /\ is_online[i] /\ chan_fd[i] = fd
        /\ c \in Conns /\ client[c] = "accepted"
        /\ i \notin Stacked /\ Len(chan_stk) < ThreadC /\ Distinct(chan_stk)
    BY MappedFacts
  <1>2. /\ chan_stk' = <<i>> \o chan_stk
        /\ epl_map' = [epl_map EXCEPT ![fd] = 0]
        /\ watched' = watched \ {fd} /\ shut' = shut \ {fd}
        /\ chan_fd' = [chan_fd EXCEPT ![i] = NoFd]
        /\ expired' = [expired EXCEPT ![i] = FALSE]
        /\ recv_s' = [recv_s EXCEPT ![i] = 0]
        /\ is_online' = [is_online EXCEPT ![i] = FALSE]
        /\ conn_of' = [conn_of EXCEPT ![fd] = NoConn]
        /\ client' = [client EXCEPT ![c] = "gone"]
    BY <1>1 DEF close_chan, PushChan, Unmap, MapToNop
  <1>3. \A j \in Chans : j # i /\ is_online[j] => chan_fd[j] \in Fds /\ chan_fd[j] # fd
    BY OthersApart
  <1>4. \A f \in Fds : Mapped(f) /\ f # fd => ChanOf(f) # i /\ ChanOf(f) \in Chans
    <2> SUFFICES ASSUME NEW f \in Fds, Mapped(f), f # fd
                 PROVE  ChanOf(f) # i /\ ChanOf(f) \in Chans
      OBVIOUS
    <2>1. ChanOf(f) \in Chans /\ chan_fd[ChanOf(f)] = f
      BY MappedFacts
    <2>2. QED
      BY <1>1, <2>1
  <1>5. chan_stk \in Seq(Chans)
    BY DEF TypeOK
  <1>6. chan_stk' \in Seq(Chans) /\ Distinct(chan_stk') /\ Stacked' = Stacked \cup {i}
    <2>1. i \in Chans /\ i \notin Elements(chan_stk) /\ Distinct(chan_stk)
      BY Zenon, <1>1 DEF Stacked
    <2> HIDE DEF i
    <2>2. /\ <<i>> \o chan_stk \in Seq(Chans) /\ Distinct(<<i>> \o chan_stk)
          /\ Elements(<<i>> \o chan_stk) = Elements(chan_stk) \cup {i}
      BY <1>5, <2>1, PushDistinct
    <2>3. QED
      BY Zenon, <1>2, <2>2 DEF Stacked
  <1> HIDE DEF i, c
  <1>7. /\ watched' \subseteq Fds /\ shut' \subseteq Fds
        /\ chan_fd' \in [Chans -> Fds \cup {NoFd}]
        /\ conn_of' \in [Fds -> MaybeConn]
        /\ client' \in [Conns -> {"unmade", "backlog", "accepted", "gone"}]
    BY <1>1, <1>2 DEF TypeOK, MaybeConn
  <1>8. is_online' \in [Chans -> BOOLEAN] /\ expired' \in [Chans -> BOOLEAN]
    BY Zenon, <1>1, <1>2 DEF TypeOK
  <1>9. epl_map' \in [Fds -> 0 .. ThreadC] /\ recv_s' \in [Chans -> 0 .. RawSize]
    <2>1. 0 \in 0 .. RawSize /\ 0 \in 0 .. ThreadC
      BY ChannelAssumption DEF RawSize, Header
    <2>2. QED
      BY Zenon, <1>2, <2>1 DEF TypeOK
  <1>10. /\ ~Mapped(fd)' /\ conn_of'[fd] = NoConn /\ fd \notin watched' /\ ~is_online'[i]
         /\ \A f \in Fds : f # fd => epl_map'[f] = epl_map[f] /\ conn_of'[f] = conn_of[f]
         /\ \A j \in Chans : j # i => is_online'[j] = is_online[j] /\ chan_fd'[j] = chan_fd[j]
    BY <1>1, <1>2 DEF TypeOK, Mapped, MapToNop
  <1>11. FdsAreChannels'
    <2>1. ASSUME NEW f \in Fds
          PROVE  /\ (conn_of'[f] # NoConn) <=> Mapped(f)'
                 /\ (f \in watched') <=> Mapped(f)'
                 /\ Mapped(f)' => is_online'[ChanOf(f)'] /\ chan_fd'[ChanOf(f)'] = f
      <3>1. CASE f = fd
        BY <1>10, <3>1
      <3>2. CASE f # fd
        <4>1. Mapped(f)' <=> Mapped(f)
          BY <1>10, <3>2 DEF Mapped
        <4>2. ChanOf(f)' = ChanOf(f)
          BY <1>10, <3>2 DEF ChanOf
        <4>3. /\ (conn_of[f] # NoConn) <=> Mapped(f)
              /\ (f \in watched) <=> Mapped(f)
              /\ Mapped(f) => is_online[ChanOf(f)] /\ chan_fd[ChanOf(f)] = f
          BY DEF Links, FdsAreChannels
        <4>4. QED
          BY <1>2, <1>4, <1>10, <3>2, <4>1, <4>2, <4>3
      <3>3. QED
        BY <3>1, <3>2
    <2>2. ASSUME NEW j \in Chans, is_online'[j]
          PROVE  chan_fd'[j] \in Fds /\ epl_map'[chan_fd'[j]] = j + 1
      <3>1. j # i /\ is_online[j] /\ chan_fd'[j] = chan_fd[j]
        BY <1>10, <2>2
      <3>2. chan_fd[j] \in Fds /\ epl_map[chan_fd[j]] = j + 1
        BY <3>1 DEF Links, FdsAreChannels
      <3>3. QED
        BY <1>3, <1>10, <3>1, <3>2
    <2>3. QED
      BY <2>1, <2>2 DEF FdsAreChannels
  <1>12. ChannelsConserved'
    BY <1>6, <1>10 DEF Links, ChannelsConserved
  <1>13. ConnsAreOwned'
    <2>1. ASSUME NEW f \in Fds, conn_of'[f] # NoConn
          PROVE  /\ f # fd /\ conn_of'[f] = conn_of[f] /\ conn_of[f] \in Conns
                 /\ conn_of[f] # c
      <3>1. f # fd /\ conn_of'[f] = conn_of[f] /\ conn_of[f] # NoConn
        BY Zenon, <1>10, <2>1
      <3>2. conn_of[f] \in Conns
        BY Zenon, <3>1 DEF TypeOK, MaybeConn
      <3>3. conn_of[f] # c
        BY Zenon, <3>1 DEF Links, ConnsAreOwned, c
      <3>4. QED
        BY Zenon, <3>1, <3>2, <3>3
    <2>2. QED
      BY <1>2, <2>1 DEF TypeOK, Links, ConnsAreOwned
  <1>14. QED
    BY <1>6, <1>7, <1>8, <1>9, <1>11, <1>12, <1>13 DEF Links, NothingLeftOpen

\* The rest of a batch does not depend on the connection an event is about.
LEMMA OthersStayReady ==
  ASSUME TypeOK, Links, mpc # "closed", NEW fd \in Fds, Mapped(fd),
         NEW f \in Fds, f # fd, Mapped(f), Ready(f),
         epl_map'[f] = epl_map[f], conn_of'[f] = conn_of[f], f \in shut => f \in shut',
         \A d \in Conns : d # conn_of[fd] => taken'[d] = taken[d],
         UNCHANGED <<sent, ended>>
  PROVE  Mapped(f)' /\ Ready(f)'
  <1>1. conn_of[f] \in Conns /\ conn_of[f] # conn_of[fd]
    BY DEF Ready, TypeOK, MaybeConn, Links, ConnsAreOwned
  <1>2. Mapped(f)'
    BY DEF Mapped
  <1>3. Ready(f)'
    BY <1>1 DEF Ready, HasError, HasInput
  <1>4. QED
    BY <1>2, <1>3

\* When a channel is closed, the bytes of the others stay theirs.
LEMMA CloseKeepsBytes ==
  ASSUME TypeOK, Links, OwnBytes, RoomForRest, mpc # "closed",
         NEW fd \in Fds, Mapped(fd), close_chan(ChanOf(fd), fd),
         \A j \in Chans : j # ChanOf(fd) => buf'[j] = buf[j],
         \A d \in Conns : d # conn_of[fd] => taken'[d] = taken[d],
         UNCHANGED announced
  PROVE  OwnBytes' /\ RoomForRest'
  <1> DEFINE i == ChanOf(fd)
  <1>1. i \in Chans
    BY MappedFacts
  <1>2. ASSUME NEW j \in Chans, is_online'[j]
        PROVE  /\ is_online[j] /\ recv_s'[j] = recv_s[j] /\ buf'[j] = buf[j]
               /\ conn_of'[chan_fd'[j]] = conn_of[chan_fd[j]]
               /\ taken'[conn_of[chan_fd[j]]] = taken[conn_of[chan_fd[j]]]
    <2>1. j # i /\ is_online[j] /\ recv_s'[j] = recv_s[j] /\ chan_fd'[j] = chan_fd[j]
      BY <1>1, <1>2 DEF close_chan, TypeOK
    <2>2. /\ chan_fd[j] \in Fds /\ chan_fd[j] # fd
          /\ conn_of[chan_fd[j]] \in Conns /\ conn_of[chan_fd[j]] # conn_of[fd]
      BY <2>1, OthersApart
    <2>3. conn_of'[chan_fd[j]] = conn_of[chan_fd[j]]
      BY <2>2 DEF close_chan, TypeOK
    <2>4. QED
      BY <2>1, <2>2, <2>3
  <1>3. OwnBytes'
    <2> SUFFICES ASSUME NEW j \in Chans, is_online'[j]
                 PROVE  /\ recv_s'[j] = taken'[conn_of'[chan_fd'[j]]]
                        /\ \A b \in 1 .. recv_s'[j] : buf'[j][b] = conn_of'[chan_fd'[j]]
      BY Zenon DEF OwnBytes
    <2>1. /\ recv_s[j] = taken[conn_of[chan_fd[j]]]
          /\ \A b \in 1 .. recv_s[j] : buf[j][b] = conn_of[chan_fd[j]]
      BY Zenon, <1>2 DEF OwnBytes
    <2>2. /\ recv_s'[j] = recv_s[j] /\ buf'[j] = buf[j]
          /\ conn_of'[chan_fd'[j]] = conn_of[chan_fd[j]]
          /\ taken'[conn_of[chan_fd[j]]] = taken[conn_of[chan_fd[j]]]
      BY Zenon, <1>2
    <2>3. recv_s'[j] = taken'[conn_of'[chan_fd'[j]]]
      BY Zenon, <2>1, <2>2
    <2>4. ASSUME NEW b \in 1 .. recv_s'[j] PROVE buf'[j][b] = conn_of'[chan_fd'[j]]
      <3>1. b \in 1 .. recv_s[j]
        BY Zenon, <2>2
      <3>2. buf[j][b] = conn_of[chan_fd[j]]
        BY Zenon, <2>1, <3>1
      <3>3. QED
        BY Zenon, <2>2, <3>2
    <2>5. QED
      BY Zenon, <2>3, <2>4
  <1>4. ASSUME NEW j \in Chans, is_online'[j] PROVE LengthIn(buf[j])' = LengthIn(buf[j])
    BY Zenon, <1>2, <1>4 DEF LengthIn
  <1>5. RoomForRest'
    BY Zenon, <1>2, <1>4 DEF RoomForRest
  <1>6. QED
    BY <1>3, <1>5

\* A connection that is closed without a packet.
LEMMA GoneKeepsChan ==
  ASSUME ChanInv, NEW fd \in Fds, handle_client_gone(fd)
  PROVE  ChanInv'
  <1> USE DEF ChanInv
  <1>1. /\ mpc = "batch" /\ Head(batch) = fd /\ Mapped(fd)
        /\ close_chan(ChanOf(fd), fd) /\ handle_events("ok") /\ BackToLoop
        /\ UNCHANGED <<buf, announced, sent, taken, ended, histVars>>
    BY DEF handle_client_gone, Handling
  <1>2. /\ batch' \in Seq(Fds \cup {TcpFd}) /\ mpc' \in {"top", "batch"}
        /\ stop_el' \in BOOLEAN /\ (stop_el => stop_el')
    BY Zenon, <1>1, NextEvent
  <1>3. mpc # "closed" /\ mpc' # "closed" /\ mpc' \in {"top", "wait", "batch", "out", "closed"}
    BY <1>1, <1>2
  <1>4. /\ Links'
        /\ chan_stk' \in Seq(Chans) /\ epl_map' \in [Fds -> 0 .. ThreadC]
        /\ watched' \subseteq Fds /\ shut' \subseteq Fds
        /\ chan_fd' \in [Chans -> Fds \cup {NoFd}] /\ recv_s' \in [Chans -> 0 .. RawSize]
        /\ is_online' \in [Chans -> BOOLEAN] /\ expired' \in [Chans -> BOOLEAN]
        /\ conn_of' \in [Fds -> MaybeConn]
        /\ client' \in [Conns -> {"unmade", "backlog", "accepted", "gone"}]
    BY Zenon, <1>1, <1>2, <1>3, CloseKeepsLinks
  <1>5. TypeOK'
    BY Zenon, <1>1, <1>2, <1>3, <1>4 DEF TypeOK
  <1>6. Events'
    <2>1. ASSUME NEW f \in Fds, f # Head(batch), Mapped(f), Ready(f) PROVE Mapped(f)' /\ Ready(f)'
      <3>1. /\ epl_map'[f] = epl_map[f] /\ conn_of'[f] = conn_of[f]
            /\ f \in shut => f \in shut'
        BY <1>1, <2>1 DEF close_chan, Unmap, TypeOK
      <3>2. QED
        BY <1>1, <1>3, <2>1, <3>1, OthersStayReady
    <2>2. QED
      BY <1>1, <2>1, RestIsFresh
  <1>7. OwnBytes' /\ RoomForRest'
    BY <1>1, <1>3, CloseKeepsBytes DEF Bytes
  <1>8. WholePackets' /\ ConnHistory'
    <2>1. client' = [client EXCEPT ![conn_of[fd]] = "gone"]
      BY <1>1 DEF close_chan
    <2>2. QED
      BY <1>1, <2>1 DEF Bytes, WholePackets, ConnHistory, TypeOK
  <1>9. QED
    BY <1>4, <1>5, <1>6, <1>7, <1>8 DEF Bytes

\* A channel that waits for more has room for the rest of its packet.
LEMMA RestFits ==
  ASSUME NEW r \in Nat, NEW a \in Nat, r < Header \/ (r - Header < a /\ a <= BufSize)
  PROVE  /\ r < RawSize
         /\ r >= Header => r < Header + a /\ Header + a <= RawSize
  BY ChannelAssumption DEF RawSize, Header

\* recv appends: the bytes received so far, and no others, are the connection's.
LEMMA ReceivedFacts ==
  ASSUME TypeOK, Links, OwnBytes, mpc # "closed", NEW fd \in Fds, Mapped(fd),
         NEW n \in 1 .. RawSize, recv_s[ChanOf(fd)] + n <= RawSize
  PROVE  /\ Received(ChanOf(fd), n) \in [1 .. RawSize -> MaybeConn]
         /\ recv_s[ChanOf(fd)] \in Nat /\ n \in Nat /\ n > 0 /\ RawSize \in Nat
         /\ recv_s[ChanOf(fd)] = taken[conn_of[fd]]
         /\ \A b \in 1 .. recv_s[ChanOf(fd)] + n : Received(ChanOf(fd), n)[b] = conn_of[fd]
         /\ LengthIn(Received(ChanOf(fd), n)) = announced[conn_of[fd]]
         /\ announced[conn_of[fd]] \in Nat
  <1> DEFINE i == ChanOf(fd)
             c == conn_of[fd]
             R == Received(i, n)
  <1>1. i \in Chans /\ is_online[i] /\ chan_fd[i] = fd /\ c \in Conns
    BY MappedFacts
  <1>2. RawSize \in Nat /\ recv_s[i] \in Nat /\ n \in Nat /\ n > 0
    BY <1>1, ChannelAssumption DEF TypeOK, RawSize, Header
  <1>3. recv_s[i] = taken[c] /\ \A b \in 1 .. recv_s[i] : buf[i][b] = c
    <2>1. /\ recv_s[i] = taken[conn_of[chan_fd[i]]]
          /\ \A b \in 1 .. recv_s[i] : buf[i][b] = conn_of[chan_fd[i]]
      BY Zenon, <1>1 DEF OwnBytes
    <2>2. conn_of[chan_fd[i]] = c
      BY <1>1
    <2>3. recv_s[i] = taken[c]
      BY Zenon, <2>1, <2>2
    <2>4. ASSUME NEW b \in 1 .. recv_s[i] PROVE buf[i][b] = c
      <3>1. buf[i][b] = conn_of[chan_fd[i]]
        BY Zenon, <2>1
      <3>2. QED
        BY Zenon, <2>2, <3>1
    <2>5. QED
      BY Zenon, <2>3, <2>4
  <1>4. R = [b \in 1 .. RawSize |-> IF b \in recv_s[i] + 1 .. recv_s[i] + n
                                    THEN c ELSE buf[i][b]]
    BY <1>1 DEF Received
  <1>5. R \in [1 .. RawSize -> MaybeConn]
    <2>1. buf[i] \in [1 .. RawSize -> MaybeConn] /\ c \in MaybeConn
      BY <1>1 DEF TypeOK, MaybeConn
    <2>2. QED
      BY <1>4, <2>1
  <1>6. \A b \in 1 .. recv_s[i] + n : R[b] = c
    <2> SUFFICES ASSUME NEW b \in 1 .. recv_s[i] + n PROVE R[b] = c
      OBVIOUS
    <2>1. b \in 1 .. RawSize /\ (b \in recv_s[i] + 1 .. recv_s[i] + n \/ b \in 1 .. recv_s[i])
      BY <1>2
    <2>2. QED
      BY Zenon, <1>3, <1>4, <2>1
  <1>7. R[1] = c
    BY <1>2, <1>6
  <1>8. announced[c] \in Nat
    BY <1>1, ChannelAssumption DEF TypeOK
  <1>9. LengthIn(R) = announced[c]
    BY <1>1, <1>7, ChannelAssumption DEF LengthIn
  <1>10. QED
    BY <1>2, <1>3, <1>5, <1>6, <1>8, <1>9

\* recv, and what handle_client_event3 makes of it.
LEMMA RecvKeepsChan ==
  ASSUME ChanInv, NEW fd \in Fds, NEW n \in 1 .. RawSize, handle_client_recv(fd, n)
  PROVE  ChanInv'
  <1> USE DEF ChanInv
  <1> DEFINE i == ChanOf(fd)
             c == conn_of[fd]
             r == recv_s[i] + n
             verdict == Verdict(r, Received(i, n))
  <1>1. /\ mpc = "batch" /\ Head(batch) = fd /\ Mapped(fd) /\ handle_events("ok") /\ BackToLoop
        /\ r <= RawSize
        /\ taken' = [taken EXCEPT ![c] = @ + n]
        /\ buf' = [buf EXCEPT ![i] = Received(i, n)]
        /\ submitted' = IF verdict = "submit" THEN [submitted EXCEPT ![c] = @ + 1] ELSE submitted
        /\ UNCHANGED <<announced, sent, ended, lost>>
    BY DEF handle_client_recv, Handling
  <1>2. \/ /\ verdict = "wait" /\ recv_s' = [recv_s EXCEPT ![i] = @ + n]
           /\ UNCHANGED <<chan_stk, epl_map, is_online, chan_fd, expired, kernelVars, client>>
        \/ verdict # "wait" /\ close_chan(i, fd)
    BY DEF handle_client_recv
  <1>3. /\ batch' \in Seq(Fds \cup {TcpFd}) /\ mpc' \in {"top", "batch"}
        /\ stop_el' \in BOOLEAN /\ (stop_el => stop_el')
    BY Zenon, <1>1, NextEvent
  <1>4. mpc # "closed" /\ mpc' # "closed" /\ mpc' \in {"top", "wait", "batch", "out", "closed"}
    BY <1>1, <1>3
  <1>5. /\ i \in Chans /\ is_online[i] /\ chan_fd[i] = fd
        /\ c \in Conns /\ client[c] = "accepted"
    BY <1>1, <1>4, MappedFacts
  <1>6. /\ Received(i, n) \in [1 .. RawSize -> MaybeConn]
        /\ recv_s[i] \in Nat /\ n \in Nat /\ n > 0 /\ RawSize \in Nat
        /\ recv_s[i] = taken[c]
        /\ \A b \in 1 .. r : Received(i, n)[b] = c
        /\ LengthIn(Received(i, n)) = announced[c] /\ announced[c] \in Nat
    BY <1>1, <1>4, ReceivedFacts DEF Bytes
  <1>6a. r \in Nat
    <2>1. recv_s[i] \in Nat /\ n \in Nat
      BY Zenon, <1>6
    <2> HIDE DEF i
    <2>2. QED
      BY <2>1
  <1>7. /\ verdict = "wait" => r < Header \/ (r - Header < announced[c] /\ announced[c] <= BufSize)
        /\ verdict = "submit" => r = Header + announced[c] /\ announced[c] <= BufSize
    <2>1. verdict = IF r < Header THEN "wait"
                    ELSE IF announced[c] > BufSize THEN "close"
                    ELSE IF r - Header < announced[c] THEN "wait"
                    ELSE IF r - Header > announced[c] THEN "close" ELSE "submit"
      BY Zenon, <1>6 DEF Verdict, TooBig
    <2>2. announced[c] \in Nat /\ BufSize \in Nat
      BY Zenon, <1>6, ChannelAssumption
    <2> HIDE DEF r, c, verdict
    <2>3. QED
      BY <2>1, <2>2, <1>6a DEF Header
  <1> HIDE DEF i, c, verdict
  <1>8. /\ taken' \in [Conns -> Nat] /\ taken'[c] = r
        /\ \A d \in Conns : d # c => taken'[d] = taken[d]
    <2>1. taken \in [Conns -> Nat]
      BY Zenon DEF TypeOK
    <2>2. taken' = [taken EXCEPT ![c] = r]
      BY Zenon, <1>1, <1>6
    <2>3. QED
      BY Zenon, <1>5, <1>6a, <2>1, <2>2
  <1>9. /\ buf' \in [Chans -> [1 .. RawSize -> MaybeConn]] /\ buf'[i] = Received(i, n)
        /\ \A j \in Chans : j # i => buf'[j] = buf[j]
    BY Zenon, <1>1, <1>5, <1>6 DEF TypeOK
  <1>10. /\ submitted' \in [Conns -> Nat]
         /\ \A d \in Conns : d # c => submitted'[d] = submitted[d]
         /\ verdict # "submit" => submitted'[c] = submitted[c]
         /\ verdict = "submit" => submitted'[c] = submitted[c] + 1
    <2>1. submitted \in [Conns -> Nat]
      BY Zenon DEF TypeOK
    <2>2. submitted[c] + 1 \in Nat
      <3>1. submitted[c] \in Nat
        BY Zenon, <1>5, <2>1
      <3>2. QED
        BY <3>1
    <2>3. CASE verdict = "submit"
      <3>1. submitted' = [submitted EXCEPT ![c] = submitted[c] + 1]
        BY Zenon, <1>1, <2>3
      <3>2. QED
        BY Zenon, <1>5, <2>1, <2>2, <2>3, <3>1
    <2>4. CASE verdict # "submit"
      <3>1. submitted' = submitted
        BY Zenon, <1>1, <2>4
      <3>2. QED
        BY Zenon, <2>1, <2>4, <3>1
    <2>5. QED
      BY Zenon, <2>3, <2>4
  <1>11. submitted[c] = 0
    BY <1>5 DEF Bytes, ConnHistory
  <1>12. ASSUME NEW f \in Fds, f # Head(batch), Mapped(f), Ready(f),
                epl_map'[f] = epl_map[f], conn_of'[f] = conn_of[f], f \in shut => f \in shut'
         PROVE  Mapped(f)' /\ Ready(f)'
    BY <1>1, <1>4, <1>8, <1>12, OthersStayReady DEF c
  <1>13. WholePackets'
    <2> SUFFICES ASSUME NEW d \in Conns, submitted'[d] > 0
                 PROVE  /\ submitted'[d] = 1 /\ taken'[d] = Header + announced'[d]
                        /\ announced'[d] <= BufSize
      BY DEF WholePackets
    <2>1. CASE d = c
      <3>1. verdict = "submit"
        BY <1>10, <1>11, <2>1
      <3>2. QED
        BY <1>1, <1>7, <1>8, <1>10, <1>11, <2>1, <3>1
    <2>2. CASE d # c
      BY <1>1, <1>8, <1>10, <2>2 DEF Bytes, WholePackets
    <2>3. QED
      BY <2>1, <2>2
  <1>14. CASE verdict = "wait"
    <2>1. /\ recv_s' = [recv_s EXCEPT ![i] = @ + n]
          /\ UNCHANGED <<chan_stk, epl_map, is_online, chan_fd, expired, kernelVars, client>>
      BY <1>2, <1>14
    <2>2. /\ recv_s' \in [Chans -> 0 .. RawSize] /\ recv_s'[i] = r
          /\ \A j \in Chans : j # i => recv_s'[j] = recv_s[j]
      <3>1. r \in 0 .. RawSize
        <4>1. r <= RawSize /\ recv_s[i] \in Nat /\ n \in Nat /\ RawSize \in Nat
          BY Zenon, <1>1, <1>6
        <4>2. QED
          BY <4>1
      <3>2. QED
        BY <1>5, <2>1, <3>1 DEF TypeOK
    <2>3. TypeOK'
      BY Zenon, <1>1, <1>3, <1>4, <1>8, <1>9, <1>10, <2>1, <2>2 DEF TypeOK
    <2>4. Links'
      <3>1. FdsAreChannels' /\ ConnsAreOwned' /\ NothingLeftOpen'
        BY <1>4, <2>1 DEF Links, FdsAreChannels, ConnsAreOwned, NothingLeftOpen, Mapped, ChanOf
      <3>2. ChannelsConserved'
        BY <1>1, <1>3, <1>4, <2>1 DEF Links, ChannelsConserved, Stacked
      <3>3. QED
        BY <3>1, <3>2 DEF Links
    <2>5. Events'
      BY <1>1, <1>12, <2>1, RestIsFresh
    <2>6. ASSUME NEW j \in Chans, is_online[j], j # i
          PROVE  conn_of[chan_fd[j]] \in Conns /\ conn_of[chan_fd[j]] # c
      BY <1>1, <1>4, <2>6, OthersApart DEF i, c
    <2>7. OwnBytes'
      <3> SUFFICES ASSUME NEW j \in Chans, is_online[j]
                   PROVE  /\ recv_s'[j] = taken'[conn_of[chan_fd[j]]]
                          /\ \A b \in 1 .. recv_s'[j] : buf'[j][b] = conn_of[chan_fd[j]]
        BY <2>1 DEF OwnBytes
      <3>1. CASE j = i
        <4>1. recv_s'[j] = r /\ taken'[c] = r /\ buf'[j] = Received(i, n)
          BY Zenon, <1>8, <1>9, <2>2, <3>1
        <4>2. conn_of[chan_fd[j]] = c
          BY <1>5, <3>1 DEF c
        <4>3. \A b \in 1 .. r : Received(i, n)[b] = c
          BY Zenon, <1>6
        <4> HIDE DEF r
        <4>4. recv_s'[j] = taken'[conn_of[chan_fd[j]]]
          BY Zenon, <4>1, <4>2
        <4>5. ASSUME NEW b \in 1 .. recv_s'[j] PROVE buf'[j][b] = conn_of[chan_fd[j]]
          <5>1. b \in 1 .. r
            BY Zenon, <4>1
          <5>2. QED
            BY Zenon, <4>1, <4>2, <4>3, <5>1
        <4>6. QED
          BY Zenon, <4>4, <4>5
      <3>2. CASE j # i
        <4>1. /\ recv_s[j] = taken[conn_of[chan_fd[j]]]
              /\ \A b \in 1 .. recv_s[j] : buf[j][b] = conn_of[chan_fd[j]]
          BY Zenon DEF Bytes, OwnBytes
        <4>2. /\ recv_s'[j] = recv_s[j] /\ buf'[j] = buf[j]
              /\ taken'[conn_of[chan_fd[j]]] = taken[conn_of[chan_fd[j]]]
          BY Zenon, <1>8, <1>9, <2>2, <2>6, <3>2
        <4>3. recv_s'[j] = taken'[conn_of[chan_fd[j]]]
          BY Zenon, <4>1, <4>2
        <4>4. ASSUME NEW b \in 1 .. recv_s'[j] PROVE buf'[j][b] = conn_of[chan_fd[j]]
          <5>1. b \in 1 .. recv_s[j]
            BY Zenon, <4>2
          <5>2. QED
            BY Zenon, <4>1, <4>2, <5>1
        <4>5. QED
          BY Zenon, <4>3, <4>4
      <3>3. QED
        BY <3>1, <3>2
    <2>8. RoomForRest'
      <3> SUFFICES ASSUME NEW j \in Chans, is_online[j]
                   PROVE  /\ recv_s'[j] < RawSize
                          /\ recv_s'[j] >= Header =>
                               /\ recv_s'[j] < Header + LengthIn(buf'[j])
                               /\ Header + LengthIn(buf'[j]) <= RawSize
        <4>1. UNCHANGED <<is_online, announced>>
          BY <1>1, <2>1
        <4>2. QED
          BY Zenon, <4>1 DEF RoomForRest, LengthIn
      <3>1. CASE j = i
        <4>1. recv_s'[j] = r /\ LengthIn(buf'[j]) = announced[c]
          BY Zenon, <1>6, <1>9, <2>2, <3>1
        <4>2. r \in Nat /\ announced[c] \in Nat
          BY Zenon, <1>6, <1>6a
        <4>3. r < Header \/ (r - Header < announced[c] /\ announced[c] <= BufSize)
          BY Zenon, <1>7, <1>14
        <4> HIDE DEF r
        <4>4. /\ r < RawSize
              /\ r >= Header => r < Header + announced[c] /\ Header + announced[c] <= RawSize
          BY Zenon, <4>2, <4>3, RestFits
        <4>5. QED
          BY Zenon, <4>1, <4>4
      <3>2. CASE j # i
        BY <1>9, <2>2, <3>2 DEF Bytes, RoomForRest
      <3>3. QED
        BY <3>1, <3>2
    <2>9. ConnHistory'
      BY <1>5, <1>8, <1>10, <1>11, <1>14, <2>1 DEF Bytes, ConnHistory
    <2>10. QED
      BY <1>13, <2>3, <2>4, <2>5, <2>7, <2>8, <2>9 DEF Bytes
  <1>15. CASE verdict # "wait"
    <2>1. close_chan(ChanOf(fd), fd)
      BY <1>2, <1>15 DEF i
    <2>2. /\ Links'
          /\ chan_stk' \in Seq(Chans) /\ epl_map' \in [Fds -> 0 .. ThreadC]
          /\ watched' \subseteq Fds /\ shut' \subseteq Fds
          /\ chan_fd' \in [Chans -> Fds \cup {NoFd}] /\ recv_s' \in [Chans -> 0 .. RawSize]
          /\ is_online' \in [Chans -> BOOLEAN] /\ expired' \in [Chans -> BOOLEAN]
          /\ conn_of' \in [Fds -> MaybeConn]
          /\ client' \in [Conns -> {"unmade", "backlog", "accepted", "gone"}]
      BY Zenon, <1>1, <1>3, <1>4, <2>1, CloseKeepsLinks
    <2>3. TypeOK'
      BY Zenon, <1>1, <1>3, <1>4, <1>8, <1>9, <1>10, <2>2 DEF TypeOK
    <2>4. Events'
      <3>1. ASSUME NEW f \in Fds, f # Head(batch)
            PROVE  /\ epl_map'[f] = epl_map[f] /\ conn_of'[f] = conn_of[f]
                   /\ f \in shut => f \in shut'
        BY <1>1, <2>1, <3>1 DEF close_chan, Unmap, TypeOK
      <3>2. QED
        BY <1>1, <1>12, <3>1, RestIsFresh
    <2>5. OwnBytes' /\ RoomForRest'
      BY <1>1, <1>4, <1>8, <1>9, <2>1, CloseKeepsBytes DEF Bytes, i, c
    <2>6. ConnHistory'
      <3>1. client' = [client EXCEPT ![c] = "gone"]
        BY <2>1 DEF close_chan, c
      <3>2. QED
        BY <1>5, <1>8, <1>10, <3>1 DEF Bytes, ConnHistory, TypeOK
    <2>7. QED
      BY <1>13, <2>2, <2>3, <2>4, <2>5, <2>6 DEF Bytes
  <1>16. QED
    BY <1>14, <1>15

-------------------------------------------------------------------------------
\* Every step keeps the invariant.
LEMMA StepKeepsChan == ChanInv /\ [Next]_vars => ChanInv'
  <1> SUFFICES ASSUME ChanInv, [Next]_vars PROVE ChanInv'
    OBVIOUS
  <1>1. CASE run_event_loop_top \/ epoll_wait_nothing \/ handle_interrupt
             \/ \E i \in Chans : time_passes(i)
    BY Zenon, <1>1, QuietKeepsChan
  <1>2. CASE epoll_wait
    BY Zenon, <1>2, WaitKeepsChan
  <1>3. CASE AcceptStep
    BY Zenon, <1>3, RefuseKeepsChan, AcceptKeepsChan DEF AcceptStep
  <1>4. CASE ChannelStep
    BY Zenon, <1>4, GoneKeepsChan, RecvKeepsChan DEF ChannelStep
  <1>5. CASE close_fds
    BY Zenon, <1>5, CloseFdsKeepsChan
  <1>6. CASE ClientStep
    BY Zenon, <1>6, ClientKeepsChan
  <1>7. CASE Terminated \/ UNCHANGED vars
    <2>1. UNCHANGED vars
      BY <1>7 DEF Terminated
    <2>2. TypeOK'
      BY Zenon, <2>1 DEF ChanInv, TypeOK
    <2>3. Links'
      BY <2>1 DEF ChanInv, Links, FdsAreChannels, ChannelsConserved, ConnsAreOwned,
         NothingLeftOpen, Mapped, ChanOf, Stacked
    <2>4. Events'
      BY <2>1 DEF ChanInv, Events, BatchIsFresh, BatchIsThere, Mapped, Ready, HasError, HasInput
    <2>5. Bytes'
      BY <2>1 DEF ChanInv, Bytes, OwnBytes, RoomForRest, WholePackets, ConnHistory, LengthIn
    <2>6. QED
      BY <2>2, <2>3, <2>4, <2>5 DEF ChanInv
  <1>8. QED
    BY Zenon, <1>1, <1>2, <1>3, <1>4, <1>5, <1>6, <1>7 DEF Next, LoopStep

\* The invariant holds in every state of the event loop, whatever clients do.
THEOREM ChannelSafety == Spec => []ChanInv
  BY InitChan, StepKeepsChan, PTL DEF Spec

\* The variables of the event loop always have their types.
THEOREM ChannelTypes == Spec => []TypeOK
  <1>1. ChanInv => TypeOK
    BY DEF ChanInv
  <1>2. QED
    BY <1>1, ChannelSafety, PTL

\* Descriptors, epl_map, epoll's list and the online channels always agree.
THEOREM DescriptorsAgree == Spec => []FdsAreChannels
  <1>1. ChanInv => FdsAreChannels
    BY DEF ChanInv, Links
  <1>2. QED
    BY <1>1, ChannelSafety, PTL

\* A channel is never on chan_stk twice, nor on it and online; none vanishes while
\* the server goes on, unless its index does not fit epl_map.
THEOREM ChannelsAreConserved == Spec => []ChannelsConserved
  <1>1. ChanInv => ChannelsConserved
    BY DEF ChanInv, Links
  <1>2. QED
    BY <1>1, ChannelSafety, PTL

\* close_fds leaves no connection open.
THEOREM EverythingIsClosed == Spec => []NothingLeftOpen
  <1>1. ChanInv => NothingLeftOpen
    BY DEF ChanInv, Links
  <1>2. QED
    BY <1>1, ChannelSafety, PTL

\* No event of a batch is stale when handle_events comes to it, whatever the
\* earlier ones closed or accepted: handle_client_event does not panic and recv
\* does not block.
THEOREM EventsAreFresh == Spec => []BatchIsFresh
  <1>1. ChanInv => BatchIsFresh
    BY DEF ChanInv, Events
  <1>2. QED
    BY <1>1, ChannelSafety, PTL

\* A channel holds the bytes of its own connection from the first one on.
THEOREM BytesAreOwn == Spec => []OwnBytes
  <1>1. ChanInv => OwnBytes
    BY DEF ChanInv, Bytes
  <1>2. QED
    BY <1>1, ChannelSafety, PTL

\* A channel that waits for the rest of a packet has room for it: recv is never
\* asked for zero bytes.
THEOREM RestHasRoom == Spec => []RoomForRest
  <1>1. ChanInv => RoomForRest
    BY DEF ChanInv, Bytes
  <1>2. QED
    BY <1>1, ChannelSafety, PTL

\* submit_event sees a packet at most once, whole, and only if it fits, however
\* recv splits it.
THEOREM PacketsAreWhole == Spec => []WholePackets
  <1>1. ChanInv => WholePackets
    BY DEF ChanInv, Bytes
  <1>2. QED
    BY <1>1, ChannelSafety, PTL

===============================================================================
