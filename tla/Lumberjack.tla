----------------------------- MODULE Lumberjack -----------------------------
(***************************************************************************)
(* The Lumberjack v2 client and server of ferro-lumberjack (client.rs,     *)
(* server.rs, sequence.rs): one client that sends batches with send_json,  *)
(* one attempt per configured host, and on every accepted connection a     *)
(* server task that reads windows, hands them to its application and       *)
(* acknowledges them.                                                      *)
(*                                                                         *)
(* An await is a place where another task runs, where the deadline of the  *)
(* call may pass and where the caller may drop the future.  TCP keeps the  *)
(* order of the bytes of a connection; frames are its units here, and a    *)
(* write that is cut off leaves whole frames and perhaps a torn one.       *)
(* Connections are numbered in the order in which they are opened.         *)
(***************************************************************************)
EXTENDS LumberjackWindow

CONSTANTS
  MaxSends,    \* bound: calls of send_json
  MaxBatch,    \* bound: events in a batch
  MaxConns,    \* bound: connections that are ever accepted
  MaxCancels,  \* bound: futures that are dropped
  SeqSpace,    \* sequence numbers wrap around here: 2^32 in the code
  StartSeqs,   \* where the client's counter may stand at the start
  Configs      \* [hosts, load_balance] of ClientBuilder

ASSUME LumberjackAssumption ==
  /\ {MaxSends, MaxBatch, SeqSpace} \subseteq Nat \ {0}
  /\ {MaxConns, MaxCancels} \subseteq Nat
  /\ StartSeqs \subseteq 0..(SeqSpace - 1)
  /\ \A g \in Configs : g.hosts \in Nat \ {0} /\ g.load_balance \in BOOLEAN

VARIABLES
  config,       \* a member of Configs
  seq,          \* Client::seq
  host_cursor,  \* Client::host_cursor, modulo the number of hosts
  connection,   \* Client::connection: a connection's number, or 0 for None
  pc,           \* where send_json is suspended
  call,         \* its locals: batch, base_seq, count, payload, and the attempts made
  conns,        \* every connection that was accepted, with its server task
  cancels,      \* futures dropped so far
  size,         \* history: the number of events of each batch
  result,       \* history: what send_json returned for each batch
  delivered,    \* history: events that reached the application
  cut           \* history: batches written into a stream that was cut before

client == <<config, seq, host_cursor, connection, pc, call>>
history == <<size, result, delivered, cut>>
vars == <<client, conns, cancels, history>>

Batches == 1..MaxSends
Hosts == 0..(config.hosts - 1)

-----------------------------------------------------------------------------
(* sequence.rs, frame.rs *)

advance(s, n) == (s + n) % SeqSpace

is_exactly_acked_by(last, acked) == (acked - last) % SeqSpace = 0

\* W, then the data frames, either as they are or as one compressed frame
\* (which of the two depends on the level and on the bytes).
build_window_payload(b, base, n) ==
  LET inner == [i \in 1..n |-> [type |-> "J", seq |-> advance(base, i),
                                payload |-> <<b, i>>, size |-> 1]]
      W == [type |-> "W", count |-> n]
  IN  {<<W>> \o inner, <<W, [type |-> "C", inner |-> inner]>>}

\* A frame of which only a part was written.  The header of a data frame
\* still announces the whole length, so what follows is taken for its payload.
Torn(f) == IF f.type = "J" THEN [f EXCEPT !.payload = <<0, 0>>, !.type = "torn"]
           ELSE [type |-> "bad"]

-----------------------------------------------------------------------------
(* client.rs *)

NoCall ==
  [batch |-> 0, base |-> 0, count |-> 0, payload |-> <<>>, attempts |-> 0,
   host |-> 0, tried |-> {}]

\* What Listener::accept returns for a new connection.
accept(host) ==
  [host |-> host, stream |-> <<>>, acks |-> <<>>, closed |-> FALSE, torn |-> FALSE,
   window |-> FreshWindow]

\* ClientBuilder::connect has opened a connection to the first host.
Init ==
  /\ config \in Configs
  /\ seq \in StartSeqs
  /\ host_cursor = IF config.load_balance THEN 1 % config.hosts ELSE 0
  /\ connection = 1
  /\ pc = "idle"
  /\ call = NoCall
  /\ conns = <<accept(0)>>
  /\ cancels = 0
  /\ size = [b \in Batches |-> 0]
  /\ result = [b \in Batches |-> "unsent"]
  /\ delivered = {}
  /\ cut = {}

\* send_json with a non-empty batch: the range of sequence numbers is taken
\* before the first attempt and is never given back.
send_json(b, n) ==
  /\ pc = "idle"
  /\ result[b] = "unsent"
  /\ \A a \in 1..(b - 1) : result[a] # "unsent"
  /\ \E payload \in build_window_payload(b, seq, n) :
       call' = [NoCall EXCEPT !.batch = b, !.base = seq, !.count = n, !.payload = payload]
  /\ seq' = advance(seq, n)
  /\ size' = [size EXCEPT ![b] = n]
  /\ result' = [result EXCEPT ![b] = "sending"]
  /\ pc' = "attempt"
  /\ UNCHANGED <<config, host_cursor, connection, conns, cancels, delivered, cut>>

Return(r) ==
  /\ pc' = "idle"
  /\ call' = NoCall
  /\ result' = [result EXCEPT ![call.batch] = r]

\* The cursor does not move when an attempt fails.
Mut_AttemptFails ==
  /\ connection' = 0
  /\ UNCHANGED host_cursor
  /\ IF call.attempts + 1 = config.hosts
     THEN Return("failed")
     ELSE /\ pc' = "attempt"
          /\ call' = [call EXCEPT !.attempts = @ + 1]
          /\ UNCHANGED result

\* Whatever the error, the connection is dropped and the next host is tried;
\* after as many attempts as there are hosts send_json gives up.
AttemptFails ==
  /\ connection' = 0
  /\ host_cursor' = (host_cursor + 1) % config.hosts
  /\ IF call.attempts + 1 = config.hosts
     THEN Return("failed")
     ELSE /\ pc' = "attempt"
          /\ call' = [call EXCEPT !.attempts = @ + 1]
          /\ UNCHANGED result

\* The client's end of its connection is closed when it is dropped, with the ACKs
\* that it has not read; the server still reads what was written.
Closed(c) == [conns EXCEPT ![c].closed = TRUE, ![c].acks = <<>>, ![c].torn = FALSE]

\* load_balance moves the cursor past the host that it picks.
pick_host ==
  /\ call' = [call EXCEPT !.host = host_cursor, !.tried = @ \cup {host_cursor}]
  /\ host_cursor' = IF config.load_balance THEN (host_cursor + 1) % config.hosts
                    ELSE host_cursor

\* The call waits for a connection, and nothing opens one.
Mut_Attempt ==
  /\ pc = "attempt"
  /\ connection # 0
  /\ pc' = "write"
  /\ call' = [call EXCEPT !.tried = @ \cup {conns[connection].host}]
  /\ UNCHANGED <<config, seq, host_cursor, connection, conns, cancels, history>>

\* An open connection is used again, whatever host it leads to.
Attempt ==
  /\ pc = "attempt"
  /\ IF connection # 0
     THEN /\ pc' = "write"
          /\ call' = [call EXCEPT !.tried = @ \cup {conns[connection].host}]
          /\ UNCHANGED host_cursor
     ELSE /\ pc' = "connect"
          /\ pick_host
  /\ UNCHANGED <<config, seq, connection, conns, cancels, history>>

\* TcpStream::connect, and Listener::accept at the other end.
Connect ==
  /\ pc = "connect"
  /\ Len(conns) < MaxConns
  /\ conns' = Append(conns, accept(call.host))
  /\ connection' = Len(conns')
  /\ pc' = "write"
  /\ UNCHANGED <<config, seq, host_cursor, call, cancels, history>>

\* Refused, failed TLS handshake, or not within the timeout.
ConnectFails ==
  /\ pc = "connect"
  /\ AttemptFails
  /\ UNCHANGED <<config, seq, conns, cancels, size, delivered, cut>>

\* `frames` go into the stream, unless nobody reads it any more.
Sent(cs, frames) ==
  [cs EXCEPT ![connection].stream =
     IF cs[connection].window.status = "gone" THEN <<>> ELSE @ \o frames]

MarkCut == cut' = cut \cup (IF conns[connection].torn THEN {call.batch} ELSE {})

Write ==
  /\ pc = "write"
  /\ conns' = Sent(conns, call.payload)
  /\ MarkCut
  /\ pc' = "ack"
  /\ UNCHANGED <<config, seq, host_cursor, connection, call, cancels, size, result, delivered>>

\* The connection breaks or the timeout passes before all of it is written.
WriteFails ==
  /\ pc = "write"
  /\ \E k \in 0..Len(call.payload) :
       conns' = Sent(Closed(connection), SubSeq(call.payload, 1, k))
  /\ MarkCut
  /\ AttemptFails
  /\ UNCHANGED <<config, seq, cancels, size, delivered>>

\* Later ACKs count too, and are told by plain comparison across the wrap.
Mut_FullAck(acked) == acked >= advance(call.base, call.count)

\* Partial and foreign ACKs are errors, and so lead to the whole batch being
\* written again under the same sequence numbers.
FullAck(acked) == is_exactly_acked_by(advance(call.base, call.count), acked)

ReadAck ==
  /\ pc = "ack"
  /\ conns[connection].acks # <<>>
  /\ IF FullAck(Head(conns[connection].acks))
     THEN /\ Return("ok")
          /\ conns' = [conns EXCEPT ![connection].acks = Tail(@)]
          /\ UNCHANGED <<connection, host_cursor>>
     ELSE AttemptFails /\ conns' = Closed(connection)
  /\ UNCHANGED <<config, seq, cancels, size, delivered, cut>>

\* End of stream, a broken connection, or no ACK within the timeout.
AckFails ==
  /\ pc = "ack"
  /\ conns' = Closed(connection)
  /\ AttemptFails
  /\ UNCHANGED <<config, seq, cancels, size, delivered, cut>>

\* The caller drops the future.  The client and its connection live on, with
\* whatever part of the batch was written and with the ACK unread.
Cancel ==
  /\ pc \in {"connect", "write", "ack"}
  /\ cancels < MaxCancels
  /\ cancels' = cancels + 1
  /\ Return("cancelled")
  /\ IF pc # "write" THEN UNCHANGED <<conns, cut>>
     ELSE \E k \in 0..(Len(call.payload) - 1), torn \in BOOLEAN :
            LET whole == SubSeq(call.payload, 1, k)
                frames == IF torn THEN Append(whole, Torn(call.payload[k + 1])) ELSE whole
                now == conns[connection].torn \/ frames # <<>>
            IN  /\ conns' = [Sent(conns, frames) EXCEPT ![connection].torn = now]
                /\ cut' = IF now THEN cut \cup {call.batch} ELSE cut
  /\ UNCHANGED <<config, seq, host_cursor, connection, size, delivered>>

-----------------------------------------------------------------------------
(* server.rs: the task of connection c *)

Payloads(w) == {w.events[i].payload : i \in DOMAIN w.events} \ {<<0, 0>>}

\* read_window goes on with the frames that have arrived.  A server that calls
\* read_window has the window when it is complete ("handed"); in read_and_ack
\* the window is returned after its ACK ("window").
Took(c, w, rest) ==
  /\ \/ /\ w.status # "window"
        /\ conns' = [conns EXCEPT ![c].stream = IF w.status = "error" THEN <<>> ELSE rest,
                                  ![c].window = IF w.status = "error"
                                                THEN [FreshWindow EXCEPT !.status = "gone"]
                                                ELSE w]
        /\ UNCHANGED delivered
     \/ /\ w.status = "window"
        /\ conns' = [conns EXCEPT ![c].stream = rest, ![c].window = w]
        /\ UNCHANGED delivered
     \/ /\ w.status = "window"
        /\ conns' = [conns EXCEPT ![c].stream = rest,
                                  ![c].window = [w EXCEPT !.status = "handed"]]
        /\ delivered' = delivered \cup Payloads(w)
  /\ UNCHANGED <<client, cancels, size, result, cut>>

read_window(c) ==
  LET s == conns[c].stream  w == conns[c].window IN
  /\ w.status = "reading"
  /\ s # <<>>
  /\ \/ /\ Head(s).type # "torn"
        /\ Took(c, OnFrame(w, Head(s)), Tail(s))
     \/ /\ Head(s).type = "torn"
        /\ \E k \in 1..(Len(s) - 1) :
             \/ Took(c, OnFrame(w, [Head(s) EXCEPT !.type = "J"]), SubSeq(s, k + 2, Len(s)))
             \/ Took(c, Failed(w), <<>>)

\* The client's end is closed and everything it wrote is read: Ok(None) between
\* two windows, UnexpectedEof inside one.  The server drops the connection.
Eof(c) ==
  /\ conns[c].window.status = "reading"
  /\ conns[c].closed
  /\ \A i \in DOMAIN conns[c].stream : i = 1 /\ conns[c].stream[i].type = "torn"
  /\ conns' = [conns EXCEPT ![c].window = [FreshWindow EXCEPT !.status = "gone"],
                            ![c].stream = <<>>]
  /\ UNCHANGED <<client, cancels, history>>

Acked(c, s, w) ==
  [conns EXCEPT ![c].acks = IF conns[c].closed THEN <<>> ELSE Append(@, s),
                ![c].window = w]

\* The application acknowledges a window that it has, wholly or in part; after a
\* part it may acknowledge more later.
send_ack(c, s) ==
  LET w == conns[c].window IN
  /\ w.status = "handed"
  /\ \E i \in DOMAIN w.events : w.events[i].seq = s
  /\ conns[c].acks = <<>> \/ s = w.last_seq
  /\ conns' = Acked(c, s, IF s = w.last_seq THEN FreshWindow ELSE w)
  /\ UNCHANGED <<client, cancels, history>>

read_and_ack(c) ==
  /\ conns[c].window.status = "window"
  /\ conns' = Acked(c, conns[c].window.last_seq, FreshWindow)
  /\ delivered' = delivered \cup Payloads(conns[c].window)
  /\ UNCHANGED <<client, cancels, size, result, cut>>

\* The application drops a future of read_window or of read_and_ack: the events
\* read so far were its locals and are lost, the stream stays where it is.
CancelRead(c) ==
  /\ conns[c].window.status \in {"reading", "window"}
  /\ conns[c].window # FreshWindow
  /\ cancels < MaxCancels
  /\ cancels' = cancels + 1
  /\ conns' = [conns EXCEPT ![c].window = FreshWindow]
  /\ UNCHANGED <<client, history>>

\* The server's end goes away: a crash, a restart, a broken network.
Reset(c) ==
  /\ conns[c].window.status # "gone"
  /\ conns' = [conns EXCEPT ![c].window = [FreshWindow EXCEPT !.status = "gone"],
                            ![c].stream = <<>>]
  /\ UNCHANGED <<client, cancels, history>>

-----------------------------------------------------------------------------
SendStep ==
  \/ Attempt \/ Connect \/ ConnectFails \/ Write \/ WriteFails \/ ReadAck \/ AckFails

ServerStep(c) ==
  \/ read_window(c) \/ Eof(c) \/ read_and_ack(c) \/ CancelRead(c) \/ Reset(c)
  \/ \E s \in 0..(SeqSpace - 1) : send_ack(c, s)

Next ==
  \/ \E b \in Batches, n \in 1..MaxBatch : send_json(b, n)
  \/ SendStep
  \/ Cancel
  \/ \E c \in DOMAIN conns : ServerStep(c)

\* Every await of send_json has a timeout, and the runtime polls a task that is
\* ready: a call that was made goes on.
Spec == Init /\ [][Next]_vars /\ WF_vars(SendStep)

-----------------------------------------------------------------------------
(* Properties *)

Delivery == INSTANCE LumberjackDelivery

\* send_json returns Ok for a batch only when a server has handed every event of
\* it to its application, whatever is lost, late, repeated, acknowledged in part
\* or dropped on the way, and a batch arrives whole or not at all
\* (send_payload_once, read_window, send_ack).  Batches that follow a cut write
\* on the same connection are the exception that `cut` records.
RefinesDelivery == Delivery!Spec

\* "Up to `hosts.len()` attempts: one per host" (client.rs): when send_json gives
\* up, it has tried every host, including the one behind a connection that was
\* already open when the call was made.
EveryHostTried ==
  [][\A b \in Batches :
       result[b] = "sending" /\ result'[b] = "failed" => call.tried = Hosts]_vars

\* A call of send_json comes back: with an answer, or after its last timeout.
SendReturns == \A b \in Batches : result[b] = "sending" ~> result[b] # "sending"

=============================================================================
