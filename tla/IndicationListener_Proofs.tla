---------------------- MODULE IndicationListener_Proofs ----------------------
(***************************************************************************)
(* Safety of the indication listener for any listeners, threads, ports and *)
(* requests: types, one server per port, one answer per connection, and    *)
(* the bound on callbacks after a stop; that it implements                 *)
(* IndicationDelivery, and the order of callbacks, which follows from that.*)
(***************************************************************************)
EXTENDS IndicationListener, TLAPS

(* A thread that has an object was given a listener, and one that runs     *)
(* its loop has a port.                                                    *)
ThreadsOK ==
  \A t \in Threads :
    /\ pc[t] # "none" => obj[t] \in Listeners
    /\ pc[t] \notin {"none", "begin"} => port[t] \in Ports
    /\ pc[t] \in {"none", "begin"} => port[t] = NONE
    /\ pc[t] \in {"request", "headers", "payload", "scan", "callback"}
         => conn[t].req \in Requests

LEMMA NoConnType == NoConn \in Conns
  BY DEF NoConn, Conns

LEMMA SendType ==
  ASSUME NEW c \in Conns, NEW s \in Statuses
  PROVE  Send(c, s) \in Conns
  <1>1. Append(c.sent, s) \in Seq(Statuses)
    BY DEF Conns
  <1>2. QED
    BY <1>1 DEF Send, Conns

LEMMA DiscardType ==
  ASSUME NEW c \in Conns, NEW n \in 0..2
  PROVE  [c EXCEPT !.discard = n] \in Conns
  BY DEF Conns

LEMMA RefuseType ==
  ASSUME NEW c \in Conns, NEW s \in Statuses
  PROVE  Refuse(c, s) \in Conns
  <1>1. 2 \in 0..2
    OBVIOUS
  <1>2. QED
    BY <1>1, DiscardType, SendType DEF Refuse

LEMMA NewConnType ==
  ASSUME NEW n \in Nat, NEW r \in Requests
  PROVE  [NoConn EXCEPT !.id = n, !.req = r, !.hdrs = r.headers] \in Conns
  <1>1. r.headers \in Seq(Headers)
    BY ListenerAssumption DEF RequestSpace
  <1>2. ASSUME NEW c \in Conns, NEW h \in Seq(Headers)
        PROVE  [c EXCEPT !.id = n, !.req = r, !.hdrs = h] \in Conns
    BY DEF Conns
  <1>3. QED
    BY <1>1, <1>2, NoConnType

LEMMA ApplyHeaderType ==
  ASSUME NEW c \in Conns, NEW h \in Headers
  PROVE  ApplyHeader(c, h) \in Conns
  <1>1. [c EXCEPT !.hasLength = (h = "length")] \in Conns
    <2>1. (h = "length") \in BOOLEAN
      OBVIOUS
    <2>2. ASSUME NEW b \in BOOLEAN PROVE [c EXCEPT !.hasLength = b] \in Conns
      BY DEF Conns
    <2>3. QED
      BY <2>1, <2>2
  <1>2. 400 \in Statuses /\ 417 \in Statuses
    BY DEF Statuses
  <1>3. QED
    BY <1>1, <1>2, RefuseType DEF ApplyHeader

(* What a header may change: the answer and the Content-Length, never the  *)
(* request.  A refusal is sent only when nothing was sent before.          *)
Unanswered(c) == c.discard = 0 /\ c.sent = << >>

AnsweredBefore(c) == c.discard # 0 /\ Len(c.sent) = 1

LEMMA SendKeeps ==
  ASSUME NEW c \in Conns, NEW s \in Statuses
  PROVE  /\ Send(c, s).id = c.id /\ Send(c, s).req = c.req
         /\ Send(c, s).hdrs = c.hdrs /\ Send(c, s).discard = c.discard
         /\ Send(c, s).sent = Append(c.sent, s)
  BY DEF Send, Conns

LEMMA RefuseKeeps ==
  ASSUME NEW c \in Conns, NEW s \in Statuses
  PROVE  /\ Refuse(c, s).id = c.id /\ Refuse(c, s).req = c.req
         /\ Unanswered(c) => AnsweredBefore(Refuse(c, s))
         /\ AnsweredBefore(c) => Refuse(c, s) = c
  <1>1. CASE c.discard = 0
    <2>1. PICK d \in Conns : d = Send(c, s)
      BY SendType
    <2>2. /\ [d EXCEPT !.discard = 2].id = d.id /\ [d EXCEPT !.discard = 2].req = d.req
          /\ [d EXCEPT !.discard = 2].sent = d.sent /\ [d EXCEPT !.discard = 2].discard = 2
      BY DEF Conns
    <2>3. d.sent = Append(c.sent, s) /\ d.id = c.id /\ d.req = c.req
      BY <2>1, SendKeeps
    <2>4. c.sent = << >> => Len(Append(c.sent, s)) = 1
      OBVIOUS
    <2>5. Refuse(c, s) = [d EXCEPT !.discard = 2]
      BY <1>1, <2>1 DEF Refuse
    <2>6. /\ Refuse(c, s).id = c.id /\ Refuse(c, s).req = c.req
          /\ Refuse(c, s).discard = 2 /\ Refuse(c, s).sent = Append(c.sent, s)
      BY <2>2, <2>3, <2>5
    <2>7. QED
      BY <1>1, <2>4, <2>6 DEF Unanswered, AnsweredBefore
  <1>2. CASE c.discard # 0
    BY <1>2 DEF Refuse, Unanswered
  <1>3. QED
    BY <1>1, <1>2

LEMMA DiscardKeeps ==
  ASSUME NEW c \in Conns, NEW n
  PROVE  /\ [c EXCEPT !.discard = n].id = c.id /\ [c EXCEPT !.discard = n].req = c.req
         /\ [c EXCEPT !.discard = n].sent = c.sent
         /\ [c EXCEPT !.discard = n].discard = n
  BY DEF Conns

(* The ways getHdrs leaves the connection.                                 *)
LEMMA ReadHeadersResult ==
  ASSUME TypeOK, NEW t \in Threads, ReadHeaders(t)
  PROVE  /\ conn'[t].id = conn[t].id /\ conn'[t].req = conn[t].req
         /\ \A s \in Threads \ {t} : conn'[s] = conn[s]
         /\ \/ conn'[t] = conn[t]
            \/ conn'[t].sent = Append(conn[t].sent, 400) /\ proc' # "running"
            \/ /\ conn'[t].sent \in {Append(conn[t].sent, 400), Append(conn[t].sent, 501)}
               /\ conn'[t].discard # 0
  <1> conn[t] \in Conns
    BY DEF TypeOK
  <1> 400 \in Statuses /\ 501 \in Statuses
    BY DEF Statuses
  <1>1. PICK d \in Conns : d = Send(conn[t], 400)
    BY SendType
  <1>2. PICK e \in Conns : e = Send(conn[t], 501)
    BY SendType
  <1>3. d.id = conn[t].id /\ d.req = conn[t].req /\ d.sent = Append(conn[t].sent, 400)
    BY <1>1, SendKeeps
  <1>4. e.id = conn[t].id /\ e.req = conn[t].req /\ e.sent = Append(conn[t].sent, 501)
    BY <1>2, SendKeeps
  <1> DEFINE d2 == [d EXCEPT !.discard = 2]
             e1 == [e EXCEPT !.discard = 1]
  <1>5. d2.id = d.id /\ d2.req = d.req /\ d2.sent = d.sent /\ d2.discard = 2
    BY DiscardKeeps
  <1>6. e1.id = e.id /\ e1.req = e.req /\ e1.sent = e.sent /\ e1.discard = 1
    BY DiscardKeeps
  <1>7. \/ conn' = conn
        \/ conn' = [conn EXCEPT ![t] = conn[t]]
        \/ conn' = [conn EXCEPT ![t] = d] /\ proc' # "running"
        \/ conn' = [conn EXCEPT ![t] = d2]
        \/ conn' = [conn EXCEPT ![t] = e1]
    BY <1>1, <1>2 DEF ReadHeaders, Exit
  <1> HIDE DEF d2, e1
  <1>8. \A s \in Threads \ {t} : conn'[s] = conn[s]
    BY <1>7 DEF TypeOK
  <1>9. \/ conn'[t] = conn[t]
        \/ conn'[t] = d /\ proc' # "running"
        \/ conn'[t] = d2
        \/ conn'[t] = e1
    BY <1>7 DEF TypeOK
  <1>10. QED
    BY <1>3, <1>4, <1>5, <1>6, <1>8, <1>9

LEMMA ApplyHeaderKeeps ==
  ASSUME NEW c \in Conns, NEW h \in Headers
  PROVE  /\ ApplyHeader(c, h).id = c.id /\ ApplyHeader(c, h).req = c.req
         /\ Unanswered(c) \/ AnsweredBefore(c)
              => Unanswered(ApplyHeader(c, h)) \/ AnsweredBefore(ApplyHeader(c, h))
  <1>1. 400 \in Statuses /\ 417 \in Statuses
    BY DEF Statuses
  <1>2. CASE h \in {"badHost", "expect"}
    BY <1>1, <1>2, RefuseKeeps DEF ApplyHeader
  <1>3. CASE h \notin {"badHost", "expect"}
    <2>1. ASSUME NEW b \in BOOLEAN
          PROVE  /\ [c EXCEPT !.hasLength = b].id = c.id
                 /\ [c EXCEPT !.hasLength = b].req = c.req
                 /\ [c EXCEPT !.hasLength = b].sent = c.sent
                 /\ [c EXCEPT !.hasLength = b].discard = c.discard
      BY DEF Conns
    <2>2. ApplyHeader(c, h) = [c EXCEPT !.hasLength = (h = "length")]
      BY <1>3 DEF ApplyHeader
    <2>3. QED
      BY <2>1, <2>2 DEF Unanswered, AnsweredBefore
  <1>4. QED
    BY <1>2, <1>3

Parsed(c) == [ApplyHeader(c, Head(c.hdrs)) EXCEPT !.hdrs = Tail(@)]

LEMMA ParsedKeeps ==
  ASSUME NEW c \in Conns, c.hdrs # << >>
  PROVE  /\ Parsed(c).id = c.id /\ Parsed(c).req = c.req
         /\ Unanswered(c) \/ AnsweredBefore(c)
              => Unanswered(Parsed(c)) \/ AnsweredBefore(Parsed(c))
  <1>1. Head(c.hdrs) \in Headers
    BY DEF Conns
  <1>2. PICK d \in Conns : d = ApplyHeader(c, Head(c.hdrs))
    BY <1>1, ApplyHeaderType
  <1>3. ASSUME NEW q
        PROVE  /\ [d EXCEPT !.hdrs = q].id = d.id /\ [d EXCEPT !.hdrs = q].req = d.req
               /\ [d EXCEPT !.hdrs = q].sent = d.sent
               /\ [d EXCEPT !.hdrs = q].discard = d.discard
    BY DEF Conns
  <1>4. Parsed(c) = [d EXCEPT !.hdrs = Tail(d.hdrs)]
    BY <1>2 DEF Parsed
  <1>5. /\ Parsed(c).id = d.id /\ Parsed(c).req = d.req
        /\ Parsed(c).sent = d.sent /\ Parsed(c).discard = d.discard
    BY <1>3, <1>4
  <1>6. QED
    BY <1>1, <1>2, <1>5, ApplyHeaderKeeps DEF Unanswered, AnsweredBefore

LEMMA ParsedType ==
  ASSUME NEW c \in Conns, c.hdrs # << >>
  PROVE  [ApplyHeader(c, Head(c.hdrs)) EXCEPT !.hdrs = Tail(@)] \in Conns
  <1>1. Head(c.hdrs) \in Headers
    BY DEF Conns
  <1>2. PICK d \in Conns : d = ApplyHeader(c, Head(c.hdrs))
    BY <1>1, ApplyHeaderType
  <1>3. d.hdrs = c.hdrs
    BY <1>2 DEF ApplyHeader, Refuse, Send, Conns
  <1>4. Tail(d.hdrs) \in Seq(Headers)
    BY <1>3 DEF Conns
  <1>5. [d EXCEPT !.hdrs = Tail(d.hdrs)] \in Conns
    BY <1>4 DEF Conns
  <1>6. QED
    BY <1>2, <1>5

-----------------------------------------------------------------------------
(* Every step is a call of the application on a listener or a step of a    *)
(* thread, and it starts in a running process.                             *)
LEMMA StepCases ==
  ASSUME Next
  PROVE  /\ proc = "running"
         /\ \/ \E l \in Listeners : Application(l)
            \/ \E t \in Threads : start_listen_thread(t)
  BY DEF Next

(* Where a step may leave a thread and the process.                        *)
LEMMA GotoType ==
  ASSUME TypeOK, NEW t \in Threads, NEW from, NEW to \in PcValues,
         Goto(t, from, to) \/ UNCHANGED pc
  PROVE  pc' \in [Threads -> PcValues]
  BY DEF Goto, TypeOK

LEMMA ConnType ==
  ASSUME conn \in [Threads -> Conns], NEW t \in Threads, NEW d \in Conns,
         conn' = [conn EXCEPT ![t] = d] \/ conn' = conn
  PROVE  conn' \in [Threads -> Conns]
  OBVIOUS

(* A step that moves only the thread, its connection and the process.      *)
LEMMA ConnStepType ==
  ASSUME TypeOK, pc' \in [Threads -> PcValues], conn' \in [Threads -> Conns],
         proc' \in {proc, "exit0", "exit1", "crash"},
         UNCHANGED <<do_listen, heap, obj, port, accepted, late, stopped, log>>
  PROVE  TypeOK'
  BY DEF TypeOK

LEMMA TypeInductive == TypeOK /\ ThreadsOK /\ [Next]_vars => TypeOK'
<1> SUFFICES ASSUME TypeOK, ThreadsOK, [Next]_vars PROVE TypeOK'
  OBVIOUS
<1>1. ASSUME NEW l \in Listeners, Application(l) PROVE TypeOK'
  <2>1. CASE newCIMCIndicationListener(l)
    BY <2>1 DEF newCIMCIndicationListener, TypeOK
  <2>2. CASE start(l)
    BY <2>2 DEF start, Goto, TypeOK, PcValues
  <2>3. CASE stop(l)
    BY <2>3 DEF stop, TypeOK
  <2>4. CASE release(l)
    BY <2>4 DEF release, TypeOK
  <2>5. QED
    BY <1>1, <2>1, <2>2, <2>3, <2>4 DEF Application
<1>2. ASSUME NEW t \in Threads, start_listen_thread(t) PROVE TypeOK'
  <2> conn[t] \in Conns
    BY DEF TypeOK
  <2> {200, 400, 411, 501} \subseteq Statuses
    BY DEF Statuses
  <2>1. CASE Bind(t)
    <3>1. PortOf[obj[t]] \in Ports
      BY <2>1, ListenerAssumption DEF Bind, ThreadsOK
    <3>2. pc' \in [Threads -> PcValues]
      <4>1. "loop" \in PcValues
        BY DEF PcValues
      <4>2. Goto(t, "begin", "loop") \/ UNCHANGED pc
        BY <2>1 DEF Bind
      <4>3. QED
        BY <4>1, <4>2, GotoType
    <3>3. port' \in [Threads -> Ports \cup {NONE}]
      <4>1. PICK p \in Ports : port' = [port EXCEPT ![t] = p] \/ port' = port
        BY <2>1, <3>1 DEF Bind
      <4>2. QED
        BY <4>1 DEF TypeOK
    <3>4. proc' \in {proc, "exit0", "crash"}
      BY <2>1 DEF Bind, Exit
    <3>5. UNCHANGED <<do_listen, heap, obj, conn, accepted, late, stopped, log>>
      BY <2>1 DEF Bind
    <3>6. QED
      BY <3>2, <3>3, <3>4, <3>5 DEF TypeOK
  <2>2. CASE TestFlag(t)
    BY <2>2 DEF TestFlag, Goto, TypeOK, PcValues
  <2>3. CASE SelectEmpty(t)
    BY <2>3 DEF SelectEmpty, Goto, TypeOK, PcValues
  <2>4. CASE Accept(t)
    <3>1. ASSUME NEW r \in Requests
          PROVE  [NoConn EXCEPT !.id = accepted + 1, !.req = r, !.hdrs = r.headers] \in Conns
      <4>1. accepted + 1 \in Nat
        BY ListenerAssumption DEF TypeOK
      <4>2. QED
        BY <4>1, NewConnType
    <3>2. conn' \in [Threads -> Conns]
      BY <2>4, <3>1 DEF Accept, TypeOK
    <3>3. accepted' \in 0..MaxConns
      BY <2>4, ListenerAssumption DEF Accept, TypeOK
    <3>4. QED
      BY <2>4, <3>2, <3>3 DEF Accept, Goto, TypeOK, PcValues
  <2>5. CASE AcceptFails(t)
    BY <2>5 DEF AcceptFails, Exit, TypeOK
  <2>6. CASE ReadHeaders(t)
    <3>1. /\ Send(conn[t], 400) \in Conns
          /\ [Send(conn[t], 400) EXCEPT !.discard = 2] \in Conns
          /\ [Send(conn[t], 501) EXCEPT !.discard = 1] \in Conns
      <4>1. 1 \in 0..2 /\ 2 \in 0..2
        OBVIOUS
      <4>2. Send(conn[t], 400) \in Conns /\ Send(conn[t], 501) \in Conns
        BY SendType
      <4>3. PICK d4 \in Conns, d5 \in Conns :
              d4 = Send(conn[t], 400) /\ d5 = Send(conn[t], 501)
        BY <4>2
      <4>4. [d4 EXCEPT !.discard = 2] \in Conns /\ [d5 EXCEPT !.discard = 1] \in Conns
        BY <4>1, DiscardType
      <4>5. QED
        BY <4>2, <4>3, <4>4
    <3>2. conn' \in [Threads -> Conns]
      <4>1. PICK d \in Conns : conn' = [conn EXCEPT ![t] = d] \/ conn' = conn
        <5> DEFINE d1 == Send(conn[t], 400)
                   d2 == [Send(conn[t], 400) EXCEPT !.discard = 2]
                   d3 == [Send(conn[t], 501) EXCEPT !.discard = 1]
        <5>1. \/ conn' = conn
              \/ \E d \in {d1, d2, d3, conn[t]} : conn' = [conn EXCEPT ![t] = d]
          BY <2>6, SMTT(30) DEF ReadHeaders
        <5>2. {d1, d2, d3, conn[t]} \subseteq Conns
          BY <3>1
        <5> HIDE DEF d1, d2, d3
        <5>3. QED
          BY <5>1, <5>2
      <4>2. conn \in [Threads -> Conns]
        BY DEF TypeOK
      <4>3. QED
        BY <4>1, <4>2, ConnType
    <3>3. pc' \in [Threads -> PcValues]
      <4>1. "headers" \in PcValues
        BY DEF PcValues
      <4>2. Goto(t, "request", "headers") \/ UNCHANGED pc
        BY <2>6 DEF ReadHeaders
      <4>3. QED
        BY <4>1, <4>2, GotoType
    <3>4. /\ proc' \in {proc, "exit1", "crash"}
          /\ UNCHANGED <<do_listen, heap, obj, port, accepted, late, stopped, log>>
      BY <2>6 DEF ReadHeaders, Exit
    <3>5. QED
      BY <3>2, <3>3, <3>4, ConnStepType
  <2>7. CASE ParseHeader(t)
    BY <2>7, ParsedType DEF ParseHeader, TypeOK
  <2>8. CASE EndHeaders(t)
    <3>1. conn' \in [Threads -> Conns]
      <4>1. Send(conn[t], 411) \in Conns
        BY SendType
      <4>2. PICK d \in Conns : d = Send(conn[t], 411)
        BY <4>1
      <4>3. conn' = [conn EXCEPT ![t] = d] \/ conn' = conn
        BY <2>8, <4>2 DEF EndHeaders
      <4>4. conn \in [Threads -> Conns]
        BY DEF TypeOK
      <4>5. QED
        BY <4>3, <4>4, ConnType
    <3>2. pc' \in [Threads -> PcValues]
      <4>1. "payload" \in PcValues
        BY DEF PcValues
      <4>2. Goto(t, "headers", "payload") \/ UNCHANGED pc
        BY <2>8 DEF EndHeaders
      <4>3. QED
        BY <4>1, <4>2, GotoType
    <3>3. /\ proc' \in {proc, "exit1", "crash"}
          /\ UNCHANGED <<do_listen, heap, obj, port, accepted, late, stopped, log>>
      BY <2>8 DEF EndHeaders, Exit
    <3>4. QED
      BY <3>1, <3>2, <3>3, ConnStepType
  <2>9. CASE ReadPayload(t)
    <3>1. conn' \in [Threads -> Conns]
      <4>1. Send(conn[t], 200) \in Conns
        BY SendType
      <4>2. PICK d \in Conns : d = Send(conn[t], 200)
        BY <4>1
      <4>3. conn' = [conn EXCEPT ![t] = d] \/ conn' = conn
        BY <2>9, <4>2 DEF ReadPayload
      <4>4. conn \in [Threads -> Conns]
        BY DEF TypeOK
      <4>5. QED
        BY <4>3, <4>4, ConnType
    <3>2. pc' \in [Threads -> PcValues]
      <4>1. "close" \in PcValues /\ "scan" \in PcValues
        BY DEF PcValues
      <4>2. Goto(t, "payload", "close") \/ Goto(t, "payload", "scan") \/ UNCHANGED pc
        BY <2>9 DEF ReadPayload
      <4>3. QED
        BY <4>1, <4>2, GotoType
    <3>3. /\ proc' \in {proc, "exit1", "crash"}
          /\ UNCHANGED <<do_listen, heap, obj, port, accepted, late, stopped, log>>
      BY <2>9 DEF ReadPayload, Exit
    <3>4. QED
      BY <3>1, <3>2, <3>3, ConnStepType
  <2>10. CASE Scan(t)
    <3>1. pc' \in [Threads -> PcValues]
      <4>1. "callback" \in PcValues /\ "close" \in PcValues
        BY DEF PcValues
      <4>2. Goto(t, "scan", "callback") \/ Goto(t, "scan", "close") \/ UNCHANGED pc
        BY <2>10 DEF Scan
      <4>3. QED
        BY <4>1, <4>2, GotoType
    <3>2. /\ proc' \in {proc, "exit0"}
          /\ UNCHANGED <<do_listen, heap, obj, port, conn, accepted, late, stopped, log>>
      BY <2>10 DEF Scan, Exit
    <3>3. conn' \in [Threads -> Conns]
      BY <3>2 DEF TypeOK
    <3>4. QED
      BY <3>1, <3>2, <3>3, ConnStepType
  <2>11. CASE Callback(t)
    <3>1. <<port[t], conn[t].id>> \in (Ports \cup {NONE}) \X Nat
      BY DEF TypeOK, Conns
    <3>2. log' \in Seq((Ports \cup {NONE}) \X Nat)
      <4> DEFINE E == (Ports \cup {NONE}) \X Nat
      <4>1. log \in Seq(E) /\ <<port[t], conn[t].id>> \in E
        BY <3>1 DEF TypeOK
      <4> HIDE DEF E
      <4>2. Append(log, <<port[t], conn[t].id>>) \in Seq(E)
        BY <4>1
      <4>3. log' = log \/ log' = Append(log, <<port[t], conn[t].id>>)
        BY <2>11 DEF Callback
      <4>4. log' \in Seq(E)
        BY <4>1, <4>2, <4>3
      <4>5. QED
        BY <4>4 DEF E
    <3>3. late' \in [Threads -> Nat]
      <4>1. late' = late \/ late' = [late EXCEPT ![t] = late[t] + 1]
        BY <2>11 DEF Callback
      <4>2. QED
        BY <4>1 DEF TypeOK
    <3>4. pc' \in [Threads -> PcValues]
      <4>1. "close" \in PcValues
        BY DEF PcValues
      <4>2. Goto(t, "callback", "close") \/ UNCHANGED pc
        BY <2>11 DEF Callback
      <4>3. QED
        BY <4>1, <4>2, GotoType
    <3>5. /\ proc' \in {proc, "crash"}
          /\ UNCHANGED <<do_listen, heap, obj, port, conn, accepted, stopped>>
      BY <2>11 DEF Callback, Exit
    <3>6. QED
      BY <3>2, <3>3, <3>4, <3>5 DEF TypeOK
  <2>12. CASE Close(t)
    BY <2>12, NoConnType DEF Close, Goto, TypeOK, PcValues
  <2>13. QED
    BY <1>2, <2>1, <2>2, <2>3, <2>4, <2>5, <2>6, <2>7, <2>8, <2>9, <2>10, <2>11, <2>12
       DEF start_listen_thread
<1>3. CASE UNCHANGED vars
  BY <1>3 DEF vars, TypeOK
<1>4. QED
  BY <1>1, <1>2, <1>3, StepCases

LEMMA ThreadsInductive == TypeOK /\ ThreadsOK /\ [Next]_vars => ThreadsOK'
<1> SUFFICES ASSUME TypeOK, ThreadsOK, [Next]_vars PROVE ThreadsOK'
  OBVIOUS
<1>1. ASSUME NEW l \in Listeners, Application(l) PROVE ThreadsOK'
  BY <1>1 DEF Application, newCIMCIndicationListener, start, stop, release, Goto,
              TypeOK, ThreadsOK
<1>2. ASSUME NEW t \in Threads, start_listen_thread(t) PROVE ThreadsOK'
  <2>1. CASE Bind(t)
    <3>1. PortOf[obj[t]] \in Ports
      BY <2>1, ListenerAssumption DEF Bind, ThreadsOK
    <3>2. QED
      BY <2>1, <3>1 DEF Bind, Goto, TypeOK, ThreadsOK
  <2>2. CASE TestFlag(t) \/ SelectEmpty(t) \/ AcceptFails(t) \/ Scan(t) \/ Callback(t) \/ Close(t)
    BY <2>2 DEF TestFlag, SelectEmpty, AcceptFails, Scan, Callback, Close, Goto,
                TypeOK, ThreadsOK
  <2>3. CASE Accept(t)
    <3>1. PICK r \in Requests :
            conn' = [conn EXCEPT ![t] = [NoConn EXCEPT !.id = accepted + 1, !.req = r,
                                                       !.hdrs = r.headers]]
      BY <2>3 DEF Accept
    <3>2. conn'[t].req = r /\ \A s \in Threads \ {t} : conn'[s] = conn[s]
      BY <3>1 DEF NoConn, TypeOK
    <3>3. QED
      BY <2>3, <3>2 DEF Accept, Goto, TypeOK, ThreadsOK
  <2>4. CASE ReadHeaders(t) \/ ParseHeader(t) \/ EndHeaders(t) \/ ReadPayload(t)
    <3> conn[t] \in Conns
      BY DEF TypeOK
    <3>1. conn'[t].req = conn[t].req
      <4>1. CASE ReadHeaders(t)
        BY <4>1, ReadHeadersResult
      <4>2. CASE ParseHeader(t)
        <5>1. conn'[t] = Parsed(conn[t]) /\ conn[t].hdrs # << >>
          BY <4>2 DEF ParseHeader, Parsed, TypeOK
        <5>2. QED
          BY <5>1, ParsedKeeps
      <4>3. CASE EndHeaders(t) \/ ReadPayload(t)
        <5>1. conn'[t] \in {conn[t], Send(conn[t], 411), Send(conn[t], 200)}
          BY <4>3 DEF EndHeaders, ReadPayload, TypeOK
        <5>2. QED
          BY <5>1, SendKeeps DEF Statuses
      <4>4. QED
        BY <2>4, <4>1, <4>2, <4>3
    <3>2. QED
      BY <2>4, <3>1 DEF ReadHeaders, ParseHeader, EndHeaders, ReadPayload, Goto, TypeOK,
                        ThreadsOK, Conns
  <2>5. QED
    BY <1>2, <2>1, <2>2, <2>3, <2>4 DEF start_listen_thread
<1>3. CASE UNCHANGED vars
  BY <1>3 DEF vars, ThreadsOK
<1>4. QED
  BY <1>1, <1>2, <1>3, StepCases

LEMMA ThreadsCorrect == Spec => [](TypeOK /\ ThreadsOK)
<1>1. Init => TypeOK /\ ThreadsOK
  <2> SUFFICES ASSUME Init PROVE TypeOK /\ ThreadsOK
    OBVIOUS
  <2>1. conn \in [Threads -> Conns]
    BY NoConnType DEF Init
  <2>2. accepted \in 0..MaxConns
    BY ListenerAssumption DEF Init
  <2>3. QED
    BY <2>1, <2>2 DEF Init, TypeOK, ThreadsOK, PcValues
<1>2. QED
  BY <1>1, TypeInductive, ThreadsInductive, PTL DEF Spec

(* The variables of the listener keep their types in every behaviour.      *)
THEOREM TypeCorrect == Spec => []TypeOK
  BY ThreadsCorrect, PTL

-----------------------------------------------------------------------------
(* One server per port: only Bind sets a port, and it exits the process    *)
(* when some thread has it, as the system lets nobody bind it twice.       *)
OneServerOfPort ==
  \A s, t \in Threads : port[s] # NONE /\ port[s] = port[t] => s = t

LEMMA PortInductive ==
  TypeOK /\ ThreadsOK /\ OneServerOfPort /\ [Next]_vars => OneServerOfPort'
<1> SUFFICES ASSUME TypeOK, ThreadsOK, OneServerOfPort, [Next]_vars
             PROVE  OneServerOfPort'
  OBVIOUS
<1>1. ASSUME NEW l \in Listeners, Application(l) PROVE port' = port
  BY <1>1 DEF Application, newCIMCIndicationListener, start, stop, release
<1>2. ASSUME NEW t \in Threads, start_listen_thread(t), ~Bind(t) PROVE port' = port
  BY <1>2 DEF start_listen_thread, TestFlag, SelectEmpty, Accept, AcceptFails, ReadHeaders,
              ParseHeader, EndHeaders, ReadPayload, Scan, Callback, Close
<1>3. ASSUME NEW t \in Threads, Bind(t), port' # port PROVE OneServerOfPort'
  <2>1. PICK p \in IF Readable(t) THEN {PortOf[obj[t]]} ELSE Ports :
          /\ \A s \in Threads : port[s] # p
          /\ port' = [port EXCEPT ![t] = p]
    BY <1>3 DEF Bind
  <2>2. QED
    BY <2>1 DEF OneServerOfPort, TypeOK
<1>4. CASE port' = port
  BY <1>4 DEF OneServerOfPort
<1>5. CASE UNCHANGED vars
  BY <1>5 DEF vars, OneServerOfPort
<1>6. QED
  BY <1>1, <1>2, <1>3, <1>4, <1>5, StepCases

LEMMA OneServer == Spec => []OneServerOfPort
<1>1. Init => OneServerOfPort
  BY DEF Init, OneServerOfPort
<1>2. QED
  BY <1>1, PortInductive, ThreadsCorrect, PTL DEF Spec

-----------------------------------------------------------------------------
(* The bound on late callbacks.  A thread that has called back since the   *)
(* flag was cleared can only close its connection and leave the loop.      *)
LateInv ==
  \A t \in Threads :
    /\ do_listen => late[t] = 0
    /\ ~do_listen => \/ late[t] = 0
                     \/ late[t] = 1 /\ pc[t] \in {"close", "loop", "ended"}

LEMMA LateInductive == TypeOK /\ LateInv /\ [Next]_vars => LateInv'
<1> SUFFICES ASSUME TypeOK, LateInv, [Next]_vars PROVE LateInv'
  OBVIOUS
<1>1. ASSUME NEW l \in Listeners, Application(l) PROVE LateInv'
  BY <1>1 DEF Application, newCIMCIndicationListener, start, stop, release, Goto,
              TypeOK, LateInv
<1>2. ASSUME NEW t \in Threads, start_listen_thread(t) PROVE LateInv'
  <2>1. CASE Callback(t)
    <3>1. do_listen' = do_listen /\ pc[t] = "callback"
      BY <2>1 DEF Callback
    <3>2. /\ \A s \in Threads \ {t} : late'[s] = late[s] /\ pc'[s] = pc[s]
          /\ \/ late'[t] = late[t] /\ pc'[t] = pc[t]
             \/ pc'[t] = "close" /\ late'[t] = IF do_listen THEN late[t] ELSE late[t] + 1
      BY <2>1 DEF Callback, Goto, TypeOK
    <3>3. do_listen \in BOOLEAN
      BY DEF TypeOK
    <3>4. QED
      BY <3>1, <3>2, <3>3 DEF LateInv
  <2>2. CASE TestFlag(t)
    BY <2>2 DEF TestFlag, Goto, TypeOK, LateInv
  <2>3. CASE \/ Bind(t) \/ SelectEmpty(t) \/ Accept(t) \/ AcceptFails(t) \/ ReadHeaders(t)
             \/ ParseHeader(t) \/ EndHeaders(t) \/ ReadPayload(t) \/ Scan(t) \/ Close(t)
    <3>1. late' = late /\ do_listen' = do_listen
      BY <2>3 DEF Bind, SelectEmpty, Accept, AcceptFails, ReadHeaders, ParseHeader,
                  EndHeaders, ReadPayload, Scan, Close
    <3>2. /\ \A s \in Threads \ {t} : pc'[s] = pc[s]
          /\ pc[t] \in {"close", "loop", "ended"} => pc'[t] = pc[t] \/ pc'[t] = "loop"
      <4>1. \/ UNCHANGED pc
            \/ Goto(t, "close", "loop")
            \/ \E from \in {"begin", "select", "request", "headers", "payload", "scan"},
                  to \in PcValues : Goto(t, from, to)
        <5>1. {"begin", "loop", "select", "request", "headers", "payload", "scan",
               "callback", "close"} \subseteq PcValues
          BY DEF PcValues
        <5>2. CASE Bind(t)
          BY <5>1, <5>2 DEF Bind
        <5>3. CASE SelectEmpty(t) \/ Accept(t) \/ AcceptFails(t)
          BY <5>1, <5>3 DEF SelectEmpty, Accept, AcceptFails
        <5>4. CASE ReadHeaders(t)
          BY <5>1, <5>4 DEF ReadHeaders
        <5>5. CASE ParseHeader(t) \/ EndHeaders(t)
          BY <5>1, <5>5 DEF ParseHeader, EndHeaders
        <5>6. CASE ReadPayload(t)
          BY <5>1, <5>6 DEF ReadPayload
        <5>7. CASE Scan(t)
          BY <5>1, <5>7 DEF Scan
        <5>8. CASE Close(t)
          BY <5>8 DEF Close
        <5>9. QED
          BY <2>3, <5>2, <5>3, <5>4, <5>5, <5>6, <5>7, <5>8
      <4>2. pc \in [Threads -> PcValues]
        BY DEF TypeOK
      <4>3. QED
        BY <4>1, <4>2 DEF Goto
    <3>3. QED
      BY <3>1, <3>2 DEF LateInv
  <2>4. QED
    BY <1>2, <2>1, <2>2, <2>3 DEF start_listen_thread
<1>3. CASE UNCHANGED vars
  BY <1>3 DEF vars, LateInv
<1>4. QED
  BY <1>1, <1>2, <1>3, StepCases

(* After a stop, each thread calls back at most once more.                 *)
THEOREM LateBounded == Spec => []AtMostOneLate
<1>1. Init => LateInv
  BY DEF Init, LateInv
<1>2. LateInv => AtMostOneLate
  BY DEF LateInv, AtMostOneLate
<1>3. QED
  BY <1>1, <1>2, LateInductive, ThreadsCorrect, PTL DEF Spec

-----------------------------------------------------------------------------
(* One answer per connection: what was sent and the discard mark agree     *)
(* while the headers are parsed, and 200 is the answer of what is scanned. *)
AnswerInv ==
  \A t \in Threads :
    /\ conn[t].sent = << >> \/ Len(conn[t].sent) = 1
    /\ pc[t] \in {"scan", "callback"} => conn[t].sent = <<200>>
    /\ proc = "running" =>
         /\ pc[t] \in {"none", "begin", "loop", "select", "request", "ended"}
              => Unanswered(conn[t])
         /\ pc[t] \in {"headers", "payload"}
              => Unanswered(conn[t]) \/ AnsweredBefore(conn[t])

LEMMA AppendOne ==
  ASSUME NEW q, q = << >>, NEW s
  PROVE  Append(q, s) = <<s>> /\ Len(Append(q, s)) = 1
  OBVIOUS

(* Only the connection and the place of one thread change in a step.       *)
OthersKept(t) == \A s \in Threads \ {t} : conn'[s] = conn[s] /\ pc'[s] = pc[s]

LEMMA AnswerInductive == TypeOK /\ AnswerInv /\ [Next]_vars => AnswerInv'
<1> SUFFICES ASSUME TypeOK, AnswerInv, [Next]_vars PROVE AnswerInv'
  OBVIOUS
<1>1. ASSUME NEW l \in Listeners, Application(l) PROVE AnswerInv'
  BY <1>1 DEF Application, newCIMCIndicationListener, start, stop, release, Goto,
              TypeOK, AnswerInv
<1>2. ASSUME NEW t \in Threads, start_listen_thread(t), proc = "running" PROVE AnswerInv'
  <2> conn[t] \in Conns
    BY DEF TypeOK
  <2> 411 \in Statuses /\ 200 \in Statuses
    BY DEF Statuses
  <2>1. CASE \/ Bind(t) \/ TestFlag(t) \/ SelectEmpty(t) \/ AcceptFails(t) \/ Scan(t)
             \/ Callback(t)
    BY <1>2, <2>1 DEF Bind, TestFlag, SelectEmpty, AcceptFails, Scan, Callback, Goto, TypeOK,
                      AnswerInv
  <2>2. CASE Accept(t)
    <3>1. PICK r \in Requests :
            conn' = [conn EXCEPT ![t] = [NoConn EXCEPT !.id = accepted + 1, !.req = r,
                                                       !.hdrs = r.headers]]
      BY <2>2 DEF Accept
    <3>2. conn'[t].sent = << >> /\ conn'[t].discard = 0
      BY <3>1 DEF NoConn, TypeOK
    <3>3. OthersKept(t) /\ pc'[t] = "request" /\ proc' = proc
      BY <2>2, <3>1 DEF Accept, Goto, TypeOK, OthersKept
    <3>4. QED
      BY <1>2, <3>2, <3>3 DEF AnswerInv, Unanswered, OthersKept
  <2>3. CASE ReadHeaders(t)
    <3>1. conn[t].discard = 0 /\ conn[t].sent = << >>
      BY <1>2, <2>3 DEF ReadHeaders, AnswerInv, Unanswered
    <3>2. /\ Len(Append(conn[t].sent, 400)) = 1
          /\ Len(Append(conn[t].sent, 501)) = 1
      BY <3>1, AppendOne
    <3>3. \/ Unanswered(conn'[t])
          \/ AnsweredBefore(conn'[t])
          \/ Len(conn'[t].sent) = 1 /\ proc' # "running"
      <4>1. \/ conn'[t] = conn[t]
            \/ conn'[t].sent = Append(conn[t].sent, 400) /\ proc' # "running"
            \/ /\ conn'[t].sent \in {Append(conn[t].sent, 400), Append(conn[t].sent, 501)}
               /\ conn'[t].discard # 0
        BY <2>3, ReadHeadersResult
      <4>2. conn'[t] = conn[t] => Unanswered(conn'[t])
        BY <3>1 DEF Unanswered
      <4>3. conn'[t].sent \in {Append(conn[t].sent, 400), Append(conn[t].sent, 501)}
              => Len(conn'[t].sent) = 1
        BY <3>2
      <4>4. QED
        BY <4>1, <4>2, <4>3 DEF AnsweredBefore
    <3>4. /\ OthersKept(t)
          /\ pc'[t] # "headers" => pc'[t] = "request" /\ proc' # "running"
      <4>1. \/ Goto(t, "request", "headers")
            \/ UNCHANGED pc /\ pc[t] = "request" /\ proc' \in {"exit1", "crash"}
        BY <2>3 DEF ReadHeaders, Exit
      <4>2. \A s \in Threads \ {t} : pc'[s] = pc[s]
        BY <4>1 DEF Goto, TypeOK
      <4>3. pc'[t] # "headers" => pc'[t] = "request" /\ proc' # "running"
        BY <4>1 DEF Goto, TypeOK
      <4>4. QED
        BY <2>3, <4>2, <4>3, ReadHeadersResult DEF OthersKept
    <3>5. QED
      BY <1>2, <3>3, <3>4 DEF AnswerInv, Unanswered, AnsweredBefore, OthersKept
  <2>4. CASE ParseHeader(t)
    <3>1. conn'[t] = Parsed(conn[t]) /\ conn[t].hdrs # << >>
      BY <2>4 DEF ParseHeader, Parsed, TypeOK
    <3>2. Unanswered(conn'[t]) \/ AnsweredBefore(conn'[t])
      BY <1>2, <2>4, <3>1, ParsedKeeps DEF ParseHeader, AnswerInv
    <3>3. OthersKept(t) /\ pc'[t] = "headers"
      BY <2>4 DEF ParseHeader, TypeOK, OthersKept
    <3>4. QED
      BY <1>2, <3>2, <3>3 DEF AnswerInv, Unanswered, AnsweredBefore, OthersKept
  <2>5. CASE EndHeaders(t)
    <3>1. Unanswered(conn[t]) \/ AnsweredBefore(conn[t])
      BY <1>2, <2>5 DEF EndHeaders, AnswerInv
    <3>2. \/ conn' = conn
          \/ /\ conn[t].discard = 0 /\ conn' = [conn EXCEPT ![t] = Send(conn[t], 411)]
             /\ proc' # "running"
      BY <2>5 DEF EndHeaders, Exit
    <3>3. \/ conn'[t] = conn[t]
          \/ Len(conn'[t].sent) = 1 /\ proc' # "running"
      <4>1. conn[t].discard = 0 => conn[t].sent = << >>
        BY <3>1 DEF Unanswered, AnsweredBefore
      <4>2. conn[t].discard = 0 => Len(Send(conn[t], 411).sent) = 1
        <5>1. Send(conn[t], 411).sent = Append(conn[t].sent, 411)
          BY SendKeeps
        <5>2. conn[t].sent = << >> => Len(Append(conn[t].sent, 411)) = 1
          BY AppendOne
        <5>3. QED
          BY <4>1, <5>1, <5>2
      <4>3. QED
        BY <3>2, <4>2 DEF TypeOK
    <3>4. /\ OthersKept(t)
          /\ pc'[t] # "payload" => pc'[t] = "headers" /\ proc' # "running"
      BY <2>5, <3>2 DEF EndHeaders, Goto, Exit, TypeOK, OthersKept
    <3>5. QED
      BY <1>2, <3>1, <3>3, <3>4 DEF AnswerInv, Unanswered, AnsweredBefore, OthersKept
  <2>6. CASE ReadPayload(t)
    <3>1. Unanswered(conn[t]) \/ AnsweredBefore(conn[t])
      BY <1>2, <2>6 DEF ReadPayload, AnswerInv
    <3>2. CASE UNCHANGED conn /\ (Goto(t, "payload", "close") \/ (Exit("crash") /\ UNCHANGED pc))
      <4>1. OthersKept(t) /\ (pc' = pc \/ pc'[t] = "close")
        BY <3>2 DEF Goto, TypeOK, OthersKept
      <4>2. QED
        BY <1>2, <2>6, <3>1, <3>2, <4>1 DEF ReadPayload, AnswerInv, OthersKept, Exit
    <3>3. CASE conn[t].discard = 0 /\ Goto(t, "payload", "scan")
               /\ conn' = [conn EXCEPT ![t] = Send(@, 200)] /\ UNCHANGED proc
      <4>1. conn'[t] = Send(conn[t], 200) /\ OthersKept(t) /\ pc'[t] = "scan"
        BY <2>6, <3>3 DEF ReadPayload, Goto, TypeOK, OthersKept
      <4>2. conn[t].sent = << >>
        BY <3>1, <3>3 DEF Unanswered, AnsweredBefore
      <4>3. conn'[t].sent = <<200>> /\ Len(conn'[t].sent) = 1
        <5>1. conn'[t].sent = Append(conn[t].sent, 200)
          BY <4>1, SendKeeps
        <5>2. QED
          BY <5>1, <4>2, AppendOne
      <4>4. QED
        BY <2>6, <4>1, <4>3 DEF ReadPayload, AnswerInv, OthersKept
    <3>4. \/ UNCHANGED conn /\ (Goto(t, "payload", "close") \/ (Exit("crash") /\ UNCHANGED pc))
          \/ /\ conn[t].discard = 0 /\ Goto(t, "payload", "scan")
             /\ conn' = [conn EXCEPT ![t] = Send(@, 200)] /\ UNCHANGED proc
      BY <2>6 DEF ReadPayload
    <3>5. QED
      BY <3>2, <3>3, <3>4
  <2>7. CASE Close(t)
    <3>1. conn'[t] = NoConn /\ OthersKept(t) /\ pc'[t] = "loop" /\ proc' = proc
      BY <2>7 DEF Close, Goto, TypeOK, OthersKept
    <3>2. Unanswered(NoConn)
      BY DEF Unanswered, NoConn
    <3>3. QED
      BY <1>2, <3>1, <3>2 DEF AnswerInv, OthersKept, Unanswered
  <2>8. QED
    BY <1>2, <2>1, <2>2, <2>3, <2>4, <2>5, <2>6, <2>7 DEF start_listen_thread
<1>3. CASE UNCHANGED vars
  BY <1>3 DEF vars, AnswerInv
<1>4. QED
  BY <1>1, <1>2, <1>3, StepCases

(* A connection is answered at most once, and only what was answered with  *)
(* 200 is scanned and called back for.                                     *)
THEOREM OneAnswer == Spec => []AnsweredOnce
<1>1. Init => AnswerInv
  BY DEF Init, AnswerInv, NoConn, Unanswered
<1>2. AnswerInv => AnsweredOnce
  <2> SUFFICES ASSUME AnswerInv, NEW t \in Threads
               PROVE  /\ Len(conn[t].sent) <= 1
                      /\ pc[t] \in {"scan", "callback"} => conn[t].sent = <<200>>
                      /\ proc = "running" /\ pc[t] \in {"headers", "payload"} =>
                           (conn[t].discard = 0 <=> conn[t].sent = << >>)
    BY DEF AnsweredOnce
  <2>1. Len(conn[t].sent) <= 1
    <3>1. CASE conn[t].sent = << >>
      BY <3>1
    <3>2. CASE Len(conn[t].sent) = 1
      BY <3>2
    <3>3. QED
      BY <3>1, <3>2 DEF AnswerInv
  <2>2. AnsweredBefore(conn[t]) => conn[t].sent # << >>
    BY DEF AnsweredBefore
  <2>3. QED
    BY <2>1, <2>2 DEF AnswerInv, Unanswered, AnsweredBefore
<1>3. QED
  BY <1>1, <1>2, AnswerInductive, ThreadsCorrect, PTL DEF Spec

-----------------------------------------------------------------------------
(* The indication listener implements IndicationDelivery, for any          *)
(* listeners, threads, ports and requests, and so calls back in order.     *)

(* Serving depends on three functions only: ports, places, connections.    *)
At(ports, places, p) == {t \in Threads : ports[t] = p /\ places[t] \in Undelivered}

ServingBy(ports, places, conns, p) ==
  IF At(ports, places, p) = {} THEN 0 ELSE conns[CHOOSE t \in At(ports, places, p) : TRUE].id

Served == [p \in Ports |-> Serving(p)]

LEMMA ServedNow == Served = [p \in Ports |-> ServingBy(port, pc, conn, p)]
  BY DEF Served, Serving, ServingBy, At

LEMMA ServedNext == Served' = [p \in Ports |-> ServingBy(port', pc', conn', p)]
  BY DEF Served, Serving, ServingBy, At

LEMMA NoneServes ==
  ASSUME NEW ports, NEW places, NEW conns, NEW p,
         \A t \in Threads : ports[t] = p => places[t] \notin Undelivered
  PROVE  ServingBy(ports, places, conns, p) = 0
  BY DEF ServingBy, At

LEMMA OneServes ==
  ASSUME NEW ports, NEW places, NEW conns, NEW t \in Threads, places[t] \in Undelivered,
         \A s \in Threads : ports[s] = ports[t] => s = t
  PROVE  ServingBy(ports, places, conns, ports[t]) = conns[t].id
<1>1. At(ports, places, ports[t]) = {t}
  BY DEF At
<1> QED
  BY <1>1 DEF ServingBy

LEMMA SameServes ==
  ASSUME NEW ports, NEW places, NEW conns, NEW ports2, NEW places2, NEW conns2, NEW p,
         At(ports, places, p) = At(ports2, places2, p),
         \A t \in At(ports, places, p) : conns[t].id = conns2[t].id
  PROVE  ServingBy(ports, places, conns, p) = ServingBy(ports2, places2, conns2, p)
  BY DEF ServingBy

-----------------------------------------------------------------------------
(* A thread between accept and its callback serves a numbered connection.  *)
IdsOK == \A t \in Threads : pc[t] \in Undelivered => conn[t].id # 0

MapInv == TypeOK /\ ThreadsOK /\ OneServerOfPort /\ IdsOK

(* Steps that keep who serves what.                                        *)
LEMMA ServedKept ==
  ASSUME \A t \in Threads :
           /\ pc'[t] \in Undelivered <=> pc[t] \in Undelivered
           /\ pc[t] \in Undelivered => port'[t] = port[t] /\ conn'[t].id = conn[t].id
  PROVE  Served' = Served
<1>1. \A p : At(port, pc, p) = At(port', pc', p)
  BY DEF At
<1>2. \A p : ServingBy(port, pc, conn, p) = ServingBy(port', pc', conn', p)
  <2> TAKE p
  <2>1. At(port, pc, p) = At(port', pc', p)
    BY <1>1
  <2>2. \A t \in At(port, pc, p) : conn[t].id = conn'[t].id
    BY DEF At
  <2> QED
    BY <2>1, <2>2, SameServes
<1> QED
  BY <1>2, ServedNow, ServedNext

(* A step of one thread, its port kept, changes what that port serves only.*)
LEMMA ServedChanges ==
  ASSUME MapInv, NEW t \in Threads, port[t] \in Ports, port' = port, OthersKept(t)
  PROVE  /\ Served[port[t]] = IF pc[t] \in Undelivered THEN conn[t].id ELSE 0
         /\ Served' = [Served EXCEPT ![port[t]] =
                         IF pc'[t] \in Undelivered THEN conn'[t].id ELSE 0]
<1>1. \A s \in Threads : port[s] = port[t] => s = t
  BY ListenerAssumption DEF MapInv, OneServerOfPort
<1>2. ServingBy(port, pc, conn, port[t]) = IF pc[t] \in Undelivered THEN conn[t].id ELSE 0
  BY <1>1, OneServes, NoneServes
<1>3. ServingBy(port', pc', conn', port[t]) = IF pc'[t] \in Undelivered THEN conn'[t].id ELSE 0
  <2>1. \A s \in Threads : port'[s] = port'[t] => s = t
    BY <1>1
  <2>2. ServingBy(port', pc', conn', port'[t])
          = IF pc'[t] \in Undelivered THEN conn'[t].id ELSE 0
    BY <2>1, OneServes, NoneServes
  <2> QED
    BY <2>2
<1>4. ASSUME NEW p, p # port[t]
      PROVE  ServingBy(port, pc, conn, p) = ServingBy(port', pc', conn', p)
  <2>1. At(port, pc, p) = At(port', pc', p)
    BY <1>4 DEF At, OthersKept
  <2>2. \A s \in At(port, pc, p) : conn[s].id = conn'[s].id
    BY <1>4 DEF At, OthersKept
  <2> QED
    BY <2>1, <2>2, SameServes
<1> QED
  BY <1>2, <1>3, <1>4, ServedNow, ServedNext

-----------------------------------------------------------------------------
(* How a step of the listener maps to IndicationDelivery.                  *)
Maps == [Delivery!Next]_(Delivery!vars)

LEMMA MapsToStutter ==
  ASSUME Served' = Served, UNCHANGED <<proc, accepted, log>>
  PROVE  Maps
BY DEF Maps, Delivery!vars, Served

LEMMA MapsToGoDown ==
  ASSUME proc = "running", proc' # "running", Served' = Served, UNCHANGED <<accepted, log>>
  PROVE  Maps
BY DEF Maps, Delivery!Next, Delivery!GoDown, Served

LEMMA MapsToTake ==
  ASSUME proc = "running", NEW p \in Ports, Served[p] = 0,
         Served' = [Served EXCEPT ![p] = accepted + 1],
         accepted' = accepted + 1, UNCHANGED <<proc, log>>
  PROVE  Maps
BY DEF Maps, Delivery!Next, Delivery!Take, Served

LEMMA MapsToDrop ==
  ASSUME proc = "running", NEW p \in Ports, Served[p] # 0,
         Served' = [Served EXCEPT ![p] = 0], UNCHANGED <<proc, accepted, log>>
  PROVE  Maps
BY DEF Maps, Delivery!Next, Delivery!Drop, Served

LEMMA MapsToDeliver ==
  ASSUME proc = "running", NEW p \in Ports, Served[p] # 0,
         Served' = [Served EXCEPT ![p] = 0], log' = Append(log, <<p, Served[p]>>),
         UNCHANGED <<proc, accepted>>
  PROVE  Maps
BY DEF Maps, Delivery!Next, Delivery!Deliver, Served

-----------------------------------------------------------------------------
(* Reading a request keeps the number of its connection.                   *)
Reading(t) == ReadHeaders(t) \/ ParseHeader(t) \/ EndHeaders(t) \/ ReadPayload(t)

LEMMA ReadingKeepsId ==
  ASSUME TypeOK, NEW t \in Threads, Reading(t)
  PROVE  conn'[t].id = conn[t].id /\ \A s \in Threads \ {t} : conn'[s] = conn[s]
<1> conn[t] \in Conns
  BY DEF TypeOK
<1>1. CASE ReadHeaders(t)
  BY <1>1, ReadHeadersResult
<1>2. CASE ParseHeader(t)
  <2>1. conn'[t] = Parsed(conn[t]) /\ conn[t].hdrs # << >>
    BY <1>2 DEF ParseHeader, Parsed, TypeOK
  <2>2. \A s \in Threads \ {t} : conn'[s] = conn[s]
    BY <1>2 DEF ParseHeader, TypeOK
  <2> QED
    BY <2>1, <2>2, ParsedKeeps
<1>3. CASE EndHeaders(t) \/ ReadPayload(t)
  <2>1. conn'[t] \in {conn[t], Send(conn[t], 411), Send(conn[t], 200)}
    BY <1>3 DEF EndHeaders, ReadPayload, TypeOK
  <2>2. \A s \in Threads \ {t} : conn'[s] = conn[s]
    BY <1>3 DEF EndHeaders, ReadPayload, TypeOK
  <2> QED
    BY <2>1, <2>2, SendKeeps DEF Statuses
<1> QED
  BY <1>1, <1>2, <1>3 DEF Reading

(* Where reading leaves the thread: on its way to the callback, or, the    *)
(* request refused, about to close.                                        *)
LEMMA ReadingMoves ==
  ASSUME TypeOK, NEW t \in Threads, Reading(t), proc = "running"
  PROVE  /\ pc[t] \in Undelivered /\ OthersKept(t)
         /\ pc'[t] \in Undelivered \/ (pc'[t] = "close" /\ proc' = "running")
         /\ UNCHANGED <<do_listen, heap, obj, port, accepted, late, stopped, log>>
<1>1. UNCHANGED <<do_listen, heap, obj, port, accepted, late, stopped, log>>
  BY DEF Reading, ReadHeaders, ParseHeader, EndHeaders, ReadPayload
<1>2. \/ pc' = pc /\ pc[t] \in Undelivered
      \/ \E from \in Undelivered, to \in Undelivered : Goto(t, from, to)
      \/ Goto(t, "payload", "close") /\ proc' = proc
  <2>1. CASE ReadHeaders(t)
    BY <2>1 DEF ReadHeaders, Undelivered
  <2>2. CASE ParseHeader(t)
    BY <2>2 DEF ParseHeader, Undelivered
  <2>3. CASE EndHeaders(t)
    BY <2>3 DEF EndHeaders, Undelivered
  <2>4. CASE ReadPayload(t)
    BY <2>4 DEF ReadPayload, Undelivered
  <2> QED
    BY <2>1, <2>2, <2>3, <2>4 DEF Reading
<1>3. \A s \in Threads \ {t} : pc'[s] = pc[s]
  BY <1>2 DEF Goto, TypeOK
<1>4. /\ pc[t] \in Undelivered
      /\ pc'[t] \in Undelivered \/ (pc'[t] = "close" /\ proc' = "running")
  BY <1>2 DEF Goto, TypeOK, Undelivered
<1> QED
  BY <1>1, <1>3, <1>4, ReadingKeepsId DEF OthersKept

(* A connection is numbered when it is accepted.                           *)
LEMMA AcceptsId ==
  ASSUME TypeOK, NEW t \in Threads, Accept(t)
  PROVE  /\ conn'[t].id = accepted + 1 /\ accepted + 1 # 0
         /\ OthersKept(t) /\ pc[t] = "select" /\ pc'[t] = "request"
<1>1. PICK r \in Requests :
        conn' = [conn EXCEPT ![t] = [NoConn EXCEPT !.id = accepted + 1, !.req = r,
                                                   !.hdrs = r.headers]]
  BY DEF Accept
<1>2. conn'[t].id = accepted + 1
  BY <1>1 DEF NoConn, TypeOK
<1>3. accepted + 1 # 0
  BY ListenerAssumption DEF TypeOK
<1> QED
  BY <1>1, <1>2, <1>3 DEF Accept, Goto, TypeOK, OthersKept

LEMMA IdsInductive == TypeOK /\ IdsOK /\ [Next]_vars => IdsOK'
<1> SUFFICES ASSUME TypeOK, IdsOK, [Next]_vars
             PROVE  IdsOK'
  OBVIOUS
<1>1. ASSUME NEW l \in Listeners, Application(l)
      PROVE  IdsOK'
  BY <1>1 DEF Application, newCIMCIndicationListener, start, stop, release, Goto, TypeOK,
              IdsOK, Undelivered
<1>2. ASSUME NEW t \in Threads, start_listen_thread(t), proc = "running"
      PROVE  IdsOK'
  <2>1. CASE Accept(t)
    BY <2>1, AcceptsId DEF IdsOK, OthersKept
  <2>2. CASE Reading(t)
    <3>1. OthersKept(t) /\ pc[t] \in Undelivered
      BY <1>2, <2>2, ReadingMoves
    <3> QED
      BY <2>2, <3>1, ReadingKeepsId DEF IdsOK, OthersKept
  <2>3. CASE \/ Bind(t) \/ TestFlag(t) \/ SelectEmpty(t) \/ AcceptFails(t) \/ Scan(t)
             \/ Callback(t) \/ Close(t)
    <3>1. \A s \in Threads : pc'[s] \in Undelivered =>
            pc[s] \in Undelivered /\ conn'[s] = conn[s]
      BY <2>3 DEF Bind, TestFlag, SelectEmpty, AcceptFails, Scan, Callback, Close, Goto,
                  TypeOK, Undelivered
    <3> QED
      BY <3>1 DEF IdsOK
  <2> QED
    BY <1>2, <2>1, <2>2, <2>3 DEF start_listen_thread, Reading
<1>3. CASE UNCHANGED vars
  BY <1>3 DEF vars, IdsOK
<1> QED
  BY <1>1, <1>2, <1>3, StepCases

-----------------------------------------------------------------------------
LEMMA ApplicationMaps ==
  ASSUME MapInv, proc = "running", NEW l \in Listeners, Application(l)
  PROVE  Maps
<1>1. UNCHANGED <<proc, accepted, log, port, conn>>
  BY DEF Application, newCIMCIndicationListener, start, stop, release
<1>2. pc' = pc \/ \E t \in Threads : Goto(t, "none", "begin")
  BY DEF Application, newCIMCIndicationListener, start, stop, release
<1>3. \A t \in Threads : pc'[t] \in Undelivered <=> pc[t] \in Undelivered
  BY <1>2 DEF Goto, Undelivered, MapInv, TypeOK
<1> QED
  BY <1>1, <1>3, ServedKept, MapsToStutter

LEMMA BindMaps ==
  ASSUME MapInv, proc = "running", NEW t \in Threads, Bind(t)
  PROVE  Maps
<1>1. /\ UNCHANGED <<accepted, log, conn>>
      /\ \A s \in Threads \ {t} : port'[s] = port[s] /\ pc'[s] = pc[s]
      /\ pc[t] = "begin" /\ pc'[t] \in {"begin", "loop"}
  BY DEF Bind, Goto, MapInv, TypeOK
<1>2. Served' = Served
  BY <1>1, ServedKept DEF Undelivered
<1> QED
  BY <1>1, <1>2, MapsToStutter, MapsToGoDown

LEMMA PortOfThread ==
  ASSUME MapInv, NEW t \in Threads, pc[t] \notin {"none", "begin"}
  PROVE  port[t] \in Ports
BY DEF MapInv, ThreadsOK

LEMMA LoopMaps ==
  ASSUME MapInv, proc = "running", NEW t \in Threads,
         TestFlag(t) \/ SelectEmpty(t) \/ AcceptFails(t) \/ Close(t)
  PROVE  Maps
<1>1. /\ UNCHANGED <<accepted, log, port>>
      /\ \A s \in Threads \ {t} : conn'[s] = conn[s] /\ pc'[s] = pc[s]
      /\ pc[t] \notin Undelivered /\ pc'[t] \notin Undelivered
  BY DEF TestFlag, SelectEmpty, AcceptFails, Close, Goto, Undelivered, MapInv, TypeOK
<1>2. Served' = Served
  BY <1>1, ServedKept
<1> QED
  BY <1>1, <1>2, MapsToStutter, MapsToGoDown

LEMMA AcceptMaps ==
  ASSUME MapInv, proc = "running", NEW t \in Threads, Accept(t)
  PROVE  Maps
<1>1. /\ conn'[t].id = accepted + 1 /\ OthersKept(t)
      /\ pc[t] = "select" /\ pc'[t] = "request"
  BY AcceptsId DEF MapInv
<1>2. port[t] \in Ports
  BY <1>1, PortOfThread
<1>3. accepted' = accepted + 1 /\ UNCHANGED <<proc, port, log>>
  BY DEF Accept
<1>4. Served[port[t]] = 0 /\ Served' = [Served EXCEPT ![port[t]] = accepted + 1]
  BY <1>1, <1>2, <1>3, ServedChanges DEF Undelivered
<1> QED
  BY <1>2, <1>3, <1>4, MapsToTake

LEMMA ReadingMaps ==
  ASSUME MapInv, proc = "running", NEW t \in Threads, Reading(t)
  PROVE  Maps
<1>1. /\ pc[t] \in Undelivered /\ OthersKept(t) /\ UNCHANGED <<port, accepted, log>>
      /\ pc'[t] \in Undelivered \/ (pc'[t] = "close" /\ proc' = "running")
  BY ReadingMoves DEF MapInv
<1>2. conn'[t].id = conn[t].id
  BY ReadingKeepsId DEF MapInv
<1>3. CASE pc'[t] \in Undelivered
  <2>1. Served' = Served
    BY <1>1, <1>2, <1>3, ServedKept DEF OthersKept
  <2> QED
    BY <1>1, <2>1, MapsToStutter, MapsToGoDown
<1>4. CASE pc'[t] = "close" /\ proc' = "running"
  <2>1. port[t] \in Ports
    BY <1>1, PortOfThread DEF Undelivered
  <2>2. Served[port[t]] # 0 /\ Served' = [Served EXCEPT ![port[t]] = 0]
    BY <1>1, <1>4, <2>1, ServedChanges DEF Undelivered, MapInv, IdsOK
  <2> QED
    BY <1>1, <1>4, <2>1, <2>2, MapsToDrop
<1> QED
  BY <1>1, <1>3, <1>4

LEMMA ScanMaps ==
  ASSUME MapInv, proc = "running", NEW t \in Threads, Scan(t)
  PROVE  Maps
<1>1. /\ UNCHANGED <<port, conn, accepted, log>> /\ pc[t] = "scan"
      /\ \A s \in Threads \ {t} : pc'[s] = pc[s]
      /\ pc'[t] \in Undelivered \/ (pc'[t] = "close" /\ proc' = proc)
  BY DEF Scan, Goto, Undelivered, MapInv, TypeOK
<1>2. CASE pc'[t] \in Undelivered
  <2>1. Served' = Served
    BY <1>1, <1>2, ServedKept DEF Undelivered
  <2> QED
    BY <1>1, <2>1, MapsToStutter, MapsToGoDown
<1>3. CASE pc'[t] = "close" /\ proc' = proc
  <2>1. port[t] \in Ports /\ OthersKept(t)
    BY <1>1, PortOfThread DEF OthersKept
  <2>2. Served[port[t]] # 0 /\ Served' = [Served EXCEPT ![port[t]] = 0]
    BY <1>1, <1>3, <2>1, ServedChanges DEF Undelivered, MapInv, IdsOK
  <2> QED
    BY <1>1, <1>3, <2>1, <2>2, MapsToDrop
<1> QED
  BY <1>1, <1>2, <1>3

LEMMA CallbackMaps ==
  ASSUME MapInv, proc = "running", NEW t \in Threads, Callback(t)
  PROVE  Maps
<1>1. UNCHANGED <<port, conn, accepted>> /\ pc[t] = "callback"
  BY DEF Callback
<1>2. CASE Goto(t, "callback", "close") /\ log' = Append(log, <<port[t], conn[t].id>>)
           /\ proc' = proc
  <2>1. OthersKept(t) /\ pc'[t] = "close"
    BY <1>1, <1>2 DEF Goto, OthersKept, MapInv, TypeOK
  <2>2. port[t] \in Ports
    BY <1>1, PortOfThread
  <2>3. /\ Served[port[t]] = conn[t].id /\ conn[t].id # 0
        /\ Served' = [Served EXCEPT ![port[t]] = 0]
    BY <1>1, <2>1, <2>2, ServedChanges DEF Undelivered, MapInv, IdsOK
  <2> QED
    BY <1>1, <1>2, <2>2, <2>3, MapsToDeliver
<1>3. CASE proc' = "crash" /\ UNCHANGED <<pc, log>>
  <2>1. Served' = Served
    BY <1>1, <1>3, ServedKept
  <2> QED
    BY <1>1, <1>3, <2>1, MapsToGoDown
<1> QED
  BY <1>2, <1>3 DEF Callback, Exit

LEMMA StepMaps == MapInv /\ [Next]_vars => Maps
<1> SUFFICES ASSUME MapInv, [Next]_vars
             PROVE  Maps
  OBVIOUS
<1>1. ASSUME NEW t \in Threads, start_listen_thread(t), proc = "running"
      PROVE  Maps
  BY <1>1, BindMaps, LoopMaps, AcceptMaps, ReadingMaps, ScanMaps, CallbackMaps
     DEF start_listen_thread, Reading
<1>2. CASE UNCHANGED vars
  <2>1. UNCHANGED <<proc, accepted, log, port, pc, conn>>
    BY <1>2 DEF vars
  <2> QED
    BY <2>1, ServedKept, MapsToStutter
<1> QED
  BY <1>1, <1>2, StepCases, ApplicationMaps

LEMMA InitMaps == Init => Delivery!Init
<1> SUFFICES ASSUME Init
             PROVE  Delivery!Init
  OBVIOUS
<1>1. \A p \in Ports : Serving(p) = 0
  BY DEF Init, Serving, Undelivered
<1> QED
  BY <1>1 DEF Init, Delivery!Init

(* The listener does nothing but take connections, deliver or drop them    *)
(* one at a time on each port, and end: whatever the application calls and *)
(* the peers send, handleConnection and establish_listener implement       *)
(* IndicationDelivery.                                                     *)
THEOREM ListenerDelivers == Spec => DeliverySpec
<1>1. Spec => []MapInv
  <2>1. Init => IdsOK
    BY DEF Init, IdsOK, Undelivered
  <2> QED
    BY <2>1, IdsInductive, ThreadsCorrect, OneServer, PTL DEF Spec, MapInv
<1> QED
  BY <1>1, InitMaps, StepMaps, PTL DEF Spec, DeliverySpec, Delivery!Spec, Maps

-----------------------------------------------------------------------------
(* The order of callbacks follows from the promise of IndicationDelivery   *)
(* alone, for any set of ports: whatever implements it has the order.      *)
(* The lemmas are about what was taken, what each port serves and the log. *)

(* Callbacks of a port come in the order its connections were taken, and   *)
(* no connection is called back for twice.                                 *)
InOrder(l) ==
  \A i, j \in 1..Len(l) :
    i < j => /\ l[i][2] # l[j][2]
             /\ l[i][1] = l[j][1] => l[i][2] < l[j][2]

DeliveryTypes(n, s, l) ==
  /\ n \in Nat
  /\ s \in [Ports -> Nat]
  /\ l \in Seq(Ports \X Nat)

(* A connection is served by one port only, and not before it was taken.   *)
ServedOnce(n, s) ==
  /\ \A p \in Ports : s[p] <= n
  /\ \A p, q \in Ports : s[p] # 0 /\ s[p] = s[q] => p = q

(* What was delivered is no longer served, and on its port only later      *)
(* connections are.                                                        *)
DeliveredBefore(n, s, l) ==
  \A i \in 1..Len(l) :
    /\ l[i][2] <= n
    /\ \A p \in Ports : s[p] # 0 =>
         /\ l[i][2] # s[p]
         /\ l[i][1] = p => l[i][2] < s[p]

OrderInv(n, s, l) ==
  DeliveryTypes(n, s, l) /\ ServedOnce(n, s) /\ DeliveredBefore(n, s, l) /\ InOrder(l)

LEMMA TakeKeepsOrder ==
  ASSUME NEW n, NEW s, NEW l, OrderInv(n, s, l), NEW p \in Ports
  PROVE  OrderInv(n + 1, [s EXCEPT ![p] = n + 1], l)
<1> DEFINE s2 == [s EXCEPT ![p] = n + 1]
<1> USE DEF OrderInv, DeliveryTypes
<1>1. \A q \in Ports : s2[q] = IF q = p THEN n + 1 ELSE s[q]
  OBVIOUS
<1>2. DeliveryTypes(n + 1, s2, l)
  OBVIOUS
<1>3. \A i \in 1..Len(l) : l[i] \in Ports \X Nat
  OBVIOUS
<1> HIDE DEF s2
<1>4. ServedOnce(n + 1, s2)
  BY <1>1 DEF ServedOnce
<1>5. DeliveredBefore(n + 1, s2, l)
  <2> SUFFICES ASSUME NEW i \in 1..Len(l)
               PROVE  /\ l[i][2] <= n + 1
                      /\ \A q \in Ports : s2[q] # 0 =>
                           /\ l[i][2] # s2[q]
                           /\ l[i][1] = q => l[i][2] < s2[q]
    BY DEF DeliveredBefore
  <2>1. l[i][2] \in Nat /\ n \in Nat
    BY <1>3
  <2>2. l[i][2] <= n /\ \A q \in Ports : s[q] # 0 =>
          l[i][2] # s[q] /\ (l[i][1] = q => l[i][2] < s[q])
    BY DEF DeliveredBefore
  <2> HIDE DEF OrderInv, DeliveryTypes
  <2> QED
    BY <1>1, <2>1, <2>2
<1> QED
  BY <1>2, <1>4, <1>5 DEF s2

\* Serving one connection ends: fewer are served, and what was delivered stays.
LEMMA EndOfServing ==
  ASSUME NEW n, NEW s, NEW l, OrderInv(n, s, l), NEW p \in Ports,
         NEW s2, s2 = [s EXCEPT ![p] = 0]
  PROVE  /\ s2 \in [Ports -> Nat] /\ ServedOnce(n, s2)
         /\ \A q \in Ports : s2[q] # 0 => q # p /\ s2[q] = s[q]
<1> USE DEF OrderInv, DeliveryTypes
<1>1. \A q \in Ports : s2[q] = IF q = p THEN 0 ELSE s[q]
  OBVIOUS
<1> QED
  BY <1>1 DEF ServedOnce

LEMMA DropKeepsOrder ==
  ASSUME NEW n, NEW s, NEW l, OrderInv(n, s, l), NEW p \in Ports
  PROVE  OrderInv(n, [s EXCEPT ![p] = 0], l)
<1> DEFINE s2 == [s EXCEPT ![p] = 0]
<1>1. /\ s2 \in [Ports -> Nat] /\ ServedOnce(n, s2)
      /\ \A q \in Ports : s2[q] # 0 => q # p /\ s2[q] = s[q]
  BY EndOfServing
<1> HIDE DEF s2
<1>2. DeliveryTypes(n, s2, l)
  BY <1>1 DEF OrderInv, DeliveryTypes
<1>3. DeliveredBefore(n, s2, l)
  BY <1>1 DEF OrderInv, DeliveredBefore
<1> QED
  BY <1>1, <1>2, <1>3 DEF OrderInv, s2

LEMMA DeliverKeepsOrder ==
  ASSUME NEW n, NEW s, NEW l, OrderInv(n, s, l), NEW p \in Ports, s[p] # 0
  PROVE  OrderInv(n, [s EXCEPT ![p] = 0], Append(l, <<p, s[p]>>))
<1> DEFINE s2 == [s EXCEPT ![p] = 0]
           l2 == Append(l, <<p, s[p]>>)
           e == Len(l)
<1>1. /\ s2 \in [Ports -> Nat] /\ ServedOnce(n, s2)
      /\ \A q \in Ports : s2[q] # 0 => q # p /\ s2[q] = s[q]
  <2>1. s2 = [s EXCEPT ![p] = 0]
    OBVIOUS
  <2> HIDE DEF s2, l2, e
  <2> QED
    BY <2>1, EndOfServing
<1>2. <<p, s[p]>> \in Ports \X Nat
  BY DEF OrderInv, DeliveryTypes
<1>3. /\ l2 \in Seq(Ports \X Nat) /\ e \in Nat /\ Len(l2) = e + 1
      /\ l2[e + 1] = <<p, s[p]>>
      /\ \A i \in 1..e : l2[i] = l[i] /\ l[i] \in Ports \X Nat
  BY <1>2 DEF OrderInv, DeliveryTypes
<1> HIDE DEF s2, l2, e
<1>4. \A i \in 1..Len(l2) : i \in 1..e \/ i = e + 1
  BY <1>3
<1>5. 1..e = 1..Len(l)
  BY DEF e
<1>6. \A i \in 1..e : l[i][2] # s[p] /\ (l[i][1] = p => l[i][2] < s[p])
  BY <1>5 DEF OrderInv, DeliveredBefore
<1>7. DeliveryTypes(n, s2, l2)
  BY <1>1, <1>3 DEF OrderInv, DeliveryTypes
<1>8. DeliveredBefore(n, s2, l2)
  <2> SUFFICES ASSUME NEW i \in 1..Len(l2)
               PROVE  /\ l2[i][2] <= n
                      /\ \A q \in Ports : s2[q] # 0 =>
                           /\ l2[i][2] # s2[q]
                           /\ l2[i][1] = q => l2[i][2] < s2[q]
    BY DEF DeliveredBefore
  <2>1. CASE i \in 1..e
    <3>1. /\ l[i][2] <= n
          /\ \A q \in Ports : s[q] # 0 =>
               l[i][2] # s[q] /\ (l[i][1] = q => l[i][2] < s[q])
      BY <1>5, <2>1 DEF OrderInv, DeliveredBefore
    <3>2. l2[i] = l[i]
      BY <1>3, <2>1
    <3> QED
      BY <1>1, <3>1, <3>2
  <2>2. CASE i = e + 1
    <3>1. l2[i][1] = p /\ l2[i][2] = s[p]
      BY <1>3, <2>2
    <3> QED
      BY <1>1, <3>1 DEF OrderInv, ServedOnce
  <2> QED
    BY <1>4, <2>1, <2>2
<1>9. InOrder(l2)
  <2> SUFFICES ASSUME NEW i \in 1..Len(l2), NEW j \in 1..Len(l2), i < j
               PROVE  /\ l2[i][2] # l2[j][2]
                      /\ l2[i][1] = l2[j][1] => l2[i][2] < l2[j][2]
    BY DEF InOrder
  <2>1. i \in 1..e
    BY <1>3
  <2>2. CASE j \in 1..e
    <3>1. l2[i] = l[i] /\ l2[j] = l[j]
      BY <1>3, <2>1, <2>2
    <3>2. i \in 1..Len(l) /\ j \in 1..Len(l)
      BY <1>5, <2>1, <2>2
    <3> QED
      BY <3>1, <3>2 DEF OrderInv, InOrder
  <2>3. CASE j = e + 1
    <3>1. l2[j][1] = p /\ l2[j][2] = s[p] /\ l2[i] = l[i]
      BY <1>3, <2>1, <2>3
    <3> QED
      BY <1>6, <2>1, <3>1
  <2> QED
    BY <1>4, <2>2, <2>3
<1> QED
  BY <1>1, <1>7, <1>8, <1>9 DEF OrderInv, s2, l2

(* Whatever implements IndicationDelivery calls back in the order of the   *)
(* connections, once for each: sendIndicationInstance under                *)
(* establish_listener (indicationlistener.c).                              *)
THEOREM OrderPromised == Delivery!Spec => []DeliveredInOrder
<1> DEFINE Inv == OrderInv(accepted, Served, log)
<1>1. Delivery!Init => Inv
  BY DEF Delivery!Init, Served, OrderInv, DeliveryTypes, ServedOnce, DeliveredBefore, InOrder
<1>2. Inv => DeliveredInOrder
  BY DEF OrderInv, InOrder, DeliveredInOrder
<1>3. Inv /\ [Delivery!Next]_(Delivery!vars) => Inv'
  <2> SUFFICES ASSUME Inv, [Delivery!Next]_(Delivery!vars)
               PROVE  Inv'
    OBVIOUS
  <2>1. ASSUME NEW p \in Ports, Delivery!Take(p)
        PROVE  Inv'
    <3>1. accepted' = accepted + 1 /\ Served' = [Served EXCEPT ![p] = accepted + 1] /\ log' = log
      BY <2>1 DEF Delivery!Take, Served
    <3> QED
      BY <3>1, TakeKeepsOrder
  <2>2. ASSUME NEW p \in Ports, Delivery!Deliver(p)
        PROVE  Inv'
    <3>1. /\ accepted' = accepted /\ Served' = [Served EXCEPT ![p] = 0] /\ Served[p] # 0
          /\ log' = Append(log, <<p, Served[p]>>)
      BY <2>2 DEF Delivery!Deliver, Served
    <3> QED
      BY <3>1, DeliverKeepsOrder
  <2>3. ASSUME NEW p \in Ports, Delivery!Drop(p)
        PROVE  Inv'
    <3>1. accepted' = accepted /\ Served' = [Served EXCEPT ![p] = 0] /\ log' = log
      BY <2>3 DEF Delivery!Drop, Served
    <3> QED
      BY <3>1, DropKeepsOrder
  <2>4. CASE Delivery!GoDown \/ UNCHANGED Delivery!vars
    <3>1. accepted' = accepted /\ Served' = Served /\ log' = log
      BY <2>4 DEF Delivery!GoDown, Delivery!vars, Served
    <3> QED
      BY <3>1
  <2> QED
    BY <2>1, <2>2, <2>3, <2>4 DEF Delivery!Next
<1> QED
  BY <1>1, <1>2, <1>3, PTL DEF Delivery!Spec

(* Callbacks of a port come in the order its connections were accepted and *)
(* no connection is called back for twice, because it is so wherever       *)
(* IndicationDelivery is kept.                                             *)
THEOREM CallbacksInOrder == Spec => []DeliveredInOrder
BY ListenerDelivers, OrderPromised, PTL DEF DeliverySpec
=============================================================================
