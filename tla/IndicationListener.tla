------------------------- MODULE IndicationListener -------------------------
(***************************************************************************)
(* The indication listener of the CIM-XML backend                          *)
(* (backend/cimxml/indicationlistener.c).                                  *)
(*                                                                         *)
(* The application creates listener objects, starts, stops and releases    *)
(* them.  start creates a thread nobody joins; the thread binds the port,  *)
(* then polls select and serves one connection at a time until it finds    *)
(* the process-wide flag do_listen cleared.  A served connection is one    *)
(* HTTP POST whose body is scanned and whose instance is passed to the     *)
(* callback of the listener.                                               *)
(*                                                                         *)
(* One variable per C variable that outlives a call; the variables "late", *)
(* "stopped" and "log" are history, written and never read by the actions. *)
(***************************************************************************)
EXTENDS Naturals, Sequences

CONSTANTS
  Listeners,   \* the CIMCIndicationListener objects the application allocates
  Threads,     \* the threads pthread_create may return
  Ports,       \* TCP ports
  PortOf,      \* the port each listener was created with
  Requests,    \* what a peer may send on one connection, see RequestSpace
  MaxConns,    \* bound: connections accepted in a behaviour
  NONE         \* no object, no port, no request

(* What the code tells apart in the input of one connection:               *)
(*   arrives - how getHdrs ends: the blank line is seen, 5000 bytes came   *)
(*             without one, nothing came for 5 seconds, the peer closed    *)
(*             at once, or the peer stays silent in mid-header;            *)
(*   line    - the request line: a POST, another method, or one without    *)
(*             the protocol word;                                          *)
(*   headers - the headers that change what the listener does, in order;   *)
(*   body    - whether Content-Length bytes ever come, or more than those  *)
(*             were read with the headers;                                 *)
(*   xml     - what scanning the body gives.                               *)
Headers == {"badHost", "expect", "length", "negativeLength"}
RequestSpace ==
  [ arrives : {"blank", "limit", "silent", "eof", "stall"},
    line    : {"post", "other", "noProtocol"},
    headers : Seq(Headers),
    body    : {"full", "short", "over"},
    xml     : {"instance", "noInstance", "error", "unparsable"} ]

ASSUME ListenerAssumption ==
  /\ PortOf \in [Listeners -> Ports]
  /\ Requests \subseteq RequestSpace
  /\ NONE \notin Listeners \cup Ports \cup Requests
  /\ MaxConns \in Nat

VARIABLES
  proc,        \* "running", or how the process ended
  do_listen,   \* the flag shared by every listener
  heap,        \* the listener objects: "none", "live" or "freed"
  pc,          \* where each thread is
  obj,         \* the listener a thread was started for
  port,        \* the port of the thread's listenFd, which is never closed
  conn,        \* the connection a thread serves
  accepted,    \* connections accepted so far, the source of their numbers
  late,        \* history: callbacks of a thread since do_listen was cleared
  stopped,     \* history: listeners whose last start/stop call was a stop
  log          \* history: <<port, connection number>> of every callback

vars == <<proc, do_listen, heap, pc, obj, port, conn, accepted, late, stopped, log>>

NoConn == [id |-> 0, req |-> NONE, hdrs |-> << >>, discard |-> 0,
           hasLength |-> FALSE, sent |-> << >>]

-----------------------------------------------------------------------------
Goto(t, from, to) == pc[t] = from /\ pc' = [pc EXCEPT ![t] = to]

(* exit() or a fatal signal: every thread is gone.                         *)
Exit(how) == proc' = how

(* genError writes one status line and no body.                            *)
Send(c, status) == [c EXCEPT !.sent = Append(@, status)]

(* Reading the listener object.  Once freed, its bytes may still be there  *)
(* or the read may kill the process.                                       *)
Readable(t) == heap[obj[t]] = "live"

-----------------------------------------------------------------------------
(* The application's calls.                                                *)

newCIMCIndicationListener(l) ==
  /\ heap[l] = "none"
  /\ heap' = [heap EXCEPT ![l] = "live"]
  /\ UNCHANGED <<proc, do_listen, pc, obj, port, conn, accepted, late, stopped, log>>

(* The thread id is dropped; the call returns before the thread runs.      *)
start(l) ==
  /\ heap[l] = "live"
  /\ do_listen' = TRUE
  /\ \E t \in Threads :
       /\ Goto(t, "none", "begin")
       /\ obj' = [obj EXCEPT ![t] = l]
  /\ late' = [t \in Threads |-> 0]
  /\ stopped' = stopped \ {l}
  /\ UNCHANGED <<proc, heap, port, conn, accepted, log>>

stop(l) ==
  /\ heap[l] = "live"
  /\ do_listen' = FALSE
  /\ stopped' = stopped \cup {l}
  /\ UNCHANGED <<proc, heap, pc, obj, port, conn, accepted, late, log>>

release(l) ==
  /\ heap[l] = "live"
  /\ heap' = [heap EXCEPT ![l] = "freed"]
  /\ UNCHANGED <<proc, do_listen, pc, obj, port, conn, accepted, late, stopped, log>>

-----------------------------------------------------------------------------
(* establish_listener: bind and listen, or exit(0) when the port is taken. *)
Bind(t) ==
  /\ pc[t] = "begin"
  /\ \E p \in IF Readable(t) THEN {PortOf[obj[t]]} ELSE Ports :
       \/ /\ \E s \in Threads : port[s] = p
          /\ Exit("exit0")
          /\ UNCHANGED <<pc, port>>
       \/ /\ \A s \in Threads : port[s] # p
          /\ port' = [port EXCEPT ![t] = p]
          /\ Goto(t, "begin", "loop")
          /\ UNCHANGED proc
       \/ /\ ~Readable(t)
          /\ Exit("crash")
          /\ UNCHANGED <<pc, port>>
  /\ UNCHANGED <<do_listen, heap, obj, conn, accepted, late, stopped, log>>

(* Variant of TestFlag: while (1).                                         *)
TestFlag_Forever(t) ==
  /\ Goto(t, "loop", "select")
  /\ UNCHANGED <<proc, do_listen, heap, obj, port, conn, accepted, late, stopped, log>>

(* while (do_listen)                                                       *)
TestFlag(t) ==
  /\ Goto(t, "loop", IF do_listen THEN "select" ELSE "ended")
  /\ UNCHANGED <<proc, do_listen, heap, obj, port, conn, accepted, late, stopped, log>>

(* select returns 0 after 3 seconds, or an error that is only logged.      *)
SelectEmpty(t) ==
  /\ Goto(t, "select", "loop")
  /\ UNCHANGED <<proc, do_listen, heap, obj, port, conn, accepted, late, stopped, log>>

Accept(t) ==
  /\ accepted < MaxConns
  /\ Goto(t, "select", "request")
  /\ accepted' = accepted + 1
  /\ \E r \in Requests :
       conn' = [conn EXCEPT ![t] = [NoConn EXCEPT !.id = accepted + 1, !.req = r,
                                                  !.hdrs = r.headers]]
  /\ UNCHANGED <<proc, do_listen, heap, obj, port, late, stopped, log>>

AcceptFails(t) ==
  /\ pc[t] = "select"
  /\ Exit("exit0")
  /\ UNCHANGED <<do_listen, heap, pc, obj, port, conn, accepted, late, stopped, log>>

-----------------------------------------------------------------------------
(* handleConnection, split where it may block on the peer or exit.         *)

(* getHdrs and the request line.  A peer that stalls blocks the thread.    *)
ReadHeaders(t) ==
  LET c == conn[t] IN
  /\ pc[t] = "request"
  /\ \/ /\ c.req.arrives = "silent"
        /\ conn' = [conn EXCEPT ![t] = Send(c, 400)]
        /\ Exit("exit1")
        /\ UNCHANGED pc
     \/ /\ c.req.arrives = "eof"
        /\ Exit("exit1")
        /\ UNCHANGED <<pc, conn>>
     \/ /\ c.req.arrives \in {"blank", "limit"}
        /\ conn' = [conn EXCEPT ![t] =
             CASE c.req.arrives = "limit" -> [Send(c, 400) EXCEPT !.discard = 2]
               [] c.req.arrives = "blank" /\ c.req.line = "other"
                    -> [Send(c, 501) EXCEPT !.discard = 1]
               [] OTHER -> c]
        /\ IF c.req.line = "noProtocol"
           THEN Exit("crash") /\ UNCHANGED pc
           ELSE Goto(t, "request", "headers") /\ UNCHANGED proc
  /\ UNCHANGED <<do_listen, heap, obj, port, accepted, late, stopped, log>>

(* Variants of Refuse: without the test of discardInput.                   *)
Refuse_Again(c, status) == [Send(c, status) EXCEPT !.discard = 2]
Refuse_Count(c, status) == [Send(c, status) EXCEPT !.discard = @ + 2]

(* One header line.  A refused request gets its answer at the first        *)
(* offending header, unless one was sent before.                           *)
Refuse(c, status) ==
  IF c.discard = 0 THEN [Send(c, status) EXCEPT !.discard = 2] ELSE c

ApplyHeader(c, h) ==
  CASE h = "badHost" -> Refuse(c, 400)
    [] h = "expect"  -> Refuse(c, 417)
    [] OTHER         -> [c EXCEPT !.hasLength = (h = "length")]

ParseHeader(t) ==
  /\ pc[t] = "headers"
  /\ conn[t].hdrs # << >>
  /\ conn' = [conn EXCEPT ![t] =
       [ApplyHeader(conn[t], Head(conn[t].hdrs)) EXCEPT !.hdrs = Tail(@)]]
  /\ UNCHANGED <<proc, do_listen, heap, pc, obj, port, accepted, late, stopped, log>>

(* Without a Content-Length the process answers, if it has not, and exits. *)
EndHeaders(t) ==
  /\ pc[t] = "headers"
  /\ conn[t].hdrs = << >>
  /\ IF conn[t].hasLength
     THEN Goto(t, "headers", "payload") /\ UNCHANGED <<proc, conn>>
     ELSE /\ conn' = IF conn[t].discard = 0
                     THEN [conn EXCEPT ![t] = Send(@, 411)] ELSE conn
          /\ Exit("exit1")
          /\ UNCHANGED pc
  /\ UNCHANGED <<do_listen, heap, obj, port, accepted, late, stopped, log>>

(* getPayload returns only when every byte came.  It copies all that was   *)
(* read with the headers, past the end of its block if that is more than   *)
(* Content-Length says.  200 is sent before the body is looked at.         *)
ReadPayload(t) ==
  /\ pc[t] = "payload"
  /\ conn[t].req.body \in {"full", "over"}
  /\ \/ /\ conn[t].discard # 0
        /\ Goto(t, "payload", "close")
        /\ UNCHANGED <<proc, conn>>
     \/ /\ conn[t].discard = 0
        /\ Goto(t, "payload", "scan")
        /\ conn' = [conn EXCEPT ![t] = Send(@, 200)]
        /\ UNCHANGED proc
     \/ /\ conn[t].req.body = "over"
        /\ Exit("crash")
        /\ UNCHANGED <<pc, conn>>
  /\ UNCHANGED <<do_listen, heap, obj, port, accepted, late, stopped, log>>

(* Variant of Scan: what is scanned after a stop is dropped.               *)
Scan_IfListening(t) ==
  /\ Goto(t, "scan", IF conn[t].req.xml = "instance" /\ do_listen THEN "callback" ELSE "close")
  /\ UNCHANGED <<proc, do_listen, heap, obj, port, conn, accepted, late, stopped, log>>

(* scanCimXmlResponse, one step because it runs under scan_mutex; the      *)
(* parser ends the process on a document it cannot parse.                  *)
Scan(t) ==
  LET xml == conn[t].req.xml IN
  /\ pc[t] = "scan"
  /\ IF xml = "unparsable"
     THEN Exit("exit0") /\ UNCHANGED pc
     ELSE Goto(t, "scan", IF xml = "instance" THEN "callback" ELSE "close") /\ UNCHANGED proc
  /\ UNCHANGED <<do_listen, heap, obj, port, conn, accepted, late, stopped, log>>

(* Variant of Callback: the instance is passed on twice.                   *)
Callback_Twice(t) ==
  /\ Goto(t, "callback", "close")
  /\ log' = log \o <<<<port[t], conn[t].id>>, <<port[t], conn[t].id>>>>
  /\ late' = IF do_listen THEN late ELSE [late EXCEPT ![t] = @ + 1]
  /\ UNCHANGED <<proc, do_listen, heap, obj, port, conn, accepted, stopped>>

(* i->sendIndicationInstance(clone)                                        *)
Callback(t) ==
  /\ pc[t] = "callback"
  /\ \/ /\ Goto(t, "callback", "close")
        /\ log' = Append(log, <<port[t], conn[t].id>>)
        /\ late' = IF do_listen THEN late ELSE [late EXCEPT ![t] = @ + 1]
        /\ UNCHANGED proc
     \/ /\ ~Readable(t)
        /\ Exit("crash")
        /\ UNCHANGED <<pc, late, log>>
  /\ UNCHANGED <<do_listen, heap, obj, port, conn, accepted, stopped>>

(* Variants of Close: back to select without testing the flag, and back to *)
(* the scan of the content just served.                                    *)
Close_Select(t) ==
  /\ Goto(t, "close", "select")
  /\ conn' = [conn EXCEPT ![t] = NoConn]
  /\ UNCHANGED <<proc, do_listen, heap, obj, port, accepted, late, stopped, log>>

Close_Rescan(t) ==
  /\ Goto(t, "close", "scan")
  /\ UNCHANGED <<proc, do_listen, heap, obj, port, conn, accepted, late, stopped, log>>

(* Back in establish_listener: close(connFd).                              *)
Close(t) ==
  /\ Goto(t, "close", "loop")
  /\ conn' = [conn EXCEPT ![t] = NoConn]
  /\ UNCHANGED <<proc, do_listen, heap, obj, port, accepted, late, stopped, log>>

-----------------------------------------------------------------------------
Init ==
  /\ proc = "running"
  /\ do_listen = TRUE
  /\ heap = [l \in Listeners |-> "none"]
  /\ pc = [t \in Threads |-> "none"]
  /\ obj = [t \in Threads |-> NONE]
  /\ port = [t \in Threads |-> NONE]
  /\ conn = [t \in Threads |-> NoConn]
  /\ accepted = 0
  /\ late = [t \in Threads |-> 0]
  /\ stopped = {}
  /\ log = << >>

Application(l) ==
  newCIMCIndicationListener(l) \/ start(l) \/ stop(l) \/ release(l)

start_listen_thread(t) ==
  \/ Bind(t) \/ TestFlag(t) \/ SelectEmpty(t) \/ Accept(t) \/ AcceptFails(t)
  \/ ReadHeaders(t) \/ ParseHeader(t) \/ EndHeaders(t) \/ ReadPayload(t)
  \/ Scan(t) \/ Callback(t) \/ Close(t)

Next ==
  /\ proc = "running"
  /\ \/ \E l \in Listeners : Application(l)
     \/ \E t \in Threads : start_listen_thread(t)

(* A thread that can run is eventually scheduled.  Nothing is assumed of   *)
(* the application or of the peers.                                        *)
Fairness == \A t \in Threads : WF_vars(proc = "running" /\ start_listen_thread(t))

Spec == Init /\ [][Next]_vars

FairSpec == Spec /\ Fairness

-----------------------------------------------------------------------------
PcValues == {"none", "begin", "loop", "select", "request", "headers", "payload",
             "scan", "callback", "close", "ended"}

Statuses == {200, 400, 411, 417, 501}

Conns == [ id : Nat, req : Requests \cup {NONE}, hdrs : Seq(Headers),
           discard : 0..2, hasLength : BOOLEAN, sent : Seq(Statuses) ]

(* Every variable keeps the values its C counterpart can hold, and the     *)
(* connection numbers and histories stay within the accepted connections.  *)
TypeOK ==
  /\ proc \in {"running", "exit0", "exit1", "crash"}
  /\ do_listen \in BOOLEAN
  /\ heap \in [Listeners -> {"none", "live", "freed"}]
  /\ pc \in [Threads -> PcValues]
  /\ obj \in [Threads -> Listeners \cup {NONE}]
  /\ port \in [Threads -> Ports \cup {NONE}]
  /\ conn \in [Threads -> Conns]
  /\ accepted \in 0..MaxConns
  /\ late \in [Threads -> Nat]
  /\ stopped \in SUBSET Listeners
  /\ log \in Seq((Ports \cup {NONE}) \X Nat)

(* A connection is answered at most once whatever headers come in whatever *)
(* order, an answer other than 200 rules out a callback, and no indication *)
(* is scanned or passed on before its 200 was sent: every path through     *)
(* handleConnection guards its genError by discardInput.                   *)
AnsweredOnce ==
  \A t \in Threads :
    /\ Len(conn[t].sent) <= 1
    /\ pc[t] \in {"scan", "callback"} => conn[t].sent = <<200>>
    /\ proc = "running" /\ pc[t] \in {"headers", "payload"} =>
         (conn[t].discard = 0 <=> conn[t].sent = << >>)

(* stop does not wait for the thread, but what it leaves behind is         *)
(* bounded: after the flag is cleared, and until a start sets it again,    *)
(* each thread calls back at most once more.                               *)
AtMostOneLate == ~do_listen => \A t \in Threads : late[t] <= 1

(* Callbacks of a port come in the order its connections were accepted,    *)
(* and no connection is called back for twice.                             *)
DeliveredInOrder ==
  \A i, j \in 1..Len(log) :
    i < j => /\ log[i][2] # log[j][2]
             /\ log[i][1] = log[j][1] => log[i][2] < log[j][2]

(* What the listener promises, without HTTP, sockets or flags: see         *)
(* IndicationDelivery.  A port is serving the connection its thread has    *)
(* not yet called back for.                                                *)
Undelivered == {"request", "headers", "payload", "scan", "callback"}

Serving(p) ==
  LET T == {t \in Threads : port[t] = p /\ pc[t] \in Undelivered}
  IN  IF T = {} THEN 0 ELSE conn[CHOOSE t \in T : TRUE].id

Delivery == INSTANCE IndicationDelivery
              WITH up <- (proc = "running"), taken <- accepted,
                   serving <- [p \in Ports |-> Serving(p)]

(* Every step of the threads and the application is a step of              *)
(* IndicationDelivery or leaves its state alone.                           *)
DeliverySpec == Delivery!Spec

(* A thread blocked on its peer: nothing bounds these reads.               *)
Stalled(t) ==
  \/ pc[t] = "request" /\ conn[t].req.arrives = "stall"
  \/ pc[t] = "payload" /\ conn[t].req.body = "short"

(* When the application stops listening for good, every thread leaves its  *)
(* loop, unless its peer never finishes a request.                         *)
StopQuiesces ==
  <>[](~do_listen) =>
    <>[](proc # "running" \/ \A t \in Threads : pc[t] \in {"none", "ended"} \/ Stalled(t))

(* An indication that was posted correctly is called back for, whatever    *)
(* the application does to the listener meanwhile, unless the process ends.*)
WellFormed(r) ==
  /\ r.arrives = "blank" /\ r.line = "post" /\ r.body = "full" /\ r.xml = "instance"
  /\ "length" \in {r.headers[i] : i \in DOMAIN r.headers}
  /\ \A i \in DOMAIN r.headers : r.headers[i] = "length"

PostsDelivered ==
  \A c \in 1..MaxConns :
    (\E t \in Threads : pc[t] = "request" /\ conn[t].id = c /\ WellFormed(conn[t].req))
      ~> (proc # "running" \/ \E i \in DOMAIN log : log[i][2] = c)

-----------------------------------------------------------------------------
(* What cimc/cimcft.h says of the functions, and the code does not do.     *)

(* "Stop listening.  @param il pointer to this indication listener": a     *)
(* thread leaves its loop only when its own listener was stopped.          *)
StopIsPerListener ==
  [][\A t \in Threads :
       pc[t] = "loop" /\ pc'[t] = "ended" => obj[t] \in stopped]_vars

(* "Start listening.  @param il pointer to this indication listener": a    *)
(* thread that was started for a listener that is there comes to listen    *)
(* when no other thread serves its port.                                   *)
Serves(s, p) == port[s] = p /\ pc[s] # "ended"

StartListens ==
  [][\A t \in Threads :
       /\ Bind(t) /\ Readable(t)
       /\ \A s \in Threads : ~Serves(s, PortOf[obj[t]])
       => proc' = "running"]_vars

(* "The indication listener object will not be used any further and may    *)
(* be freed": no thread is about to read an object that the application    *)
(* stopped and then released.                                              *)
ReleasedNotUsed ==
  proc = "running" =>
    \A t \in Threads : pc[t] \in {"begin", "callback"} /\ obj[t] \in stopped
                        => heap[obj[t]] # "freed"

=============================================================================
