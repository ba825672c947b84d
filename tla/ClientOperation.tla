-------------------------- MODULE ClientOperation --------------------------
(***************************************************************************)
(* The operations of the CIM-XML client (client.c) on one connection, and  *)
(* who owns what they allocate.                                            *)
(*                                                                         *)
(* Every operation follows one pattern: build the request, send it and     *)
(* collect the response in the connection, look at the status that came    *)
(* in the HTTP headers, scan the response, and turn the elements found     *)
(* into a result; each of these can end it early.  The pattern is repeated *)
(* by hand in every function and differs in what is released on each way   *)
(* out, so a function is modelled by the steps it takes: the operators of  *)
(* the section "The operations" are those programs, and an action takes    *)
(* the first of the steps in todo.                                         *)
(*                                                                         *)
(* Of the request only the arguments of invokeMethod are looked at, and of *)
(* the response what kind it is; ResponseScan has the scan itself,         *)
(* TransferTimeout what aborts a transfer.                                 *)
(***************************************************************************)
EXTENDS Naturals, Sequences

CONSTANTS
  Ops,         \* the operations that are called, a subset of AllOps
  LaterOps,    \* bound: those called on a connection that was used before
  Bodies,      \* the kinds of responses servers send, a subset of AllBodies
  MaxCalls,    \* bound: calls of operations
  MaxHeaders,  \* bound: CIM status headers in a response
  NULL

EnumOps == {"execQuery", "enumInstanceNames", "enumInstances", "associators",
            "associatorNames", "references", "referenceNames",
            "enumClassNames", "enumClasses"}
ObjectOps == {"getInstance", "getClass", "createInstance"}
StatusOps == {"setInstance", "deleteInstance", "setProperty"}
DataOps == {"getProperty", "invokeMethod"}
AllOps == EnumOps \cup ObjectOps \cup StatusOps \cup DataOps

\* "error0" is an ERROR element whose CODE is no number, "outArgs" a method
\* response with out parameters; after "unreadable" the scan ends the process.
AllBodies == {"elements", "empty", "error", "error0", "outArgs", "unreadable"}

\* The pointers of an operation.
Locals == {"sb", "error", "rvArray", "description", "outArgs", "result",
           "cn", "cv", "argname", "text"}

\* An object is known by the call that allocated it and what it is; a
\* response may bring more than one message.
Objects == (1 .. MaxCalls) \X (Locals \cup {"element", "cop", "headerMsg", "statusMsg"})
             \X (0 .. MaxHeaders)

\* What is expected of the constants.
OpsAssumption ==
  /\ LaterOps \subseteq Ops /\ Ops \subseteq AllOps /\ Bodies \subseteq AllBodies
  /\ MaxCalls \in Nat /\ MaxHeaders \in Nat
  /\ NULL \notin AllBodies /\ NULL \notin Objects

VARIABLES
  con,     \* CMCIConnection
  todo,    \* steps the operation has yet to take, empty between operations
  locals,  \* the operation's own pointers
  heap,    \* the objects that are allocated
  theirs,  \* the objects the caller has been given and not yet released
  answer,  \* what the operation reports: status, its text, and a result
  fault,   \* "none", or why the process can not go on
  calls,   \* history: the operations called and how each of them ended
  wire     \* history: what the operation under way was given and received

vars == <<con, todo, locals, heap, theirs, answer, fault, calls, wire>>

Now == Len(calls)
Op == calls[Now].op

Object(kind) == <<Now, kind, 0>>

\* An array owns its elements (array.c); one stands for all of them.
Element(array) == <<array[1], "element", 0>>
Parts(object) ==
  IF object[2] = "rvArray" THEN {object, Element(object)} ELSE {object}

----------------------------------------------------------------------------
(* The operations.                                                         *)

New(v) == <<"new", v>>
Free(v) == <<"free", v>>
Hand(v) == <<"hand", v>>
Step(name) == <<name, <<>>>>
OrElse(name, exit) == <<name, exit>>     \* the step may end the operation
Return(how) == <<"return", how>>

\* error || getResponse(): FAILED with the text.
TransportExit ==
  <<Step("setFailed"), Free("error"), Free("sb"), Return("transport")>>

\* Mutant: a status in the headers leaves the request behind.
HeaderExit_KeepsRequest == <<Step("cloneStatus"), Return("header")>>

\* con->mStatus.rc != CMPI_RC_OK
HeaderExit == <<Step("cloneStatus"), Free("sb"), Return("header")>>

\* rh.errCode != 0
ErrorExit ==
  <<Step("setError"), Free("description"), Free("rvArray"), Return("error")>>

Exchange(building, transportExit, errorExit) ==
  <<New("sb"), Step("genRequest")>> \o building \o
  <<OrElse("addPayload", transportExit),
    OrElse("getResponse", transportExit),
    OrElse("checkStatus", HeaderExit),
    Free("sb"),
    Step("scanCimXmlResponse"),
    OrElse("checkError", errorExit)>>

Temporary(v) == <<New(v), Free(v)>>

\* newCMPIEnumeration() takes the array over.
Enumeration == <<Step("setOK"), Hand("rvArray"), Return("ok")>>

Clone(step) ==
  <<Step("setOK"), Step(step), Free("rvArray"), Hand("result"), Return("ok")>>

Usual == Exchange(<<>>, TransportExit, ErrorExit)

enumInstanceNames == Usual \o Enumeration
execQuery == Usual \o Enumeration
enumInstances == Usual \o Enumeration
associators == Usual \o Enumeration
associatorNames == Usual \o Enumeration
referenceNames == Usual \o Enumeration
enumClassNames == Usual \o Enumeration
enumClasses == Usual \o Enumeration

\* The string buffer stays when the transport fails.
references ==
  Exchange(<<>>, <<Step("setFailed"), Free("error"), Return("transport")>>,
           ErrorExit) \o Enumeration

getInstance == Usual \o Clone("cloneFirst")
getClass == Usual \o Clone("cloneFirst")

\* The reference is not cloned, so the array that holds it must stay.
createInstance == Usual \o <<Step("setOK"), Step("takeFirst"), Return("ok")>>

\* addXmlNamedInstance() keeps the class name, and a good response stays.
setInstance ==
  Exchange(<<New("cn")>>, TransportExit, ErrorExit) \o
  <<Step("setOK"), Return("ok")>>

deleteInstance ==
  Exchange(Temporary("cn"), TransportExit, ErrorExit) \o
  <<Step("setOK"), Return("ok")>>

setProperty ==
  Exchange(Temporary("cv") \o Temporary("cn"), TransportExit, ErrorExit) \o
  <<Step("setOK"), Free("rvArray"), Return("ok")>>

getProperty ==
  Exchange(Temporary("cn"), TransportExit, ErrorExit) \o Clone("cloneValue")

\* An argument of a type that can not be sent ends it before anything is.
invokeMethod ==
  Exchange(Temporary("cn") \o
           <<OrElse("inArguments", <<New("argname"), New("text"),
                     Step("setUnsupported"), Return("argument")>>)>>,
           TransportExit,
           <<Step("setError"), Free("description"), Free("rvArray"),
             Free("outArgs"), Return("error")>>) \o
  <<Step("outArguments")>> \o Clone("cloneValue")

Program(op) ==
  CASE op = "enumInstanceNames" -> enumInstanceNames
    [] op = "execQuery" -> execQuery
    [] op = "enumInstances" -> enumInstances
    [] op = "associators" -> associators
    [] op = "associatorNames" -> associatorNames
    [] op = "references" -> references
    [] op = "referenceNames" -> referenceNames
    [] op = "enumClassNames" -> enumClassNames
    [] op = "enumClasses" -> enumClasses
    [] op = "getInstance" -> getInstance
    [] op = "getClass" -> getClass
    [] op = "createInstance" -> createInstance
    [] op = "setInstance" -> setInstance
    [] op = "deleteInstance" -> deleteInstance
    [] op = "setProperty" -> setProperty
    [] op = "getProperty" -> getProperty
    [] op = "invokeMethod" -> invokeMethod

----------------------------------------------------------------------------
(* The connection and the caller.                                          *)

NoWire == [argument |-> "none", headers |-> <<>>, body |-> NULL, end |-> "none"]
NoAnswer == [wanted |-> TRUE, rc |-> "none", text |-> NULL, msg |-> NULL, result |-> NULL]
NoLocals == [v \in Locals |-> NULL]

\* mHandle is NULL if curl_easy_init() failed, which xmlConnect2 ignores.
Init ==
  /\ con \in [mHandle : BOOLEAN, rc : {0}, msg : {NULL}, mResponse : {<<>>},
              posted : {NULL}, open : {TRUE}]
  /\ todo = <<>> /\ locals = NoLocals
  /\ heap = {} /\ theirs = {}
  /\ answer = NoAnswer /\ fault = "none"
  /\ calls = <<>> /\ wire = NoWire

Idle == todo = <<>> /\ fault = "none"

\* The caller may pass no address for the status, where there is a parameter.
Call(op) ==
  /\ Idle /\ con.open /\ Now < MaxCalls
  /\ Now > 0 => op \in LaterOps
  /\ todo' = Program(op)
  /\ locals' = NoLocals
  /\ \E wanted \in IF op \in StatusOps THEN {TRUE} ELSE BOOLEAN :
       answer' = [NoAnswer EXCEPT !.wanted = wanted]
  /\ calls' = Append(calls, [op |-> op, ended |-> "running"])
  /\ wire' = NoWire
  /\ UNCHANGED <<con, heap, theirs, fault>>

\* free() or CMRelease() of what a pointer points to, and of all it owns.
Release(object) ==
  IF object = NULL THEN UNCHANGED <<heap, fault>>
  ELSE /\ heap' = heap \ Parts(object)
       /\ fault' = IF object \in heap THEN fault ELSE "released"

CallerReleases(object) ==
  /\ Idle
  /\ object \in theirs
  /\ theirs' = theirs \ {object}
  /\ Release(object)
  /\ UNCHANGED <<con, todo, locals, answer, calls, wire>>

\* releaseClient() and releaseConnection().
releaseClient ==
  /\ Idle /\ con.open
  /\ Release(con.msg)
  /\ con' = [con EXCEPT !.open = FALSE, !.msg = NULL]
  /\ UNCHANGED <<todo, locals, theirs, answer, calls, wire>>

----------------------------------------------------------------------------
(* The steps.                                                              *)

Doing(name) == todo # <<>> /\ fault = "none" /\ Head(todo)[1] = name
Given == Head(todo)[2]
Proceed == todo' = Tail(todo)
Leave == todo' = Given

Allocate(v) ==
  /\ heap' = heap \cup {Object(v)}
  /\ locals' = [locals EXCEPT ![v] = Object(v)]

NewStep ==
  /\ Doing("new") /\ Proceed
  /\ Allocate(Given)
  /\ UNCHANGED <<con, theirs, answer, fault, calls, wire>>

FreeStep ==
  /\ Doing("free") /\ Proceed
  /\ Release(locals[Given])
  /\ UNCHANGED <<con, locals, theirs, answer, calls, wire>>

ReturnStep ==
  /\ Doing("return") /\ Proceed
  /\ calls' = [calls EXCEPT ![Now].ended = Given]
  /\ locals' = NoLocals
  /\ UNCHANGED <<con, heap, theirs, answer, fault, wire>>

\* Mutant: the status of the response before stays.
ResetConnection_KeepsStatus == [con EXCEPT !.mResponse = <<>>]

\* Mutant: the response before stays.
ResetConnection_KeepsResponse == [con EXCEPT !.rc = 0, !.msg = NULL]

\* Without a handle genRequest() returns at once; no caller looks.  The
\* message of an earlier response is forgotten, not released.
ResetConnection ==
  [con EXCEPT !.rc = 0, !.msg = NULL, !.mResponse = <<>>]

genRequest ==
  /\ Doing("genRequest") /\ Proceed
  /\ con' = IF con.mHandle THEN ResetConnection ELSE con
  /\ UNCHANGED <<locals, heap, theirs, answer, fault, calls, wire>>

\* The switch of invokeMethod on the types of its arguments, for one of them.
\* An instance is sent under a path addXmlInstance() gets and never releases.
InArguments ==
  /\ Doing("inArguments")
  /\ \E argument \in {"plain", "instance", "unsupported"} :
       /\ wire' = [wire EXCEPT !.argument = argument]
       /\ IF argument = "unsupported" THEN Leave ELSE Proceed
       /\ heap' = IF argument = "instance" THEN heap \cup {Object("cop")} ELSE heap
  /\ UNCHANGED <<con, locals, theirs, answer, fault, calls>>

\* An error text is a string of its own, in the local variable error.
Failed(text) ==
  /\ Leave
  /\ Allocate("error")
  /\ wire' = [wire EXCEPT !.end = text]
  /\ UNCHANGED <<con, theirs, answer, calls>>

\* libcurl refuses options without a handle.  It does not copy the request.
addPayload ==
  /\ Doing("addPayload")
  /\ \/ ~con.mHandle /\ Failed("no handle")
     \/ /\ con.mHandle /\ Proceed
        /\ con' = [con EXCEPT !.posted = locals["sb"]]
        /\ UNCHANGED <<locals, heap, theirs, answer, calls, wire>>
  /\ UNCHANGED fault

\* A CIMStatusCode header (with 0 for a text that is no number), or a
\* description, which replaces the one before it; before the body or as a
\* trailer after it.
writeHeaders ==
  /\ Doing("getResponse")
  /\ Len(wire.headers) < MaxHeaders
  /\ \E header \in {"code", "zero", "description"} :
       LET message == <<Now, "headerMsg", Len(wire.headers)>> IN
       /\ wire' = [wire EXCEPT !.headers = Append(@, header)]
       /\ IF header = "description"
            THEN /\ con' = [con EXCEPT !.msg = message]
                 /\ heap' = heap \cup {message}
            ELSE /\ con' = [con EXCEPT !.rc = IF header = "code" THEN 1 ELSE 0]
                 /\ UNCHANGED heap
  /\ UNCHANGED <<todo, locals, theirs, answer, fault, calls>>

writeCb ==
  /\ Doing("getResponse")
  /\ wire.body = NULL
  /\ \E body \in Bodies :
       /\ body = "outArgs" => Op = "invokeMethod"
       /\ wire' = [wire EXCEPT !.body = body]
       /\ con' = [con EXCEPT !.mResponse = Append(@, body)]
  /\ UNCHANGED <<todo, locals, heap, theirs, answer, fault, calls>>

\* How curl_easy_perform() may end: well, aborted by checkProgress, without
\* or with a broken connection, or with an HTTP error, 401 or another.  libcurl
\* reads the request while it runs.
getResponse ==
  /\ Doing("getResponse")
  /\ fault' = IF con.posted \in heap THEN fault ELSE "released"
  /\ \/ \E text \in {"timeout", "failed", "unauthorized"} : Failed(text)
     \/ /\ con.mResponse = <<>>
        /\ Failed("no data")
     \/ /\ con.mResponse # <<>>
        /\ Proceed
        /\ wire' = [wire EXCEPT !.end = "ok"]
        /\ UNCHANGED <<con, locals, heap, theirs, answer, calls>>

checkStatus ==
  /\ Doing("checkStatus")
  /\ IF con.rc # 0 THEN Leave ELSE Proceed
  /\ UNCHANGED <<con, locals, heap, theirs, answer, fault, calls, wire>>

\* What the scan of the response finds; errCode is 0 unless there is an error.
Scanned == Head(con.mResponse)
HasElement == Element(locals["rvArray"]) \in heap

scanCimXmlResponse ==
  /\ Doing("scanCimXmlResponse") /\ Proceed
  /\ LET found ==
           CASE Scanned \in {"error", "error0"} -> {"rvArray", "description"}
             [] Scanned = "outArgs" -> {"rvArray", "element", "outArgs"}
             [] Scanned = "elements" -> {"rvArray", "element"}
             [] OTHER -> {"rvArray"}
     IN IF Scanned = "unreadable"
          THEN fault' = "exited" /\ UNCHANGED <<heap, locals>>
          ELSE /\ heap' = heap \cup {Object(v) : v \in found}
               /\ locals' = [v \in Locals |->
                               IF v \in found THEN Object(v) ELSE locals[v]]
               /\ UNCHANGED fault
  /\ UNCHANGED <<con, theirs, answer, calls, wire>>

checkError ==
  /\ Doing("checkError")
  /\ IF Scanned = "error" THEN Leave ELSE Proceed
  /\ UNCHANGED <<con, locals, heap, theirs, answer, fault, calls, wire>>

\* CMSetStatusWithChars() makes a string of its own, if a status is wanted.
Report(rc, text) ==
  IF answer.wanted
    THEN /\ answer' = [answer EXCEPT !.rc = rc, !.text = text, !.msg = Object("statusMsg")]
         /\ heap' = heap \cup {Object("statusMsg")}
         /\ theirs' = theirs \cup {Object("statusMsg")}
    ELSE UNCHANGED <<answer, heap, theirs>>

SetFailed ==
  /\ Doing("setFailed") /\ Proceed
  /\ Report("failed", wire.end)
  /\ UNCHANGED <<con, locals, fault, calls, wire>>

SetUnsupported ==
  /\ Doing("setUnsupported") /\ Proceed
  /\ Report("failed", "unsupported")
  /\ UNCHANGED <<con, locals, fault, calls, wire>>

SetError ==
  /\ Doing("setError") /\ Proceed
  /\ Report("error", "error")
  /\ UNCHANGED <<con, locals, fault, calls, wire>>

\* Mutant: the caller gets the message of the connection.
cloneStatus_Shares ==
  /\ Doing("cloneStatus") /\ Proceed
  /\ answer' = IF answer.wanted
                 THEN [answer EXCEPT !.rc = "header", !.msg = con.msg,
                         !.text = IF con.msg # NULL THEN "description" ELSE NULL]
                 ELSE answer
  /\ theirs' = IF answer.wanted THEN theirs \cup ({con.msg} \ {NULL}) ELSE theirs
  /\ UNCHANGED <<con, locals, heap, fault, calls, wire>>

\* A description of the headers is cloned, for the connection keeps its own.
cloneStatus ==
  /\ Doing("cloneStatus") /\ Proceed
  /\ IF con.msg # NULL THEN Report("header", "description")
     ELSE /\ answer' = IF answer.wanted THEN [answer EXCEPT !.rc = "header"] ELSE answer
          /\ UNCHANGED <<heap, theirs>>
  /\ UNCHANGED <<con, locals, fault, calls, wire>>

SetOK ==
  /\ Doing("setOK") /\ Proceed
  /\ answer' = IF answer.wanted THEN [answer EXCEPT !.rc = "ok"] ELSE answer
  /\ UNCHANGED <<con, locals, heap, theirs, fault, calls, wire>>

HandStep ==
  /\ Doing("hand") /\ Proceed
  /\ answer' = [answer EXCEPT !.result = locals[Given]]
  /\ theirs' = theirs \cup ({locals[Given]} \ {NULL})
  /\ UNCHANGED <<con, locals, heap, fault, calls, wire>>

\* The first element, of which getElementAt() gives a null pointer if there is
\* none: cloning it ends the process.
CloneFirst ==
  /\ Doing("cloneFirst") /\ Proceed
  /\ IF HasElement THEN Allocate("result") /\ UNCHANGED fault
     ELSE /\ fault' = IF Object("rvArray") \in heap THEN "null" ELSE "released"
          /\ UNCHANGED <<heap, locals>>
  /\ UNCHANGED <<con, theirs, answer, calls, wire>>

\* native_clone_CMPIValue() of no element is a value that needs no memory.
CloneValue ==
  /\ Doing("cloneValue") /\ Proceed
  /\ IF HasElement THEN Allocate("result") ELSE UNCHANGED <<heap, locals>>
  /\ UNCHANGED <<con, theirs, answer, fault, calls, wire>>

\* The caller gets the element itself, or a null pointer.
TakeFirst ==
  /\ Doing("takeFirst") /\ Proceed
  /\ IF HasElement
       THEN /\ answer' = [answer EXCEPT !.result = Element(locals["rvArray"])]
            /\ theirs' = theirs \cup {Element(locals["rvArray"])}
       ELSE UNCHANGED <<answer, theirs>>
  /\ UNCHANGED <<con, locals, heap, fault, calls, wire>>

\* Out parameters are copied to the caller's arguments and released, unless
\* the caller gave none to copy them to.
OutArguments ==
  /\ Doing("outArguments") /\ Proceed
  /\ \E out \in BOOLEAN :
       IF out THEN Release(locals["outArgs"]) ELSE UNCHANGED <<heap, fault>>
  /\ UNCHANGED <<con, locals, theirs, answer, calls, wire>>

Next ==
  \/ \E op \in Ops : Call(op)
  \/ \E object \in theirs : CallerReleases(object)
  \/ releaseClient
  \/ NewStep \/ FreeStep \/ ReturnStep \/ HandStep
  \/ genRequest \/ InArguments \/ addPayload
  \/ writeHeaders \/ writeCb \/ getResponse
  \/ checkStatus \/ scanCimXmlResponse \/ checkError
  \/ SetFailed \/ SetUnsupported \/ SetError \/ cloneStatus \/ SetOK
  \/ CloneFirst \/ CloneValue \/ TakeFirst \/ OutArguments

Spec == Init /\ [][Next]_vars

----------------------------------------------------------------------------
(* Properties.                                                             *)

\* The types of the variables; the connection holds one response at most.
TypeOK ==
  /\ con \in [mHandle : BOOLEAN, rc : {0, 1}, msg : Objects \cup {NULL},
              mResponse : {<<>>} \cup {<<body>> : body \in Bodies},
              posted : Objects \cup {NULL}, open : BOOLEAN]
  /\ locals \in [Locals -> Objects \cup {NULL}]
  /\ heap \subseteq Objects /\ theirs \subseteq Objects
  /\ answer.wanted \in BOOLEAN
  /\ answer.rc \in {"none", "ok", "failed", "header", "error"}
  /\ answer.result \in Objects \cup {NULL}
  /\ fault \in {"none", "released", "null", "exited"}

Returned == Idle /\ calls # <<>>

\* The last code in the headers is not zero.
Refused ==
  \E i \in DOMAIN wire.headers :
    /\ wire.headers[i] = "code"
    /\ \A j \in DOMAIN wire.headers : j > i => wire.headers[j] = "description"
Described == \E i \in DOMAIN wire.headers : wire.headers[i] = "description"

\* What the exchange means: the first of these that went wrong.
Verdict ==
  IF wire.argument = "unsupported" THEN <<"failed", "unsupported">>
  ELSE IF wire.end # "ok" THEN <<"failed", wire.end>>
  ELSE IF Refused THEN <<"header", IF Described THEN "description" ELSE NULL>>
  ELSE IF wire.body = "error" THEN <<"error", "error">>
  ELSE <<"ok", NULL>>

\* An operation reports what came of its own exchange, however the operations
\* before it on the connection ended: the transport's failure before a status
\* in the headers, that before an error in the response; and it gives a result
\* only if there is nothing to report.
AnswersThisExchange ==
  Returned =>
    /\ answer.wanted => answer.rc = Verdict[1] /\ answer.text = Verdict[2]
    /\ answer.result # NULL =>
         Verdict[1] = "ok" /\ Op \notin StatusOps
    /\ Verdict[1] = "ok" /\ Op \notin StatusOps /\ wire.body \in {"elements", "outArgs"}
         => answer.result # NULL

\* Nothing is used or released after it was released, neither by the operation
\* nor by libcurl, nor by the caller who releases each thing it was given once,
\* before the client or after it.
NoUseAfterRelease == fault # "released"

\* The operations, with the way they end, that do leave something behind.
Forgotten ==
  {<<"references", "transport", "sb">>,
   <<"createInstance", "ok", "rvArray">>,
   <<"setInstance", "ok", "rvArray">>, <<"setInstance", "ok", "element">>,
   <<"deleteInstance", "ok", "rvArray">>, <<"deleteInstance", "ok", "element">>,
   <<"invokeMethod", "argument", "sb">>, <<"invokeMethod", "argument", "argname">>,
   <<"invokeMethod", "argument", "text">>, <<"invokeMethod", "ok", "outArgs">>}
  \cup ({"setInstance"} \X {"transport", "header", "error", "ok"} \X {"cn"})
  \cup ({"invokeMethod"} \X {"transport", "header", "error", "ok"} \X {"cop"})
  \* an ERROR element whose code is 0, and the description of a status in the
  \* headers that the next one or the next request replaces
  \cup (AllOps \X {"ok"} \X {"description"})
  \cup (AllOps \X {"transport", "header", "error", "ok"} \X {"headerMsg"})

\* Between operations everything that is allocated is the caller's or the
\* connection's, with these exceptions: nothing is lost on any way out of an
\* operation that was not found to lose it.
NothingLost ==
  Idle =>
    \A object \in heap \ (UNION {Parts(o) : o \in theirs} \cup {con.msg}) :
      LET call == calls[object[1]] IN <<call.op, call.ended, object[2]>> \in Forgotten

\* The manual page of createInstance: "When successful the
\* CMCIClientFT.createInstance() function returns a pointer to a
\* CMPIObjectPath object with the new instance reference".  The response may
\* have no element.
CreateInstanceReturnsReference ==
  Returned /\ Op = "createInstance" /\ answer.rc = "ok" => answer.result # NULL

============================================================================
