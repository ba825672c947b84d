----------------------- MODULE ClientOperation_Proofs -----------------------
(***************************************************************************)
(* TLAPS proofs about ClientOperation, for any operations, responses,      *)
(* headers and number of calls.                                            *)
(*                                                                         *)
(* The steps of all programs have places in one order, and the steps an    *)
(* operation has yet to take are in that order: where the operation is     *)
(* says what was done.  On that stand the parts of OperationInv:           *)
(*   FlowInv    where the operation is, and how it will end                *)
(*   Types      the types of the variables                                 *)
(*   WireInv    what was sent and received so far fits the place           *)
(*   ConInv     the connection's status is that of this exchange           *)
(*   MemInv     which pointers are valid at which place, who owns what     *)
(*   AnswerInv  what has been reported at which place                      *)
(*   WasteInv   what is nobody's was forgotten, or is still to be freed    *)
(* Each of the parts has a lemma on what the steps do to it, and the       *)
(* theorems at the end are what the parts say between operations.          *)
(***************************************************************************)
EXTENDS ClientOperation, SequenceTheorems, TLAPS

----------------------------------------------------------------------------
(* The programs.  All of them, with their exits, follow one order, in      *)
(* which each step has a place; what a program is made of is a set.        *)

NewAt == [sb |-> 1, cv |-> 3, cn |-> 5, argname |-> 8, text |-> 9]
FreeAt == [cv |-> 4, cn |-> 6, error |-> 14, sb |-> 17, description |-> 21,
           rvArray |-> 25, outArgs |-> 26]
HandAt == [rvArray |-> 25, result |-> 27]
StepAt == [genRequest |-> 2, inArguments |-> 7, setUnsupported |-> 10,
           addPayload |-> 11, getResponse |-> 12, setFailed |-> 13,
           checkStatus |-> 15, cloneStatus |-> 16, scanCimXmlResponse |-> 18,
           checkError |-> 19, setError |-> 20, outArguments |-> 22, setOK |-> 23,
           cloneFirst |-> 24, cloneValue |-> 24, takeFirst |-> 25]
Last == 28

PlaceOf(s) ==
  IF s[1] = "new" THEN NewAt[s[2]]
  ELSE IF s[1] = "free" THEN FreeAt[s[2]]
  ELSE IF s[1] = "hand" THEN HandAt[s[2]]
  ELSE IF s[1] = "return" THEN Last
  ELSE StepAt[s[1]]

Endings == {"ok", "transport", "header", "error", "argument"}
Cloners == {"getInstance", "getClass"} \cup DataOps

\* The ways out of the operation op.
Exit(op, how) ==
  IF how = "transport"
    THEN IF op = "references" THEN <<Step("setFailed"), Free("error"), Return("transport")>>
         ELSE TransportExit
  ELSE IF how = "header" THEN HeaderExit
  ELSE IF how = "error"
    THEN IF op = "invokeMethod"
           THEN <<Step("setError"), Free("description"), Free("rvArray"),
                  Free("outArgs"), Return("error")>>
           ELSE ErrorExit
  ELSE <<New("argname"), New("text"), Step("setUnsupported"), Return("argument")>>

\* The steps that op takes if it ends so.
ExchangeSteps(op) ==
  {New("sb"), Step("genRequest"),
   OrElse("addPayload", Exit(op, "transport")), OrElse("getResponse", Exit(op, "transport")),
   OrElse("checkStatus", HeaderExit), Free("sb"), Step("scanCimXmlResponse"),
   OrElse("checkError", Exit(op, "error"))}

If(condition, steps) == IF condition THEN steps ELSE {}

BuildingSteps(op) ==
  If(op = "setProperty", {New("cv"), Free("cv")})
  \cup If(op \in {"setInstance", "deleteInstance", "setProperty"} \cup DataOps, {New("cn")})
  \cup If(op \in {"deleteInstance", "setProperty"} \cup DataOps, {Free("cn")})
  \cup If(op = "invokeMethod", {OrElse("inArguments", Exit(op, "argument"))})

ResultSteps(op) ==
  {Step("setOK"), Return("ok")}
  \cup If(op = "invokeMethod", {Step("outArguments")})
  \cup If(op \in {"getInstance", "getClass"}, {Step("cloneFirst")})
  \cup If(op \in DataOps, {Step("cloneValue")})
  \cup If(op = "createInstance", {Step("takeFirst")})
  \cup If(op \in Cloners \cup {"setProperty"}, {Free("rvArray")})
  \cup If(op \in EnumOps, {Hand("rvArray")})
  \cup If(op \in Cloners, {Hand("result")})

StepsOf(op, how) ==
  IF how = "ok" THEN ExchangeSteps(op) \cup BuildingSteps(op) \cup ResultSteps(op)
  ELSE IF how = "transport"
    THEN {Step("setFailed"), Free("error"), Return("transport")}
         \cup If(op # "references", {Free("sb")})
  ELSE IF how = "header" THEN {Step("cloneStatus"), Free("sb"), Return("header")}
  ELSE IF how = "error"
    THEN {Step("setError"), Free("description"), Free("rvArray"), Return("error")}
         \cup If(op = "invokeMethod", {Free("outArgs")})
  ELSE {New("argname"), New("text"), Step("setUnsupported"), Return("argument")}

\* The program p consists of the steps S, in their order.
Runs(p, S) ==
  /\ p \in Seq(S)
  /\ \A s \in S : \E k \in 1..Len(p) : p[k] = s
  /\ \A j, k \in 1..Len(p) : j < k => PlaceOf(p[j]) < PlaceOf(p[k])

\* p is what remains of a program that consists of the steps S.
Remains(p, S) ==
  /\ p \in Seq(S) /\ Len(p) > 0
  /\ \A s \in S : PlaceOf(s) >= PlaceOf(p[1]) => \E k \in 1..Len(p) : p[k] = s
  /\ \A j, k \in 1..Len(p) : j < k => PlaceOf(p[j]) < PlaceOf(p[k])

LEMMA Places ==
  /\ PlaceOf(New("sb")) = 1 /\ PlaceOf(Step("genRequest")) = 2
  /\ PlaceOf(New("cv")) = 3 /\ PlaceOf(Free("cv")) = 4
  /\ PlaceOf(New("cn")) = 5 /\ PlaceOf(Free("cn")) = 6
  /\ \A e : PlaceOf(OrElse("inArguments", e)) = 7
  /\ PlaceOf(New("argname")) = 8 /\ PlaceOf(New("text")) = 9
  /\ PlaceOf(Step("setUnsupported")) = 10
  /\ \A e : PlaceOf(OrElse("addPayload", e)) = 11
  /\ \A e : PlaceOf(OrElse("getResponse", e)) = 12
  /\ PlaceOf(Step("setFailed")) = 13 /\ PlaceOf(Free("error")) = 14
  /\ \A e : PlaceOf(OrElse("checkStatus", e)) = 15
  /\ PlaceOf(Step("cloneStatus")) = 16 /\ PlaceOf(Free("sb")) = 17
  /\ PlaceOf(Step("scanCimXmlResponse")) = 18
  /\ \A e : PlaceOf(OrElse("checkError", e)) = 19
  /\ PlaceOf(Step("setError")) = 20 /\ PlaceOf(Free("description")) = 21
  /\ PlaceOf(Step("outArguments")) = 22 /\ PlaceOf(Step("setOK")) = 23
  /\ PlaceOf(Step("cloneFirst")) = 24 /\ PlaceOf(Step("cloneValue")) = 24
  /\ PlaceOf(Step("takeFirst")) = 25 /\ PlaceOf(Free("rvArray")) = 25
  /\ PlaceOf(Hand("rvArray")) = 25 /\ PlaceOf(Free("outArgs")) = 26
  /\ PlaceOf(Hand("result")) = 27 /\ \A how : PlaceOf(Return(how)) = Last
  /\ Last = 28
BY DEF PlaceOf, New, Free, Hand, Step, OrElse, Return, NewAt, FreeAt, HandAt, StepAt, Last

LEMMA Join ==
  ASSUME NEW p, NEW q, NEW S, NEW T, Runs(p, S), Runs(q, T),
         \A s \in S, t \in T : PlaceOf(s) < PlaceOf(t)
  PROVE  Runs(p \o q, S \cup T)
<1> DEFINE pq == p \o q
<1>1. p \in Seq(S \cup T) /\ q \in Seq(S \cup T)
  BY DEF Runs
<1>2. /\ pq \in Seq(S \cup T)
      /\ Len(pq) = Len(p) + Len(q)
      /\ \A k \in 1..Len(pq) : pq[k] = IF k <= Len(p) THEN p[k] ELSE q[k - Len(p)]
  BY <1>1, ConcatProperties
<1>3. Len(p) \in Nat /\ Len(q) \in Nat
  BY <1>1
<1> HIDE DEF pq
<1>4. ASSUME NEW s \in S \cup T
      PROVE  \E k \in 1..Len(pq) : pq[k] = s
  <2>1. CASE s \in S
    <3>1. PICK k \in 1..Len(p) : p[k] = s
      BY <2>1 DEF Runs
    <3>2. k \in 1..Len(pq) /\ pq[k] = p[k]
      BY <1>2, <1>3, <3>1
    <3> QED
      BY <3>1, <3>2
  <2>2. CASE s \in T
    <3>1. PICK k \in 1..Len(q) : q[k] = s
      BY <2>2 DEF Runs
    <3>2. Len(p) + k \in 1..Len(pq) /\ pq[Len(p) + k] = q[k]
      BY <1>2, <1>3, <3>1
    <3> QED
      BY <3>1, <3>2
  <2> QED
    BY <2>1, <2>2
<1>5. ASSUME NEW j \in 1..Len(pq), NEW k \in 1..Len(pq), j < k
      PROVE  PlaceOf(pq[j]) < PlaceOf(pq[k])
  <2>1. CASE k <= Len(p)
    <3>1. j \in 1..Len(p) /\ k \in 1..Len(p) /\ pq[j] = p[j] /\ pq[k] = p[k]
      BY <1>2, <1>3, <1>5, <2>1
    <3> QED
      BY <1>5, <3>1 DEF Runs
  <2>2. CASE j <= Len(p) /\ k > Len(p)
    <3>1. j \in 1..Len(p) /\ k - Len(p) \in 1..Len(q)
      BY <1>2, <1>3, <1>5, <2>2
    <3>2. pq[j] = p[j] /\ pq[k] = q[k - Len(p)]
      BY <1>2, <1>3, <1>5, <2>2
    <3>3. p[j] \in S /\ q[k - Len(p)] \in T
      <4>1. p \in Seq(S) /\ q \in Seq(T)
        BY DEF Runs
      <4> QED
        BY <3>1, <4>1, ElementOfSeq
    <3> QED
      BY <3>2, <3>3
  <2>3. CASE j > Len(p)
    <3>1. j - Len(p) \in 1..Len(q) /\ k - Len(p) \in 1..Len(q) /\ j - Len(p) < k - Len(p)
      BY <1>2, <1>3, <1>5, <2>3
    <3>2. pq[j] = q[j - Len(p)] /\ pq[k] = q[k - Len(p)]
      BY <1>2, <1>3, <1>5, <2>3
    <3> QED
      BY <3>1, <3>2 DEF Runs
  <2> QED
    BY <1>3, <2>1, <2>2, <2>3
<1> QED
  BY <1>2, <1>4, <1>5 DEF Runs, pq

LEMMA OneStep == ASSUME NEW s PROVE Runs(<<s>>, {s})
BY DEF Runs

\* A step more.
LEMMA StepMore ==
  ASSUME NEW p, NEW S, NEW s, Runs(p, S), \A t \in S : PlaceOf(t) < PlaceOf(s)
  PROVE  Runs(p \o <<s>>, S \cup {s})
BY OneStep, Join

LEMMA TwoSteps ==
  ASSUME NEW s, NEW t,
         PlaceOf(s) \in Nat, PlaceOf(t) \in Nat,
         PlaceOf(s) < PlaceOf(t)
  PROVE  Runs(<<s, t>>, {s, t})
BY DEF Runs

LEMMA ThreeSteps ==
  ASSUME NEW s, NEW t, NEW u,
         PlaceOf(s) \in Nat, PlaceOf(t) \in Nat, PlaceOf(u) \in Nat,
         PlaceOf(s) < PlaceOf(t), PlaceOf(t) < PlaceOf(u)
  PROVE  Runs(<<s, t, u>>, {s, t, u})
BY DEF Runs

LEMMA FourSteps ==
  ASSUME NEW s, NEW t, NEW u, NEW v,
         PlaceOf(s) \in Nat, PlaceOf(t) \in Nat, PlaceOf(u) \in Nat,
         PlaceOf(v) \in Nat,
         PlaceOf(s) < PlaceOf(t), PlaceOf(t) < PlaceOf(u), PlaceOf(u) < PlaceOf(v)
  PROVE  Runs(<<s, t, u, v>>, {s, t, u, v})
BY DEF Runs

LEMMA FiveSteps ==
  ASSUME NEW s, NEW t, NEW u, NEW v, NEW w,
         PlaceOf(s) \in Nat, PlaceOf(t) \in Nat, PlaceOf(u) \in Nat,
         PlaceOf(v) \in Nat, PlaceOf(w) \in Nat,
         PlaceOf(s) < PlaceOf(t), PlaceOf(t) < PlaceOf(u), PlaceOf(u) < PlaceOf(v),
         PlaceOf(v) < PlaceOf(w)
  PROVE  Runs(<<s, t, u, v, w>>, {s, t, u, v, w})
BY DEF Runs

\* The ways out.
LEMMA Exits ==
  ASSUME NEW op, NEW how \in Endings \ {"ok"}
  PROVE  Runs(Exit(op, how), StepsOf(op, how))
<1>1. CASE how = "transport" /\ op = "references"
  BY <1>1, Places, ThreeSteps DEF Exit, StepsOf, If
<1>2. CASE how = "transport" /\ op # "references"
  BY <1>2, Places, FourSteps DEF Exit, StepsOf, If, TransportExit
<1>3. CASE how = "header"
  BY <1>3, Places, ThreeSteps DEF Exit, StepsOf, HeaderExit
<1>4. CASE how = "error" /\ op = "invokeMethod"
  BY <1>4, Places, FiveSteps DEF Exit, StepsOf, If
<1>5. CASE how = "error" /\ op # "invokeMethod"
  BY <1>5, Places, FourSteps DEF Exit, StepsOf, If, ErrorExit
<1>6. CASE how = "argument"
  BY <1>6, Places, FourSteps DEF Exit, StepsOf
<1> QED
  BY <1>1, <1>2, <1>3, <1>4, <1>5, <1>6 DEF Endings

LEMMA NoSteps == Runs(<<>>, {})
BY DEF Runs

LEMMA SixSteps ==
  ASSUME NEW s, NEW t, NEW u, NEW v, NEW w, NEW x,
         PlaceOf(s) \in Nat, PlaceOf(t) \in Nat, PlaceOf(u) \in Nat,
         PlaceOf(v) \in Nat, PlaceOf(w) \in Nat, PlaceOf(x) \in Nat,
         PlaceOf(s) < PlaceOf(t), PlaceOf(t) < PlaceOf(u), PlaceOf(u) < PlaceOf(v),
         PlaceOf(v) < PlaceOf(w), PlaceOf(w) < PlaceOf(x)
  PROVE  Runs(<<s, t, u, v, w, x>>, {s, t, u, v, w, x})
BY DEF Runs

LEMMA ExchangeRuns ==
  ASSUME NEW op, NEW building, NEW B, Runs(building, B),
         \A s \in B : PlaceOf(s) \in 3..10
  PROVE  Runs(Exchange(building, Exit(op, "transport"), Exit(op, "error")),
              ExchangeSteps(op) \cup B)
<1> DEFINE first == <<New("sb"), Step("genRequest")>>
           Firsts == {New("sb"), Step("genRequest")}
           rest == <<OrElse("addPayload", Exit(op, "transport")),
                     OrElse("getResponse", Exit(op, "transport")),
                     OrElse("checkStatus", HeaderExit),
                     Free("sb"),
                     Step("scanCimXmlResponse"),
                     OrElse("checkError", Exit(op, "error"))>>
           Rest == {OrElse("addPayload", Exit(op, "transport")),
                    OrElse("getResponse", Exit(op, "transport")),
                    OrElse("checkStatus", HeaderExit),
                    Free("sb"),
                    Step("scanCimXmlResponse"),
                    OrElse("checkError", Exit(op, "error"))}
<1>1. Runs(first, Firsts)
  BY Places, TwoSteps
<1>2. Runs(rest, Rest)
  BY Places, SixSteps
<1>3. \A s \in Firsts : PlaceOf(s) \in 1..2
  BY Places
<1>4. \A s \in Rest : PlaceOf(s) \in 11..19
  BY Places
<1>5. Exchange(building, Exit(op, "transport"), Exit(op, "error")) = (first \o building) \o rest
  BY DEF Exchange
<1>6. ExchangeSteps(op) \cup B = (Firsts \cup B) \cup Rest
  BY DEF ExchangeSteps
<1> HIDE DEF first, Firsts, rest, Rest
<1>7. Runs(first \o building, Firsts \cup B)
  BY <1>1, <1>3, Join
<1>8. Runs((first \o building) \o rest, (Firsts \cup B) \cup Rest)
  <2>1. \A s \in Firsts \cup B, t \in Rest : PlaceOf(s) < PlaceOf(t)
    BY <1>3, <1>4
  <2> QED
    BY <1>2, <1>7, <2>1, Join
<1> QED
  BY <1>5, <1>6, <1>8

\* An exchange and what is made of the response.
LEMMA ProgramRuns ==
  ASSUME NEW op, NEW building, NEW B, NEW results, NEW R,
         Runs(building, B), \A s \in B : PlaceOf(s) \in 3..10,
         Runs(results, R), \A s \in R : PlaceOf(s) \in 22..Last
  PROVE  Runs(Exchange(building, Exit(op, "transport"), Exit(op, "error")) \o results,
              (ExchangeSteps(op) \cup B) \cup R)
<1>1. \A s \in ExchangeSteps(op) : PlaceOf(s) \in 1..19
  BY Places DEF ExchangeSteps
<1>2. \A s \in ExchangeSteps(op) \cup B, t \in R : PlaceOf(s) < PlaceOf(t)
  BY <1>1, Places
<1> QED
  BY <1>2, ExchangeRuns, Join

\* The programs are made of the steps named above, in their order.
LEMMA Programs ==
  ASSUME NEW op \in AllOps
  PROVE  Runs(Program(op), StepsOf(op, "ok"))
<1>1. CASE op \in EnumOps
  <2>1. Runs(Enumeration, ResultSteps(op))
    <3>1. ResultSteps(op) = {Step("setOK"), Hand("rvArray"), Return("ok")}
      BY <1>1 DEF ResultSteps, If, EnumOps, Cloners, DataOps
    <3> QED
      BY <3>1, Places, ThreeSteps DEF Enumeration
  <2>2. BuildingSteps(op) = {}
    BY <1>1 DEF BuildingSteps, If, EnumOps, DataOps
  <2>3. Program(op) = Exchange(<<>>, Exit(op, "transport"), Exit(op, "error")) \o Enumeration
    <3>1. CASE op = "references"
      BY <3>1 DEF Program, references, Exit
    <3>2. CASE op # "references"
      BY <1>1, <3>2 DEF Program, Usual, Exit, EnumOps, enumInstanceNames, execQuery, enumInstances,
         associators, associatorNames, referenceNames, enumClassNames, enumClasses
    <3> QED
      BY <3>1, <3>2
  <2>4. \A s \in ResultSteps(op) : PlaceOf(s) \in 22..Last
    BY <1>1, Places DEF ResultSteps, If, EnumOps, Cloners, DataOps
  <2> QED
    BY <2>1, <2>2, <2>3, <2>4, NoSteps, ProgramRuns DEF StepsOf
<1>2. CASE op \in {"getInstance", "getClass"}
  <2> DEFINE building == <<>>
             B == {}
             results == <<Step("setOK"), Step("cloneFirst"), Free("rvArray"), Hand("result"), Return("ok")>>
             R == {Step("setOK"), Step("cloneFirst"), Free("rvArray"), Hand("result"), Return("ok")}
  <2>1. Runs(building, B)
    BY Places, NoSteps
  <2>2. Runs(results, R)
    BY Places, FiveSteps
  <2>3. ResultSteps(op) = R
    BY <1>2 DEF ResultSteps, If, EnumOps, Cloners, DataOps
  <2>4. BuildingSteps(op) = B
    BY <1>2 DEF BuildingSteps, If, DataOps
  <2>5. Program(op) = Exchange(building, Exit(op, "transport"), Exit(op, "error")) \o results
    BY <1>2 DEF Program, Exit, getInstance, getClass, Usual, Clone
  <2>6. \A s \in B : PlaceOf(s) \in 3..10
    BY Places
  <2>7. \A s \in R : PlaceOf(s) \in 22..Last
    BY Places
  <2> HIDE DEF building, B, results, R
  <2> QED
    BY <2>1, <2>2, <2>3, <2>4, <2>5, <2>6, <2>7, ProgramRuns DEF StepsOf
<1>3. CASE op = "createInstance"
  <2> DEFINE building == <<>>
             B == {}
             results == <<Step("setOK"), Step("takeFirst"), Return("ok")>>
             R == {Step("setOK"), Step("takeFirst"), Return("ok")}
  <2>1. Runs(building, B)
    BY Places, NoSteps
  <2>2. Runs(results, R)
    BY Places, ThreeSteps
  <2>3. ResultSteps(op) = R
    BY <1>3 DEF ResultSteps, If, EnumOps, Cloners, DataOps
  <2>4. BuildingSteps(op) = B
    BY <1>3 DEF BuildingSteps, If, DataOps
  <2>5. Program(op) = Exchange(building, Exit(op, "transport"), Exit(op, "error")) \o results
    BY <1>3 DEF Program, Exit, createInstance, Usual
  <2>6. \A s \in B : PlaceOf(s) \in 3..10
    BY Places
  <2>7. \A s \in R : PlaceOf(s) \in 22..Last
    BY Places
  <2> HIDE DEF building, B, results, R
  <2> QED
    BY <2>1, <2>2, <2>3, <2>4, <2>5, <2>6, <2>7, ProgramRuns DEF StepsOf
<1>4. CASE op = "setInstance"
  <2> DEFINE building == <<New("cn")>>
             B == {New("cn")}
             results == <<Step("setOK"), Return("ok")>>
             R == {Step("setOK"), Return("ok")}
  <2>1. Runs(building, B)
    BY Places, OneStep
  <2>2. Runs(results, R)
    BY Places, TwoSteps
  <2>3. ResultSteps(op) = R
    BY <1>4 DEF ResultSteps, If, EnumOps, Cloners, DataOps
  <2>4. BuildingSteps(op) = B
    BY <1>4 DEF BuildingSteps, If, DataOps
  <2>5. Program(op) = Exchange(building, Exit(op, "transport"), Exit(op, "error")) \o results
    BY <1>4 DEF Program, Exit, setInstance
  <2>6. \A s \in B : PlaceOf(s) \in 3..10
    BY Places
  <2>7. \A s \in R : PlaceOf(s) \in 22..Last
    BY Places
  <2> HIDE DEF building, B, results, R
  <2> QED
    BY <2>1, <2>2, <2>3, <2>4, <2>5, <2>6, <2>7, ProgramRuns DEF StepsOf
<1>5. CASE op = "deleteInstance"
  <2> DEFINE building == <<New("cn"), Free("cn")>>
             B == {New("cn"), Free("cn")}
             results == <<Step("setOK"), Return("ok")>>
             R == {Step("setOK"), Return("ok")}
  <2>1. Runs(building, B)
    BY Places, TwoSteps
  <2>2. Runs(results, R)
    BY Places, TwoSteps
  <2>3. ResultSteps(op) = R
    BY <1>5 DEF ResultSteps, If, EnumOps, Cloners, DataOps
  <2>4. BuildingSteps(op) = B
    BY <1>5 DEF BuildingSteps, If, DataOps
  <2>5. Program(op) = Exchange(building, Exit(op, "transport"), Exit(op, "error")) \o results
    BY <1>5 DEF Program, Exit, deleteInstance, Temporary
  <2>6. \A s \in B : PlaceOf(s) \in 3..10
    BY Places
  <2>7. \A s \in R : PlaceOf(s) \in 22..Last
    BY Places
  <2> HIDE DEF building, B, results, R
  <2> QED
    BY <2>1, <2>2, <2>3, <2>4, <2>5, <2>6, <2>7, ProgramRuns DEF StepsOf
<1>6. CASE op = "setProperty"
  <2> DEFINE building == <<New("cv"), Free("cv")>> \o <<New("cn"), Free("cn")>>
             B == {New("cv"), Free("cv")} \cup {New("cn"), Free("cn")}
             results == <<Step("setOK"), Free("rvArray"), Return("ok")>>
             R == {Step("setOK"), Free("rvArray"), Return("ok")}
  <2>1. Runs(building, B)
    <3> DEFINE p == <<New("cv"), Free("cv")>>
               S == {New("cv"), Free("cv")}
               q == <<New("cn"), Free("cn")>>
               T == {New("cn"), Free("cn")}
    <3>1. Runs(p, S)
      BY Places, TwoSteps
    <3>2. Runs(q, T)
      BY Places, TwoSteps
    <3>3. \A s \in S, t \in T : PlaceOf(s) < PlaceOf(t)
      BY Places
    <3> HIDE DEF p, S, q, T
    <3>4. Runs(p \o q, S \cup T)
      BY <3>1, <3>2, <3>3, Join
    <3> QED
      BY <3>4 DEF p, S, q, T
  <2>2. Runs(results, R)
    BY Places, ThreeSteps
  <2>3. ResultSteps(op) = R
    BY <1>6 DEF ResultSteps, If, EnumOps, Cloners, DataOps
  <2>4. BuildingSteps(op) = B
    BY <1>6 DEF BuildingSteps, If, DataOps
  <2>5. Program(op) = Exchange(building, Exit(op, "transport"), Exit(op, "error")) \o results
    BY <1>6 DEF Program, Exit, setProperty, Temporary
  <2>6. \A s \in B : PlaceOf(s) \in 3..10
    BY Places
  <2>7. \A s \in R : PlaceOf(s) \in 22..Last
    BY Places
  <2> HIDE DEF building, B, results, R
  <2> QED
    BY <2>1, <2>2, <2>3, <2>4, <2>5, <2>6, <2>7, ProgramRuns DEF StepsOf
<1>7. CASE op = "getProperty"
  <2> DEFINE building == <<New("cn"), Free("cn")>>
             B == {New("cn"), Free("cn")}
             results == <<Step("setOK"), Step("cloneValue"), Free("rvArray"), Hand("result"), Return("ok")>>
             R == {Step("setOK"), Step("cloneValue"), Free("rvArray"), Hand("result"), Return("ok")}
  <2>1. Runs(building, B)
    BY Places, TwoSteps
  <2>2. Runs(results, R)
    BY Places, FiveSteps
  <2>3. ResultSteps(op) = R
    BY <1>7 DEF ResultSteps, If, EnumOps, Cloners, DataOps
  <2>4. BuildingSteps(op) = B
    BY <1>7 DEF BuildingSteps, If, DataOps
  <2>5. Program(op) = Exchange(building, Exit(op, "transport"), Exit(op, "error")) \o results
    BY <1>7 DEF Program, Exit, getProperty, Temporary, Clone
  <2>6. \A s \in B : PlaceOf(s) \in 3..10
    BY Places
  <2>7. \A s \in R : PlaceOf(s) \in 22..Last
    BY Places
  <2> HIDE DEF building, B, results, R
  <2> QED
    BY <2>1, <2>2, <2>3, <2>4, <2>5, <2>6, <2>7, ProgramRuns DEF StepsOf
<1>8. CASE op = "invokeMethod"
  <2> DEFINE building == <<New("cn"), Free("cn")>> \o <<OrElse("inArguments", Exit(op, "argument"))>>
             B == {New("cn"), Free("cn")} \cup {OrElse("inArguments", Exit(op, "argument"))}
             results == <<Step("outArguments")>> \o <<Step("setOK"), Step("cloneValue"), Free("rvArray"), Hand("result"), Return("ok")>>
             R == {Step("outArguments")} \cup {Step("setOK"), Step("cloneValue"), Free("rvArray"), Hand("result"), Return("ok")}
  <2>1. Runs(building, B)
    <3> DEFINE p == <<New("cn"), Free("cn")>>
               S == {New("cn"), Free("cn")}
               q == <<OrElse("inArguments", Exit(op, "argument"))>>
               T == {OrElse("inArguments", Exit(op, "argument"))}
    <3>1. Runs(p, S)
      BY Places, TwoSteps
    <3>2. Runs(q, T)
      BY Places, OneStep
    <3>3. \A s \in S, t \in T : PlaceOf(s) < PlaceOf(t)
      BY Places
    <3> HIDE DEF p, S, q, T
    <3>4. Runs(p \o q, S \cup T)
      BY <3>1, <3>2, <3>3, Join
    <3> QED
      BY <3>4 DEF p, S, q, T
  <2>2. Runs(results, R)
    <3> DEFINE p == <<Step("outArguments")>>
               S == {Step("outArguments")}
               q == <<Step("setOK"), Step("cloneValue"), Free("rvArray"), Hand("result"), Return("ok")>>
               T == {Step("setOK"), Step("cloneValue"), Free("rvArray"), Hand("result"), Return("ok")}
    <3>1. Runs(p, S)
      BY Places, OneStep
    <3>2. Runs(q, T)
      BY Places, FiveSteps
    <3>3. \A s \in S, t \in T : PlaceOf(s) < PlaceOf(t)
      BY Places
    <3> HIDE DEF p, S, q, T
    <3>4. Runs(p \o q, S \cup T)
      BY <3>1, <3>2, <3>3, Join
    <3> QED
      BY <3>4 DEF p, S, q, T
  <2>3. ResultSteps(op) = R
    BY <1>8 DEF ResultSteps, If, EnumOps, Cloners, DataOps
  <2>4. BuildingSteps(op) = B
    BY <1>8 DEF BuildingSteps, If, DataOps
  <2>5. Program(op) = Exchange(building, Exit(op, "transport"), Exit(op, "error")) \o results
    BY <1>8 DEF Program, Exit, invokeMethod, Temporary, Clone
  <2>6. \A s \in B : PlaceOf(s) \in 3..10
    BY Places
  <2>7. \A s \in R : PlaceOf(s) \in 22..Last
    BY Places
  <2> HIDE DEF building, B, results, R
  <2> QED
    BY <2>1, <2>2, <2>3, <2>4, <2>5, <2>6, <2>7, ProgramRuns DEF StepsOf
<1> QED
  BY <1>1, <1>2, <1>3, <1>4, <1>5, <1>6, <1>7, <1>8 DEF AllOps, ObjectOps, StatusOps, DataOps

----------------------------------------------------------------------------
(* What remains of a program: it gets on to the next of its places, and at *)
(* the last one it is over.                                                *)

\* The places of the steps that op takes if it ends so.
StopsOf(op, how) ==
  IF how = "ok" THEN
    {1, 2, 11, 12, 15, 17, 18, 19, 23, Last}
    \cup If(op = "setProperty", {3, 4})
    \cup If(op \in {"setInstance", "deleteInstance", "setProperty"} \cup DataOps, {5})
    \cup If(op \in {"deleteInstance", "setProperty"} \cup DataOps, {6})
    \cup If(op = "invokeMethod", {7, 22})
    \cup If(op \in Cloners, {24, 27})
    \cup If(op \in EnumOps \cup Cloners \cup {"createInstance", "setProperty"}, {25})
  ELSE IF how = "transport" THEN {13, 14, Last} \cup If(op # "references", {17})
  ELSE IF how = "header" THEN {16, 17, Last}
  ELSE IF how = "error" THEN {20, 21, 25, Last} \cup If(op = "invokeMethod", {26})
  ELSE {8, 9, 10, Last}

LEMMA Stops ==
  ASSUME NEW op \in AllOps, NEW how \in Endings
  PROVE  /\ \A s \in StepsOf(op, how) : PlaceOf(s) \in StopsOf(op, how)
         /\ \A n \in StopsOf(op, how) : \E s \in StepsOf(op, how) : PlaceOf(s) = n
         /\ StopsOf(op, how) \subseteq 1..Last
<1>1. CASE how = "ok"
  <2>1. \A s \in ExchangeSteps(op) : PlaceOf(s) \in StopsOf(op, how)
    BY <1>1, Places DEF ExchangeSteps, StopsOf
  <2>2. \A s \in BuildingSteps(op) : PlaceOf(s) \in StopsOf(op, how)
    BY <1>1, Places DEF BuildingSteps, StopsOf, If
  <2>3. \A s \in ResultSteps(op) : PlaceOf(s) \in StopsOf(op, how)
    BY <1>1, Places DEF ResultSteps, StopsOf, If, Cloners
  <2>4. ASSUME NEW n \in StopsOf(op, how)
        PROVE  \E s \in StepsOf(op, how) : PlaceOf(s) = n
    <3>1. CASE n \in {1, 2, 11, 12, 15, 17, 18, 19}
      BY <1>1, <3>1, Places DEF ExchangeSteps, StepsOf
    <3>2. CASE n \in {3, 4, 5, 6, 7}
      BY <1>1, <2>4, <3>2, Places DEF BuildingSteps, StepsOf, StopsOf, If
    <3>3. CASE n \in {22, 23, 24, 25, 27, Last}
      BY <1>1, <2>4, <3>3, Places DEF ResultSteps, StepsOf, StopsOf, If, Cloners
    <3> QED
      BY <1>1, <3>1, <3>2, <3>3 DEF StopsOf, If, Last
  <2>5. StopsOf(op, how) \subseteq 1..Last
    BY <1>1 DEF StopsOf, If, Last
  <2> QED
    BY <1>1, <2>1, <2>2, <2>3, <2>4, <2>5 DEF StepsOf
<1>2. CASE how = "transport"
  BY <1>2, Places DEF StepsOf, StopsOf, If
<1>3. CASE how = "header"
  BY <1>3, Places DEF StepsOf, StopsOf
<1>4. CASE how = "error"
  BY <1>4, Places DEF StepsOf, StopsOf, If
<1>5. CASE how = "argument"
  BY <1>5, Places DEF StepsOf, StopsOf
<1> QED
  BY <1>1, <1>2, <1>3, <1>4, <1>5 DEF Endings

LEMMA Begins ==
  ASSUME NEW p, NEW S, Runs(p, S), S # {}
  PROVE  Remains(p, S)
<1>1. PICK s \in S : TRUE
  OBVIOUS
<1>2. PICK k \in 1..Len(p) : p[k] = s
  BY DEF Runs
<1>3. Len(p) \in Nat /\ Len(p) > 0
  <2>1. p \in Seq(S)
    BY DEF Runs
  <2> QED
    BY <1>2, <2>1
<1> QED
  BY <1>3 DEF Runs, Remains

LEMMA FirstIsLeast ==
  ASSUME NEW S, NEW q \in Seq(S), \A t \in S : PlaceOf(t) \in 1..28,
         \A i, j \in 1..Len(q) : i < j => PlaceOf(q[i]) < PlaceOf(q[j])
  PROVE  \A i \in 1..Len(q) : PlaceOf(q[i]) >= PlaceOf(q[1])
<1>1. ASSUME NEW i \in 1..Len(q)
      PROVE  PlaceOf(q[i]) >= PlaceOf(q[1])
  <2>1. 1 \in 1..Len(q)
    OBVIOUS
  <2>2. PlaceOf(q[i]) \in 1..28 /\ PlaceOf(q[1]) \in 1..28
    BY <2>1, ElementOfSeq
  <2>3. i = 1 \/ 1 < i
    OBVIOUS
  <2> DEFINE m == PlaceOf(q[1])
             n == PlaceOf(q[i])
  <2>4. n = m \/ m < n
    BY <2>1, <2>3
  <2> HIDE DEF m, n
  <2>5. m \in 1..28 /\ n \in 1..28
    BY <2>2 DEF m, n
  <2>6. n >= m
    BY <2>4, <2>5
  <2> QED
    BY <2>6 DEF m, n
<1> QED
  BY <1>1

LEMMA GetsOn ==
  ASSUME NEW op \in AllOps, NEW how \in Endings, NEW p,
         Remains(p, StepsOf(op, how)), PlaceOf(p[1]) < Last
  PROVE  /\ Remains(Tail(p), StepsOf(op, how))
         /\ Tail(p)[Len(Tail(p))] = p[Len(p)]
         /\ PlaceOf(Tail(p)[1]) > PlaceOf(p[1])
         /\ \A n \in StopsOf(op, how) : n > PlaceOf(p[1]) => n >= PlaceOf(Tail(p)[1])
<1> DEFINE S == StepsOf(op, how)
           q == Tail(p)
<1>1. /\ p \in Seq(S) /\ Len(p) \in Nat /\ Len(p) > 0
      /\ \A k \in 1..Len(p) : p[k] \in S /\ PlaceOf(p[k]) \in 1..Last
  <2>1. p \in Seq(S) /\ Len(p) > 0
    BY DEF Remains
  <2> QED
    BY <2>1, Stops, ElementOfSeq
<1>0. PlaceOf(p[1]) \in 1..28
  <2>1. 1 \in 1..Len(p)
    BY <1>1
  <2> QED
    BY <1>1, <2>1 DEF Last
<1>2. Len(p) > 1
  <2>1. PICK s \in S : PlaceOf(s) = Last
    BY Stops DEF StopsOf
  <2>2. PlaceOf(s) >= PlaceOf(p[1])
    BY <1>0, <2>1 DEF Last
  <2>3. PICK k \in 1..Len(p) : p[k] = s
    BY <2>2 DEF Remains
  <2> QED
    BY <1>1, <2>1, <2>3
<1>5. /\ q \in Seq(S) /\ Len(q) = Len(p) - 1
      /\ \A i \in 1..Len(q) : q[i] = p[i + 1]
  BY <1>1, <1>2, HeadTailProperties, EmptySeq
<1> HIDE DEF S, q
<1>6. \A i, j \in 1..Len(p) : i < j => PlaceOf(p[i]) < PlaceOf(p[j])
  BY DEF Remains
<1>7. ASSUME NEW i \in 1..Len(q), NEW j \in 1..Len(q), i < j
      PROVE  PlaceOf(q[i]) < PlaceOf(q[j])
  <2>1. i + 1 \in 1..Len(p) /\ j + 1 \in 1..Len(p) /\ i + 1 < j + 1
    BY <1>1, <1>5, <1>7
  <2> QED
    BY <1>5, <1>6, <2>1
<1>8. q[1] = p[2] /\ PlaceOf(q[1]) > PlaceOf(p[1])
  BY <1>1, <1>2, <1>5, <1>6
<1>9. ASSUME NEW t \in S, PlaceOf(t) > PlaceOf(p[1])
      PROVE  \E i \in 1..Len(q) : q[i] = t
  <2>3. PlaceOf(t) \in 1..28
    BY Stops DEF S, Last
  <2>4. PlaceOf(t) >= PlaceOf(p[1]) /\ PlaceOf(t) # PlaceOf(p[1])
    BY <1>0, <1>9, <2>3
  <2>0. \E i \in 1..Len(p) : p[i] = t
    BY <2>4 DEF Remains, S
  <2>1. PICK i \in 1..Len(p) : p[i] = t
    BY <2>0
  <2>2. i # 1
    BY Zenon, <2>1, <2>4
  <2>5. i - 1 \in 1..Len(q) /\ q[i - 1] = p[i]
    BY <1>1, <1>5, <2>2
  <2> QED
    BY <2>1, <2>5
<1>10. \A t \in S : PlaceOf(t) \in 1..Last
  BY Stops DEF S
<1>11. ASSUME NEW n \in StopsOf(op, how), n > PlaceOf(p[1])
       PROVE  n >= PlaceOf(q[1])
  <2>1. PICK t \in S : PlaceOf(t) = n
    BY Stops DEF S
  <2>2. \E i \in 1..Len(q) : q[i] = t
    BY <1>9, <1>11, <2>1
  <2>3. PlaceOf(t) >= PlaceOf(q[1])
    BY <1>5, <1>7, <1>10, <2>2, FirstIsLeast DEF Last
  <2> QED
    BY <2>1, <2>3
<1>12. Remains(q, S)
  <2>1. ASSUME NEW t \in S, PlaceOf(t) >= PlaceOf(q[1])
        PROVE  \E i \in 1..Len(q) : q[i] = t
    <3>1. 1 \in 1..Len(q) /\ q[1] \in S
      BY <1>1, <1>2, <1>5, ElementOfSeq
    <3>2. PlaceOf(t) > PlaceOf(p[1])
      <4>1. PlaceOf(t) \in 1..28 /\ PlaceOf(q[1]) \in 1..28
        BY <1>10, <3>1 DEF Last
      <4> QED
        BY <1>0, <1>8, <2>1, <4>1
    <3> QED
      BY <1>9, <3>2
  <2> QED
    BY <1>1, <1>2, <1>5, <1>7, <2>1 DEF Remains
<1>13. q[Len(q)] = p[Len(p)]
  BY <1>1, <1>2, <1>5
<1> QED
  BY <1>8, <1>11, <1>12, <1>13 DEF S, q

LEMMA EndsSo ==
  ASSUME NEW op \in AllOps, NEW how \in Endings, NEW p, Remains(p, StepsOf(op, how))
  PROVE  p[Len(p)] = Return(how)
<1>1. Return(how) \in StepsOf(op, how)
  BY DEF StepsOf, ResultSteps, Endings
<1>2. p \in Seq(StepsOf(op, how)) /\ Len(p) > 0
  BY DEF Remains
<1>3. \A t \in StepsOf(op, how) : PlaceOf(t) \in 1..28
  BY Stops DEF Last
<1>4. 1 \in 1..Len(p) /\ p[1] \in StepsOf(op, how)
  BY <1>2, ElementOfSeq
<1>5. PlaceOf(Return(how)) = 28
  BY Places
<1>6. PlaceOf(Return(how)) >= PlaceOf(p[1])
  <2>1. PlaceOf(p[1]) \in 1..28
    BY <1>3, <1>4
  <2> QED
    BY <1>5, <2>1
<1>7. PICK k \in 1..Len(p) : p[k] = Return(how)
  BY <1>1, <1>6 DEF Remains
<1>8. Len(p) \in 1..Len(p) /\ p[Len(p)] \in StepsOf(op, how)
  BY <1>2, ElementOfSeq
<1> DEFINE z == PlaceOf(p[Len(p)])
<1>9. k < Len(p) => 28 < z
  BY <1>5, <1>7, <1>8 DEF Remains
<1>10. z \in 1..28
  BY <1>3, <1>8
<1> HIDE DEF z
<1>11. ~(k < Len(p))
  BY <1>9, <1>10
<1> QED
  BY <1>2, <1>7, <1>11

\* The last step is the return.
LEMMA IsOver ==
  ASSUME NEW op \in AllOps, NEW how \in Endings, NEW p, Remains(p, StepsOf(op, how)),
         PlaceOf(p[1]) = Last
  PROVE  Len(p) = 1 /\ Tail(p) = <<>>
<1>1. p \in Seq(StepsOf(op, how)) /\ Len(p) > 0
  BY DEF Remains
<1>2. Len(p) \in 1..Len(p) /\ 1 \in 1..Len(p) /\ p[Len(p)] \in StepsOf(op, how)
  BY <1>1, ElementOfSeq
<1> DEFINE z == PlaceOf(p[Len(p)])
<1>3. z \in 1..28
  BY <1>2, Stops DEF Last
<1>4. 1 < Len(p) => 28 < z
  BY <1>2 DEF Remains, Last
<1> HIDE DEF z
<1>5. Len(p) <= 1
  BY <1>1, <1>3, <1>4
<1>6. Len(p) = 1
  <2> DEFINE n == Len(p)
  <2>1. n \in Nat /\ n > 0 /\ n <= 1
    BY <1>1, <1>5
  <2> HIDE DEF n
  <2>2. n = 1
    BY <2>1
  <2> QED
    BY <2>2 DEF n
<1>7. Tail(p) \in Seq(StepsOf(op, how)) /\ Len(Tail(p)) = 0
  <2>1. p \in Seq(StepsOf(op, how)) /\ p # <<>>
    BY <1>1, EmptySeq
  <2>2. Tail(p) \in Seq(StepsOf(op, how)) /\ Len(Tail(p)) = Len(p) - 1
    BY <2>1, HeadTailProperties
  <2> QED
    BY <1>6, <2>2
<1> QED
  BY <1>6, <1>7, EmptySeq

\* What the name of a step says of it.
Named(s, op, how) ==
  /\ s[1] = "new" =>
       \/ how = "ok" /\ s[2] = "sb" /\ PlaceOf(s) = 1
       \/ how = "ok" /\ s[2] = "cv" /\ PlaceOf(s) = 3 /\ op = "setProperty"
       \/ how = "ok" /\ s[2] = "cn" /\ PlaceOf(s) = 5
          /\ op \in {"setInstance", "deleteInstance", "setProperty"} \cup DataOps
       \/ how = "argument" /\ s[2] = "argname" /\ PlaceOf(s) = 8
       \/ how = "argument" /\ s[2] = "text" /\ PlaceOf(s) = 9
  /\ s[1] = "free" =>
       \/ how = "ok" /\ s[2] = "cv" /\ PlaceOf(s) = 4 /\ op = "setProperty"
       \/ how = "ok" /\ s[2] = "cn" /\ PlaceOf(s) = 6
          /\ op \in {"deleteInstance", "setProperty"} \cup DataOps
       \/ how = "transport" /\ s[2] = "error" /\ PlaceOf(s) = 14
       \/ how \in {"ok", "transport", "header"} /\ s[2] = "sb" /\ PlaceOf(s) = 17
       \/ how = "error" /\ s[2] = "description" /\ PlaceOf(s) = 21
       \/ how \in {"ok", "error"} /\ s[2] = "rvArray" /\ PlaceOf(s) = 25
          /\ (how = "ok" => op \in Cloners \cup {"setProperty"})
       \/ how = "error" /\ s[2] = "outArgs" /\ PlaceOf(s) = 26
  /\ s[1] = "hand" =>
       \/ how = "ok" /\ s[2] = "rvArray" /\ PlaceOf(s) = 25 /\ op \in EnumOps
       \/ how = "ok" /\ s[2] = "result" /\ PlaceOf(s) = 27 /\ op \in Cloners
  /\ s[1] = "return" => s[2] = how /\ PlaceOf(s) = Last
  /\ s[1] = "genRequest" => how = "ok" /\ PlaceOf(s) = 2
  /\ s[1] = "inArguments" =>
       how = "ok" /\ PlaceOf(s) = 7 /\ op = "invokeMethod" /\ s[2] = Exit(op, "argument")
  /\ s[1] = "setUnsupported" => how = "argument" /\ PlaceOf(s) = 10
  /\ s[1] = "addPayload" =>
       how = "ok" /\ PlaceOf(s) = 11 /\ s[2] = Exit(op, "transport")
  /\ s[1] = "getResponse" =>
       how = "ok" /\ PlaceOf(s) = 12 /\ s[2] = Exit(op, "transport")
  /\ s[1] = "setFailed" => how = "transport" /\ PlaceOf(s) = 13
  /\ s[1] = "checkStatus" =>
       how = "ok" /\ PlaceOf(s) = 15 /\ s[2] = Exit(op, "header")
  /\ s[1] = "cloneStatus" => how = "header" /\ PlaceOf(s) = 16
  /\ s[1] = "scanCimXmlResponse" => how = "ok" /\ PlaceOf(s) = 18
  /\ s[1] = "checkError" =>
       how = "ok" /\ PlaceOf(s) = 19 /\ s[2] = Exit(op, "error")
  /\ s[1] = "setError" => how = "error" /\ PlaceOf(s) = 20
  /\ s[1] = "outArguments" => how = "ok" /\ PlaceOf(s) = 22 /\ op = "invokeMethod"
  /\ s[1] = "setOK" => how = "ok" /\ PlaceOf(s) = 23
  /\ s[1] = "cloneFirst" =>
       how = "ok" /\ PlaceOf(s) = 24 /\ op \in {"getInstance", "getClass"}
  /\ s[1] = "cloneValue" => how = "ok" /\ PlaceOf(s) = 24 /\ op \in DataOps
  /\ s[1] = "takeFirst" => how = "ok" /\ PlaceOf(s) = 25 /\ op = "createInstance"

LEMMA ResultStepsNamed ==
  ASSUME NEW op \in AllOps, NEW s \in ResultSteps(op)
  PROVE  Named(s, op, "ok")
<1>1. CASE s = Step("setOK")
  <2>1. PlaceOf(s) = 23
    BY Zenon, <1>1, Places
  <2>2. s[1] = "setOK" /\ s[2] = <<>>
    BY <1>1 DEF Step
  <2> QED
    BY <1>1, <2>1, <2>2 DEF Named
<1>2. CASE s = Return("ok")
  <2>1. PlaceOf(s) = Last
    BY Zenon, <1>2, Places
  <2>2. s[1] = "return" /\ s[2] = "ok"
    BY <1>2 DEF Return
  <2> QED
    BY <1>2, <2>1, <2>2 DEF Named
<1>3. CASE s = Step("outArguments") /\ op = "invokeMethod"
  <2>1. PlaceOf(s) = 22
    BY Zenon, <1>3, Places
  <2>2. s[1] = "outArguments" /\ s[2] = <<>>
    BY <1>3 DEF Step
  <2> QED
    BY <1>3, <2>1, <2>2 DEF Named
<1>4. CASE s = Step("cloneFirst") /\ op \in {"getInstance", "getClass"}
  <2>1. PlaceOf(s) = 24
    BY Zenon, <1>4, Places
  <2>2. s[1] = "cloneFirst" /\ s[2] = <<>>
    BY <1>4 DEF Step
  <2> QED
    BY <1>4, <2>1, <2>2 DEF Named
<1>5. CASE s = Step("cloneValue") /\ op \in DataOps
  <2>1. PlaceOf(s) = 24
    BY Zenon, <1>5, Places
  <2>2. s[1] = "cloneValue" /\ s[2] = <<>>
    BY <1>5 DEF Step
  <2> QED
    BY <1>5, <2>1, <2>2 DEF Named
<1>6. CASE s = Step("takeFirst") /\ op = "createInstance"
  <2>1. PlaceOf(s) = 25
    BY Zenon, <1>6, Places
  <2>2. s[1] = "takeFirst" /\ s[2] = <<>>
    BY <1>6 DEF Step
  <2> QED
    BY <1>6, <2>1, <2>2 DEF Named
<1>7. CASE s = Free("rvArray") /\ op \in Cloners \cup {"setProperty"}
  <2>1. PlaceOf(s) = 25
    BY Zenon, <1>7, Places
  <2>2. s[1] = "free" /\ s[2] = "rvArray"
    BY <1>7 DEF Free
  <2> QED
    BY <1>7, <2>1, <2>2 DEF Named
<1>8. CASE s = Hand("rvArray") /\ op \in EnumOps
  <2>1. PlaceOf(s) = 25
    BY Zenon, <1>8, Places
  <2>2. s[1] = "hand" /\ s[2] = "rvArray"
    BY <1>8 DEF Hand
  <2> QED
    BY <1>8, <2>1, <2>2 DEF Named
<1>9. CASE s = Hand("result") /\ op \in Cloners
  <2>1. PlaceOf(s) = 27
    BY Zenon, <1>9, Places
  <2>2. s[1] = "hand" /\ s[2] = "result"
    BY <1>9 DEF Hand
  <2> QED
    BY <1>9, <2>1, <2>2 DEF Named
<1>10. \/ s = Step("setOK")
       \/ s = Return("ok")
       \/ s = Step("outArguments") /\ op = "invokeMethod"
       \/ s = Step("cloneFirst") /\ op \in {"getInstance", "getClass"}
       \/ s = Step("cloneValue") /\ op \in DataOps
       \/ s = Step("takeFirst") /\ op = "createInstance"
       \/ s = Free("rvArray") /\ op \in Cloners \cup {"setProperty"}
       \/ s = Hand("rvArray") /\ op \in EnumOps
       \/ s = Hand("result") /\ op \in Cloners
  BY DEF ResultSteps, If
<1> QED
  BY <1>1, <1>2, <1>3, <1>4, <1>5, <1>6, <1>7, <1>8, <1>9, <1>10

LEMMA ExchangeStepsNamed ==
  ASSUME NEW op \in AllOps, NEW s \in ExchangeSteps(op)
  PROVE  Named(s, op, "ok")
<1>0. HeaderExit = Exit(op, "header")
  BY DEF Exit
<1>1. CASE s = New("sb")
  <2>1. PlaceOf(s) = 1
    BY Zenon, <1>1, Places
  <2>2. s[1] = "new" /\ s[2] = "sb"
    BY <1>1 DEF New
  <2> QED
    BY <1>1, <2>1, <2>2 DEF Named
<1>2. CASE s = Step("genRequest")
  <2>1. PlaceOf(s) = 2
    BY Zenon, <1>2, Places
  <2>2. s[1] = "genRequest" /\ s[2] = <<>>
    BY <1>2 DEF Step
  <2> QED
    BY <1>2, <2>1, <2>2 DEF Named
<1>3. CASE s = OrElse("addPayload", Exit(op, "transport"))
  <2>1. PlaceOf(s) = 11
    BY Zenon, <1>3, Places
  <2>2. s[1] = "addPayload" /\ s[2] = Exit(op, "transport")
    BY <1>3 DEF OrElse
  <2> QED
    BY <1>3, <2>1, <2>2 DEF Named
<1>4. CASE s = OrElse("getResponse", Exit(op, "transport"))
  <2>1. PlaceOf(s) = 12
    BY Zenon, <1>4, Places
  <2>2. s[1] = "getResponse" /\ s[2] = Exit(op, "transport")
    BY <1>4 DEF OrElse
  <2> QED
    BY <1>4, <2>1, <2>2 DEF Named
<1>5. CASE s = OrElse("checkStatus", Exit(op, "header"))
  <2>1. PlaceOf(s) = 15
    BY Zenon, <1>5, Places
  <2>2. s[1] = "checkStatus" /\ s[2] = Exit(op, "header")
    BY <1>5 DEF OrElse
  <2> QED
    BY <1>5, <2>1, <2>2 DEF Named
<1>6. CASE s = Free("sb")
  <2>1. PlaceOf(s) = 17
    BY Zenon, <1>6, Places
  <2>2. s[1] = "free" /\ s[2] = "sb"
    BY <1>6 DEF Free
  <2> QED
    BY <1>6, <2>1, <2>2 DEF Named
<1>7. CASE s = Step("scanCimXmlResponse")
  <2>1. PlaceOf(s) = 18
    BY Zenon, <1>7, Places
  <2>2. s[1] = "scanCimXmlResponse" /\ s[2] = <<>>
    BY <1>7 DEF Step
  <2> QED
    BY <1>7, <2>1, <2>2 DEF Named
<1>8. CASE s = OrElse("checkError", Exit(op, "error"))
  <2>1. PlaceOf(s) = 19
    BY Zenon, <1>8, Places
  <2>2. s[1] = "checkError" /\ s[2] = Exit(op, "error")
    BY <1>8 DEF OrElse
  <2> QED
    BY <1>8, <2>1, <2>2 DEF Named
<1>9. \/ s = New("sb")
      \/ s = Step("genRequest")
      \/ s = OrElse("addPayload", Exit(op, "transport"))
      \/ s = OrElse("getResponse", Exit(op, "transport"))
      \/ s = OrElse("checkStatus", Exit(op, "header"))
      \/ s = Free("sb")
      \/ s = Step("scanCimXmlResponse")
      \/ s = OrElse("checkError", Exit(op, "error"))
  BY Zenon, <1>0 DEF ExchangeSteps
<1> QED
  BY <1>1, <1>2, <1>3, <1>4, <1>5, <1>6, <1>7, <1>8, <1>9

LEMMA BuildingStepsNamed ==
  ASSUME NEW op \in AllOps, NEW s \in BuildingSteps(op)
  PROVE  Named(s, op, "ok")
<1>1. CASE s = New("cv") /\ op = "setProperty"
  <2>1. PlaceOf(s) = 3
    BY Zenon, <1>1, Places
  <2>2. s[1] = "new" /\ s[2] = "cv"
    BY <1>1 DEF New
  <2> QED
    BY <1>1, <2>1, <2>2 DEF Named
<1>2. CASE s = Free("cv") /\ op = "setProperty"
  <2>1. PlaceOf(s) = 4
    BY Zenon, <1>2, Places
  <2>2. s[1] = "free" /\ s[2] = "cv"
    BY <1>2 DEF Free
  <2> QED
    BY <1>2, <2>1, <2>2 DEF Named
<1>3. CASE s = New("cn") /\ op \in {"setInstance", "deleteInstance", "setProperty"} \cup DataOps
  <2>1. PlaceOf(s) = 5
    BY Zenon, <1>3, Places
  <2>2. s[1] = "new" /\ s[2] = "cn"
    BY <1>3 DEF New
  <2> QED
    BY <1>3, <2>1, <2>2 DEF Named
<1>4. CASE s = Free("cn") /\ op \in {"deleteInstance", "setProperty"} \cup DataOps
  <2>1. PlaceOf(s) = 6
    BY Zenon, <1>4, Places
  <2>2. s[1] = "free" /\ s[2] = "cn"
    BY <1>4 DEF Free
  <2> QED
    BY <1>4, <2>1, <2>2 DEF Named
<1>5. CASE s = OrElse("inArguments", Exit(op, "argument")) /\ op = "invokeMethod"
  <2>1. PlaceOf(s) = 7
    BY Zenon, <1>5, Places
  <2>2. s[1] = "inArguments" /\ s[2] = Exit(op, "argument")
    BY <1>5 DEF OrElse
  <2> QED
    BY <1>5, <2>1, <2>2 DEF Named
<1>6. \/ s = New("cv") /\ op = "setProperty"
      \/ s = Free("cv") /\ op = "setProperty"
      \/ s = New("cn") /\ op \in {"setInstance", "deleteInstance", "setProperty"} \cup DataOps
      \/ s = Free("cn") /\ op \in {"deleteInstance", "setProperty"} \cup DataOps
      \/ s = OrElse("inArguments", Exit(op, "argument")) /\ op = "invokeMethod"
  BY DEF BuildingSteps, If
<1> QED
  BY <1>1, <1>2, <1>3, <1>4, <1>5, <1>6

LEMMA StepsNamed ==
  ASSUME NEW op \in AllOps, NEW how \in Endings, NEW s \in StepsOf(op, how)
  PROVE  Named(s, op, how)
<1>1. CASE how = "ok"
  BY <1>1, ExchangeStepsNamed, BuildingStepsNamed, ResultStepsNamed DEF StepsOf
<1>2. CASE how = "transport"
  <2>1. CASE s = Step("setFailed")
    <3>1. PlaceOf(s) = 13
      BY Zenon, <2>1, Places
    <3>2. s[1] = "setFailed" /\ s[2] = <<>>
      BY <2>1 DEF Step
    <3> QED
      BY <1>2, <2>1, <3>1, <3>2 DEF Named
  <2>2. CASE s = Free("error")
    <3>1. PlaceOf(s) = 14
      BY Zenon, <2>2, Places
    <3>2. s[1] = "free" /\ s[2] = "error"
      BY <2>2 DEF Free
    <3> QED
      BY <1>2, <2>2, <3>1, <3>2 DEF Named
  <2>3. CASE s = Return("transport")
    <3>1. PlaceOf(s) = Last
      BY Zenon, <2>3, Places
    <3>2. s[1] = "return" /\ s[2] = "transport"
      BY <2>3 DEF Return
    <3> QED
      BY <1>2, <2>3, <3>1, <3>2 DEF Named
  <2>4. CASE s = Free("sb")
    <3>1. PlaceOf(s) = 17
      BY Zenon, <2>4, Places
    <3>2. s[1] = "free" /\ s[2] = "sb"
      BY <2>4 DEF Free
    <3> QED
      BY <1>2, <2>4, <3>1, <3>2 DEF Named
  <2>5. \/ s = Step("setFailed")
        \/ s = Free("error")
        \/ s = Return("transport")
        \/ s = Free("sb")
    BY <1>2 DEF StepsOf, If
  <2> QED
    BY <2>1, <2>2, <2>3, <2>4, <2>5
<1>3. CASE how = "header"
  <2>1. CASE s = Step("cloneStatus")
    <3>1. PlaceOf(s) = 16
      BY Zenon, <2>1, Places
    <3>2. s[1] = "cloneStatus" /\ s[2] = <<>>
      BY <2>1 DEF Step
    <3> QED
      BY <1>3, <2>1, <3>1, <3>2 DEF Named
  <2>2. CASE s = Free("sb")
    <3>1. PlaceOf(s) = 17
      BY Zenon, <2>2, Places
    <3>2. s[1] = "free" /\ s[2] = "sb"
      BY <2>2 DEF Free
    <3> QED
      BY <1>3, <2>2, <3>1, <3>2 DEF Named
  <2>3. CASE s = Return("header")
    <3>1. PlaceOf(s) = Last
      BY Zenon, <2>3, Places
    <3>2. s[1] = "return" /\ s[2] = "header"
      BY <2>3 DEF Return
    <3> QED
      BY <1>3, <2>3, <3>1, <3>2 DEF Named
  <2>4. \/ s = Step("cloneStatus")
        \/ s = Free("sb")
        \/ s = Return("header")
    BY <1>3 DEF StepsOf, If
  <2> QED
    BY <2>1, <2>2, <2>3, <2>4
<1>4. CASE how = "error"
  <2>1. CASE s = Step("setError")
    <3>1. PlaceOf(s) = 20
      BY Zenon, <2>1, Places
    <3>2. s[1] = "setError" /\ s[2] = <<>>
      BY <2>1 DEF Step
    <3> QED
      BY <1>4, <2>1, <3>1, <3>2 DEF Named
  <2>2. CASE s = Free("description")
    <3>1. PlaceOf(s) = 21
      BY Zenon, <2>2, Places
    <3>2. s[1] = "free" /\ s[2] = "description"
      BY <2>2 DEF Free
    <3> QED
      BY <1>4, <2>2, <3>1, <3>2 DEF Named
  <2>3. CASE s = Free("rvArray")
    <3>1. PlaceOf(s) = 25
      BY Zenon, <2>3, Places
    <3>2. s[1] = "free" /\ s[2] = "rvArray"
      BY <2>3 DEF Free
    <3> QED
      BY <1>4, <2>3, <3>1, <3>2 DEF Named
  <2>4. CASE s = Free("outArgs")
    <3>1. PlaceOf(s) = 26
      BY Zenon, <2>4, Places
    <3>2. s[1] = "free" /\ s[2] = "outArgs"
      BY <2>4 DEF Free
    <3> QED
      BY <1>4, <2>4, <3>1, <3>2 DEF Named
  <2>5. CASE s = Return("error")
    <3>1. PlaceOf(s) = Last
      BY Zenon, <2>5, Places
    <3>2. s[1] = "return" /\ s[2] = "error"
      BY <2>5 DEF Return
    <3> QED
      BY <1>4, <2>5, <3>1, <3>2 DEF Named
  <2>6. \/ s = Step("setError")
        \/ s = Free("description")
        \/ s = Free("rvArray")
        \/ s = Free("outArgs")
        \/ s = Return("error")
    BY <1>4 DEF StepsOf, If
  <2> QED
    BY <2>1, <2>2, <2>3, <2>4, <2>5, <2>6
<1>5. CASE how = "argument"
  <2>1. CASE s = New("argname")
    <3>1. PlaceOf(s) = 8
      BY Zenon, <2>1, Places
    <3>2. s[1] = "new" /\ s[2] = "argname"
      BY <2>1 DEF New
    <3> QED
      BY <1>5, <2>1, <3>1, <3>2 DEF Named
  <2>2. CASE s = New("text")
    <3>1. PlaceOf(s) = 9
      BY Zenon, <2>2, Places
    <3>2. s[1] = "new" /\ s[2] = "text"
      BY <2>2 DEF New
    <3> QED
      BY <1>5, <2>2, <3>1, <3>2 DEF Named
  <2>3. CASE s = Step("setUnsupported")
    <3>1. PlaceOf(s) = 10
      BY Zenon, <2>3, Places
    <3>2. s[1] = "setUnsupported" /\ s[2] = <<>>
      BY <2>3 DEF Step
    <3> QED
      BY <1>5, <2>3, <3>1, <3>2 DEF Named
  <2>4. CASE s = Return("argument")
    <3>1. PlaceOf(s) = Last
      BY Zenon, <2>4, Places
    <3>2. s[1] = "return" /\ s[2] = "argument"
      BY <2>4 DEF Return
    <3> QED
      BY <1>5, <2>4, <3>1, <3>2 DEF Named
  <2>5. \/ s = New("argname")
        \/ s = New("text")
        \/ s = Step("setUnsupported")
        \/ s = Return("argument")
    BY <1>5 DEF StepsOf, If
  <2> QED
    BY <2>1, <2>2, <2>3, <2>4, <2>5
<1> QED
  BY <1>1, <1>2, <1>3, <1>4, <1>5 DEF Endings

----------------------------------------------------------------------------
(* Where the operation is: the place of its next step, 29 when there is    *)
(* none, and how it ends if nothing else happens.                          *)

Place == IF todo = <<>> THEN 29 ELSE PlaceOf(todo[1])
Ending == IF todo = <<>> THEN calls[Now].ended ELSE todo[Len(todo)][2]

CallRecords == [op : AllOps, ended : Endings \cup {"running"}]

FlowInv ==
  /\ calls \in Seq(CallRecords) /\ Now <= MaxCalls
  /\ Now > 0 => Ending \in Endings /\ (Ending = "argument" => Op = "invokeMethod")
  /\ todo # <<>> => Now > 0 /\ Remains(todo, StepsOf(Op, Ending))

\* The place n is not skipped.
Keeps(n) == Place < n => Place' <= n

\* A step that is followed by the next one, of the same ending.
Advances ==
  /\ todo' # <<>> /\ Ending' = Ending
  /\ Place' \in 1..28 /\ Place < Place'
  /\ Ending = "ok" =>
       /\ Keeps(2) /\ Keeps(11) /\ Keeps(12) /\ Keeps(15)
       /\ Keeps(17) /\ Keeps(18) /\ Keeps(19) /\ Keeps(23)
       /\ Op = "setProperty" => Keeps(4)
       /\ Op \in {"deleteInstance", "setProperty"} \cup DataOps => Keeps(6)
       /\ Op \in Cloners => Keeps(24) /\ Keeps(27)
       /\ Op \notin {"setInstance", "deleteInstance"} => Keeps(25)
  /\ Ending = "transport" => Keeps(13) /\ Keeps(14) /\ (Op # "references" => Keeps(17))
  /\ Ending = "header" => Keeps(16) /\ Keeps(17)
  /\ Ending = "error" => Keeps(20) /\ Keeps(21) /\ Keeps(25)
  /\ Ending = "argument" => Keeps(10)

LEMMA Where ==
  ASSUME FlowInv, todo # <<>>
  PROVE  /\ Op \in AllOps /\ Ending \in Endings /\ Now \in Nat /\ Now > 0
         /\ Place \in 1..28 /\ Place = PlaceOf(Head(todo))
         /\ Head(todo) \in StepsOf(Op, Ending) /\ Named(Head(todo), Op, Ending)
<1>1. Now \in Nat /\ Now > 0 /\ Ending \in Endings /\ Remains(todo, StepsOf(Op, Ending))
  BY DEF FlowInv, Now
<1>2. Op \in AllOps
  <2>1. calls[Now] \in CallRecords
    BY <1>1, ElementOfSeq DEF FlowInv, Now
  <2> QED
    BY <2>1 DEF CallRecords, Op
<1>3. Head(todo) \in StepsOf(Op, Ending) /\ Head(todo) = todo[1]
  <2>1. todo \in Seq(StepsOf(Op, Ending)) /\ Len(todo) > 0
    BY <1>1 DEF Remains
  <2> QED
    BY <2>1, ElementOfSeq
<1>4. PlaceOf(Head(todo)) \in StopsOf(Op, Ending) /\ PlaceOf(Head(todo)) \in 1..28
  BY <1>1, <1>2, <1>3, Stops DEF Last
<1> QED
  BY <1>1, <1>2, <1>3, <1>4, StepsNamed DEF Place

LEMMA BeforeLast == \A n \in 1..28 : n # 28 => n < 28
OBVIOUS

LEMMA NotEmpty == ASSUME NEW S, NEW p \in Seq(S), Len(p) > 0 PROVE p # <<>>
BY EmptySeq

LEMMA Proceeds ==
  ASSUME FlowInv, todo # <<>>, Place # 28, Proceed, calls' = calls
  PROVE  FlowInv' /\ Advances
<1> DEFINE S == StepsOf(Op, Ending)
<1>1. /\ Op \in AllOps /\ Ending \in Endings /\ Now > 0
      /\ Place \in 1..28 /\ Place = PlaceOf(todo[1])
  BY Where DEF Place
<1>2. Remains(todo, S) /\ PlaceOf(todo[1]) < Last
  <2>1. Remains(todo, S)
    BY DEF FlowInv
  <2>2. Place < 28
    BY Zenon, <1>1, BeforeLast
  <2> QED
    BY <1>1, <2>1, <2>2 DEF Last
<1>3. /\ Remains(Tail(todo), S)
      /\ Tail(todo)[Len(Tail(todo))] = todo[Len(todo)]
      /\ PlaceOf(Tail(todo)[1]) > PlaceOf(todo[1])
      /\ \A n \in StopsOf(Op, Ending) : n > PlaceOf(todo[1]) => n >= PlaceOf(Tail(todo)[1])
  BY <1>1, <1>2, GetsOn
<1>4. Tail(todo) # <<>> /\ PlaceOf(Tail(todo)[1]) \in 1..28
  <2>1. Tail(todo) \in Seq(S) /\ Len(Tail(todo)) > 0
    BY <1>3 DEF Remains
  <2>2. Tail(todo)[1] \in S
    BY <2>1, ElementOfSeq
  <2>3. Tail(todo) # <<>>
    BY <2>1, NotEmpty
  <2>4. \A s \in S : PlaceOf(s) \in 1..28
    BY <1>1, Stops DEF Last
  <2> QED
    BY <2>2, <2>3, <2>4
<1>5. /\ todo' # <<>> /\ Ending' = Ending /\ Now' = Now /\ Op' = Op
      /\ Place' = PlaceOf(Tail(todo)[1])
  BY <1>3, <1>4 DEF Proceed, Ending, Place, Now, Op
<1>6. FlowInv'
  BY <1>1, <1>3, <1>5 DEF FlowInv, Proceed
<1>7. Advances
  <2> DEFINE y == PlaceOf(todo[1])
             z == PlaceOf(Tail(todo)[1])
  <2>1. /\ z \in 1..28 /\ y \in 1..28 /\ z > y
        /\ \A n \in StopsOf(Op, Ending) : n > y => n >= z
    BY <1>1, <1>3, <1>4
  <2>2. Place = y /\ Place' = z
    BY <1>1, <1>5
  <2>3. StopsOf(Op, Ending) \subseteq 1..28
    BY <1>1, Stops DEF Last
  <2> HIDE DEF y, z
  <2>4. ASSUME NEW n \in StopsOf(Op, Ending)
        PROVE  Keeps(n)
    BY <2>1, <2>2, <2>3, <2>4 DEF Keeps
  <2>5. Place' \in 1..28 /\ Place < Place'
    BY <2>1, <2>2
  <2>6. Ending = "ok" =>
       /\ Keeps(2) /\ Keeps(11) /\ Keeps(12) /\ Keeps(15)
       /\ Keeps(17) /\ Keeps(18) /\ Keeps(19) /\ Keeps(23)
    BY <2>4 DEF StopsOf
  <2>7. Ending = "ok" =>
       /\ Op = "setProperty" => Keeps(4)
       /\ Op \in {"deleteInstance", "setProperty"} \cup DataOps => Keeps(6)
       /\ Op \in Cloners => Keeps(24) /\ Keeps(27)
    BY <2>4 DEF StopsOf, If
  <2>8. Ending = "ok" => (Op \notin {"setInstance", "deleteInstance"} => Keeps(25))
    BY <1>1, <2>4 DEF StopsOf, If, AllOps, Cloners, ObjectOps, StatusOps
  <2>9. /\ Ending = "transport" => Keeps(13) /\ Keeps(14) /\ (Op # "references" => Keeps(17))
        /\ Ending = "header" => Keeps(16) /\ Keeps(17)
        /\ Ending = "error" => Keeps(20) /\ Keeps(21) /\ Keeps(25)
        /\ Ending = "argument" => Keeps(10)
    BY <1>1, <2>4 DEF StopsOf, If, Endings
  <2> QED
    BY <1>5, <2>5, <2>6, <2>7, <2>8, <2>9 DEF Advances
<1> QED
  BY <1>6, <1>7

\* The places where the ways out begin.
ExitAt(how) ==
  IF how = "transport" THEN 13 ELSE IF how = "header" THEN 16
  ELSE IF how = "error" THEN 20 ELSE 8

LEMMA Leaves ==
  ASSUME FlowInv, todo # <<>>, NEW how \in Endings \ {"ok"},
         todo' = Exit(Op, how), calls' = calls, how = "argument" => Op = "invokeMethod"
  PROVE  FlowInv' /\ todo' # <<>> /\ Ending' = how /\ Place' = ExitAt(how)
<1>1. Op \in AllOps /\ Now > 0 /\ Now' = Now /\ Op' = Op
  BY Where DEF Now, Op
<1>2. Runs(Exit(Op, how), StepsOf(Op, how))
  BY Exits
<1>3. StepsOf(Op, how) # {}
  BY <1>1, Stops DEF StopsOf, Endings
<1>4. Remains(Exit(Op, how), StepsOf(Op, how))
  BY <1>2, <1>3, Begins
<1>5. todo'[Len(todo')] = Return(how)
  BY <1>1, <1>4, EndsSo
<1>6. todo' # <<>>
  BY <1>4, EmptySeq DEF Remains
<1>7. Ending' = how
  BY <1>5, <1>6 DEF Ending, Return
<1>8. PlaceOf(Exit(Op, how)[1]) = ExitAt(how)
  BY Places DEF Exit, TransportExit, HeaderExit, ErrorExit, ExitAt, Endings
<1>9. Place' = ExitAt(how)
  BY <1>6, <1>8 DEF Place
<1>10. FlowInv'
  BY <1>1, <1>4, <1>6, <1>7 DEF FlowInv
<1> QED
  BY <1>6, <1>7, <1>9, <1>10

LEMMA CallFlows ==
  ASSUME FlowInv, OpsAssumption, NEW op \in Ops, Call(op)
  PROVE  /\ FlowInv' /\ todo' # <<>> /\ Ending' = "ok" /\ Place' = 1
         /\ Op' = op /\ Now' = Now + 1 /\ Now \in Nat
         /\ \A k \in 1..Now : calls'[k] = calls[k]
<1> DEFINE new == [op |-> op, ended |-> "running"]
<1>1. op \in AllOps /\ new \in CallRecords
  BY DEF OpsAssumption, CallRecords
<1>2. /\ calls \in Seq(CallRecords) /\ calls' = Append(calls, new)
      /\ todo' = Program(op) /\ Now < MaxCalls /\ MaxCalls \in Nat
  BY DEF FlowInv, Call, OpsAssumption
<1>3. /\ calls' \in Seq(CallRecords) /\ Now \in Nat /\ Now' = Now + 1
      /\ calls'[Now'] = new /\ \A k \in 1..Now : calls'[k] = calls[k]
  BY <1>1, <1>2, AppendProperties DEF Now
<1>4. Op' = op
  BY <1>3 DEF Op
<1>5. Remains(Program(op), StepsOf(op, "ok"))
  <2>1. New("sb") \in StepsOf(op, "ok")
    BY DEF StepsOf, ExchangeSteps
  <2> QED
    BY <1>1, <2>1, Programs, Begins
<1>6. todo' # <<>> /\ todo'[Len(todo')] = Return("ok")
  <2>1. Program(op) # <<>>
    BY <1>5, EmptySeq DEF Remains
  <2>2. Program(op)[Len(Program(op))] = Return("ok")
    BY <1>1, <1>5, EndsSo DEF Endings
  <2> QED
    BY <1>2, <2>1, <2>2
<1>7. Ending' = "ok"
  BY <1>6 DEF Ending, Return
<1>8. PlaceOf(Program(op)[1]) = 1
  <2> DEFINE p == Program(op)
             S == StepsOf(op, "ok")
  <2>1. Runs(p, S) /\ New("sb") \in S /\ PlaceOf(New("sb")) = 1
    BY <1>1, Programs, Places DEF StepsOf, ExchangeSteps
  <2>2. p \in Seq(S) /\ \A s \in S : PlaceOf(s) \in 1..28
    BY <1>1, <2>1, Stops DEF Runs, Endings, Last
  <2>3. \A i, j \in 1..Len(p) : i < j => PlaceOf(p[i]) < PlaceOf(p[j])
    BY <2>1 DEF Runs
  <2>4. PICK k \in 1..Len(p) : p[k] = New("sb")
    BY <2>1 DEF Runs
  <2> HIDE DEF p, S
  <2>5. PlaceOf(p[k]) >= PlaceOf(p[1])
    BY <2>2, <2>3, <2>4, FirstIsLeast
  <2>6. p[1] \in S
    <3>1. 1 \in 1..Len(p)
      BY <2>2, <2>4
    <3> QED
      BY <2>2, <3>1, ElementOfSeq
  <2> DEFINE z == PlaceOf(p[1])
  <2>7. z \in 1..28
    BY <2>2, <2>6
  <2>8. 1 >= z
    BY <2>1, <2>4, <2>5
  <2> HIDE DEF z
  <2>9. z = 1
    BY <2>7, <2>8
  <2> QED
    BY <2>9 DEF z, p
<1>9. Place' = 1
  BY <1>2, <1>6, <1>8 DEF Place
<1>10. FlowInv'
  BY <1>2, <1>3, <1>4, <1>5, <1>6, <1>7 DEF FlowInv, Endings
<1> QED
  BY <1>3, <1>4, <1>6, <1>7, <1>9, <1>10

LEMMA ReturnFlows ==
  ASSUME FlowInv, ReturnStep
  PROVE  /\ FlowInv' /\ todo' = <<>> /\ Ending' = Ending /\ Place = 28 /\ Place' = 29
         /\ Op' = Op /\ Now' = Now
         /\ \A k \in 1..Now : k # Now => calls'[k] = calls[k]
<1>1. /\ todo # <<>> /\ Head(todo)[1] = "return" /\ todo' = Tail(todo)
      /\ calls' = [calls EXCEPT ![Now].ended = Head(todo)[2]]
  BY DEF ReturnStep, Doing, Given, Proceed
<1>2. /\ Op \in AllOps /\ Ending \in Endings /\ Now \in Nat /\ Now > 0
      /\ Head(todo)[2] = Ending /\ Place = 28 /\ PlaceOf(todo[1]) = Last
  BY <1>1, Where DEF Named, Last, Place
<1>3. todo' = <<>>
  BY <1>1, <1>2, IsOver DEF FlowInv
<1>4. calls \in Seq(CallRecords) /\ Now = Len(calls) /\ Now \in 1..Len(calls) /\ calls[Now] \in CallRecords
  BY <1>2, ElementOfSeq DEF FlowInv, Now
<1>5. /\ calls' \in Seq(CallRecords) /\ Len(calls') = Len(calls)
      /\ calls'[Now].ended = Ending /\ calls'[Now].op = calls[Now].op
      /\ \A k \in 1..Now : k # Now => calls'[k] = calls[k]
  <2> DEFINE r == [calls[Now] EXCEPT !.ended = Ending]
  <2>1. r \in CallRecords /\ r.ended = Ending /\ r.op = calls[Now].op
    BY <1>2, <1>4 DEF CallRecords
  <2>2. calls' = [calls EXCEPT ![Now] = r]
    BY <1>1, <1>2
  <2> HIDE DEF r
  <2>3. calls' \in Seq(CallRecords) /\ Len(calls') = Len(calls)
    BY <1>4, <2>1, <2>2, ExceptSeq
  <2>4. \A k \in 1..Now : calls'[k] = IF k = Now THEN r ELSE calls[k]
    BY <1>4, <2>2, ExceptSeq
  <2> QED
    BY <1>4, <2>1, <2>3, <2>4
<1>6. Now' = Now /\ Op' = Op /\ Ending' = Ending /\ Place' = 29
  BY <1>3, <1>5 DEF Now, Op, Ending, Place
<1>7. FlowInv'
  BY <1>2, <1>3, <1>5, <1>6 DEF FlowInv
<1> QED
  BY <1>2, <1>3, <1>5, <1>6, <1>7
StepNames ==
  {"new", "free", "hand", "genRequest", "inArguments", "setUnsupported", "addPayload",
   "getResponse", "setFailed", "checkStatus", "cloneStatus", "scanCimXmlResponse",
   "checkError", "setError", "outArguments", "setOK", "cloneFirst", "cloneValue", "takeFirst"}

\* What is known where a step is taken.
Here ==
  /\ todo # <<>> /\ Op \in AllOps /\ Ending \in Endings
  /\ Now \in Nat /\ Now > 0 /\ Now <= MaxCalls /\ Place \in 1..28
  /\ Named(Head(todo), Op, Ending) /\ Place = PlaceOf(Head(todo))

LEMMA NotReturning ==
  ASSUME NEW s, NEW op, NEW how, Named(s, op, how), s[1] \in StepNames
  PROVE  PlaceOf(s) # 28
<1>1. CASE s[1] \in {"new", "free", "hand"}
  BY <1>1 DEF Named
<1>2. CASE s[1] \notin {"new", "free", "hand"}
  BY <1>2 DEF Named, StepNames
<1> QED
  BY <1>1, <1>2

LEMMA Goes ==
  ASSUME FlowInv, NEW name \in StepNames, Doing(name), Proceed, calls' = calls
  PROVE  /\ FlowInv' /\ Here /\ Advances /\ Op' = Op /\ Now' = Now
         /\ Head(todo)[1] = name
<1>1. Here /\ Head(todo)[1] = name
  BY Where DEF Doing, Here, FlowInv
<1>2. Place # 28
  BY <1>1, NotReturning DEF Here
<1> QED
  BY <1>1, <1>2, Proceeds DEF Here, Op, Now

LEMMA Stays ==
  ASSUME FlowInv, UNCHANGED <<todo, calls>>
  PROVE  FlowInv' /\ Place' = Place /\ Ending' = Ending /\ Op' = Op /\ Now' = Now
<1>1. Place' = Place /\ Ending' = Ending /\ Op' = Op /\ Now' = Now
  BY DEF Place, Ending, Op, Now
<1> QED
  BY <1>1 DEF FlowInv

LEMMA Out ==
  ASSUME FlowInv, NEW name \in {"inArguments", "addPayload", "getResponse", "checkStatus", "checkError"},
         Doing(name), Leave, calls' = calls
  PROVE  /\ FlowInv' /\ Here /\ Ending = "ok" /\ todo' # <<>> /\ Op' = Op /\ Now' = Now
         /\ Head(todo)[1] = name
         /\ name = "inArguments" => Place = 7 /\ Place' = 8 /\ Ending' = "argument"
         /\ name = "addPayload" => Place = 11 /\ Place' = 13 /\ Ending' = "transport"
         /\ name = "getResponse" => Place = 12 /\ Place' = 13 /\ Ending' = "transport"
         /\ name = "checkStatus" => Place = 15 /\ Place' = 16 /\ Ending' = "header"
         /\ name = "checkError" => Place = 19 /\ Place' = 20 /\ Ending' = "error"
<1>1. Here /\ Head(todo)[1] = name /\ todo' = Head(todo)[2]
  BY Where DEF Doing, Here, FlowInv, Leave, Given
<1>2. Op' = Op /\ Now' = Now
  BY DEF Op, Now
<1>3. CASE name = "inArguments"
  <2>1. Ending = "ok" /\ Place = 7 /\ todo' = Exit(Op, "argument") /\ Op = "invokeMethod"
    BY <1>1, <1>3 DEF Here, Named
  <2>2. FlowInv' /\ todo' # <<>> /\ Ending' = "argument" /\ Place' = 8
    BY <1>1, <2>1, Leaves DEF Here, Endings, ExitAt
  <2> QED
    BY <1>1, <1>2, <1>3, <2>1, <2>2
<1>4. CASE name = "addPayload" \/ name = "getResponse"
  <2>1. /\ Ending = "ok" /\ todo' = Exit(Op, "transport")
        /\ name = "addPayload" => Place = 11
        /\ name = "getResponse" => Place = 12
    BY <1>1, <1>4 DEF Here, Named
  <2>2. FlowInv' /\ todo' # <<>> /\ Ending' = "transport" /\ Place' = 13
    BY <1>1, <2>1, Leaves DEF Here, Endings, ExitAt
  <2> QED
    BY <1>1, <1>2, <1>4, <2>1, <2>2
<1>5. CASE name = "checkStatus"
  <2>1. Ending = "ok" /\ Place = 15 /\ todo' = Exit(Op, "header")
    BY <1>1, <1>5 DEF Here, Named
  <2>2. FlowInv' /\ todo' # <<>> /\ Ending' = "header" /\ Place' = 16
    BY <1>1, <2>1, Leaves DEF Here, Endings, ExitAt
  <2> QED
    BY <1>1, <1>2, <1>5, <2>1, <2>2
<1>6. CASE name = "checkError"
  <2>1. Ending = "ok" /\ Place = 19 /\ todo' = Exit(Op, "error")
    BY <1>1, <1>6 DEF Here, Named
  <2>2. FlowInv' /\ todo' # <<>> /\ Ending' = "error" /\ Place' = 20
    BY <1>1, <2>1, Leaves DEF Here, Endings, ExitAt
  <2> QED
    BY <1>1, <1>2, <1>6, <2>1, <2>2
<1> QED
  BY <1>3, <1>4, <1>5, <1>6
----------------------------------------------------------------------------
(* Where each action is taken.                                             *)

Onward == FlowInv' /\ Here /\ Advances /\ Op' = Op /\ Now' = Now
Rests == FlowInv' /\ Place' = Place /\ Ending' = Ending /\ Op' = Op /\ Now' = Now

NewAtPlace(v) ==
  \/ v = "sb" /\ Place = 1 /\ Ending = "ok"
  \/ v = "cv" /\ Place = 3 /\ Ending = "ok" /\ Op = "setProperty"
  \/ v = "cn" /\ Place = 5 /\ Ending = "ok"
     /\ Op \in {"setInstance", "deleteInstance", "setProperty"} \cup DataOps
  \/ v = "argname" /\ Place = 8 /\ Ending = "argument"
  \/ v = "text" /\ Place = 9 /\ Ending = "argument"

LEMMA AtNew ==
  ASSUME FlowInv, NewStep
  PROVE  Onward /\ NewAtPlace(Given)
<1>1. Onward /\ Head(todo)[1] = "new"
  BY Goes DEF NewStep, StepNames, Onward
<1> QED
  BY <1>1 DEF Onward, Here, Named, Given, NewAtPlace

FreeAtPlace(v) ==
  \/ v = "cv" /\ Place = 4 /\ Ending = "ok" /\ Op = "setProperty"
  \/ v = "cn" /\ Place = 6 /\ Ending = "ok"
     /\ Op \in {"deleteInstance", "setProperty"} \cup DataOps
  \/ v = "error" /\ Place = 14 /\ Ending = "transport"
  \/ v = "sb" /\ Place = 17 /\ Ending \in {"ok", "transport", "header"}
  \/ v = "description" /\ Place = 21 /\ Ending = "error"
  \/ v = "rvArray" /\ Place = 25 /\ Ending \in {"ok", "error"}
     /\ (Ending = "ok" => Op \in Cloners \cup {"setProperty"})
  \/ v = "outArgs" /\ Place = 26 /\ Ending = "error"

LEMMA AtFree ==
  ASSUME FlowInv, FreeStep
  PROVE  Onward /\ FreeAtPlace(Given)
<1>1. Onward /\ Head(todo)[1] = "free"
  BY Goes DEF FreeStep, StepNames, Onward
<1> QED
  BY <1>1 DEF Onward, Here, Named, Given, FreeAtPlace

LEMMA AtHand ==
  ASSUME FlowInv, HandStep
  PROVE  /\ Onward /\ Ending = "ok"
         /\ \/ Given = "rvArray" /\ Place = 25 /\ Op \in EnumOps
            \/ Given = "result" /\ Place = 27 /\ Op \in Cloners
<1>1. Onward /\ Head(todo)[1] = "hand"
  BY Goes DEF HandStep, StepNames, Onward
<1> QED
  BY <1>1 DEF Onward, Here, Named, Given

LEMMA AtExchange ==
  ASSUME FlowInv
  PROVE  /\ genRequest => Onward /\ Ending = "ok" /\ Place = 2
         /\ InArguments => Op = "invokeMethod" /\ Ending = "ok" /\ Place = 7
         /\ addPayload => Ending = "ok" /\ Place = 11
         /\ writeHeaders \/ writeCb => Rests /\ Here /\ Ending = "ok" /\ Place = 12
         /\ getResponse => Ending = "ok" /\ Place = 12
         /\ checkStatus => Ending = "ok" /\ Place = 15
         /\ scanCimXmlResponse => Onward /\ Ending = "ok" /\ Place = 18
         /\ checkError => Ending = "ok" /\ Place = 19
<1>1. ASSUME genRequest
      PROVE  Onward /\ Ending = "ok" /\ Place = 2
  <2>1. Onward /\ Head(todo)[1] = "genRequest"
    BY <1>1, Goes DEF genRequest, StepNames, Onward
  <2> QED
    BY <2>1 DEF Onward, Here, Named
<1>2. ASSUME scanCimXmlResponse
      PROVE  Onward /\ Ending = "ok" /\ Place = 18
  <2>1. Onward /\ Head(todo)[1] = "scanCimXmlResponse"
    BY <1>2, Goes DEF scanCimXmlResponse, StepNames, Onward
  <2> QED
    BY <2>1 DEF Onward, Here, Named
<1>3. todo # <<>> => Here
  BY Where DEF Here, FlowInv
<1>4. InArguments => Op = "invokeMethod" /\ Ending = "ok" /\ Place = 7
  BY <1>3 DEF InArguments, Doing, Here, Named
<1>5. addPayload => Ending = "ok" /\ Place = 11
  BY <1>3 DEF addPayload, Doing, Here, Named
<1>6. ASSUME writeHeaders \/ writeCb
      PROVE  Rests /\ Here /\ Ending = "ok" /\ Place = 12
  <2>1. UNCHANGED <<todo, calls>> /\ Doing("getResponse")
    BY <1>6 DEF writeHeaders, writeCb
  <2>2. Here /\ Ending = "ok" /\ Place = 12
    BY <1>3, <2>1 DEF Doing, Here, Named
  <2> QED
    BY <2>1, <2>2, Stays DEF Rests
<1>7. getResponse => Ending = "ok" /\ Place = 12
  BY <1>3 DEF getResponse, Doing, Here, Named
<1>8. checkStatus => Ending = "ok" /\ Place = 15
  BY <1>3 DEF checkStatus, Doing, Here, Named
<1>9. checkError => Ending = "ok" /\ Place = 19
  BY <1>3 DEF checkError, Doing, Here, Named
<1> QED
  BY <1>1, <1>2, <1>4, <1>5, <1>6, <1>7, <1>8, <1>9

\* The steps that may go on or end the operation.
LEMMA AtChoices ==
  ASSUME FlowInv
  PROVE  /\ InArguments /\ Proceed => Onward
         /\ InArguments /\ Leave => FlowInv' /\ Op' = Op /\ Now' = Now /\ Here
                                    /\ todo' # <<>> /\ Ending' = "argument" /\ Place' = 8
         /\ addPayload /\ Proceed => Onward
         /\ addPayload /\ Leave => FlowInv' /\ Op' = Op /\ Now' = Now /\ Here
                                   /\ todo' # <<>> /\ Ending' = "transport" /\ Place' = 13
         /\ getResponse /\ Proceed => Onward
         /\ getResponse /\ Leave => FlowInv' /\ Op' = Op /\ Now' = Now /\ Here
                                    /\ todo' # <<>> /\ Ending' = "transport" /\ Place' = 13
         /\ checkStatus /\ Proceed => Onward
         /\ checkStatus /\ Leave => FlowInv' /\ Op' = Op /\ Now' = Now /\ Here
                                    /\ todo' # <<>> /\ Ending' = "header" /\ Place' = 16
         /\ checkError /\ Proceed => Onward
         /\ checkError /\ Leave => FlowInv' /\ Op' = Op /\ Now' = Now /\ Here
                                   /\ todo' # <<>> /\ Ending' = "error" /\ Place' = 20
<1>1. InArguments => Doing("inArguments") /\ calls' = calls
  BY DEF InArguments
<1>2. addPayload => Doing("addPayload") /\ calls' = calls
  BY DEF addPayload, Failed
<1>3. getResponse => Doing("getResponse") /\ calls' = calls
  BY DEF getResponse, Failed
<1>4. checkStatus => Doing("checkStatus") /\ calls' = calls
  BY DEF checkStatus
<1>5. checkError => Doing("checkError") /\ calls' = calls
  BY DEF checkError
<1>6. ASSUME NEW name \in {"inArguments", "addPayload", "getResponse", "checkStatus", "checkError"},
             Doing(name), calls' = calls, Proceed
      PROVE  Onward
  BY <1>6, Goes DEF Onward, StepNames
<1> QED
  BY <1>1, <1>2, <1>3, <1>4, <1>5, <1>6, Out

LEMMA AtResults ==
  ASSUME FlowInv
  PROVE  /\ SetFailed => Onward /\ Ending = "transport" /\ Place = 13
         /\ SetUnsupported => Onward /\ Ending = "argument" /\ Place = 10
         /\ SetError => Onward /\ Ending = "error" /\ Place = 20
         /\ cloneStatus => Onward /\ Ending = "header" /\ Place = 16
         /\ SetOK => Onward /\ Ending = "ok" /\ Place = 23
         /\ CloneFirst => Onward /\ Ending = "ok" /\ Place = 24 /\ Op \in {"getInstance", "getClass"}
         /\ CloneValue => Onward /\ Ending = "ok" /\ Place = 24 /\ Op \in DataOps
         /\ TakeFirst => Onward /\ Ending = "ok" /\ Place = 25 /\ Op = "createInstance"
         /\ OutArguments => Onward /\ Ending = "ok" /\ Place = 22 /\ Op = "invokeMethod"
<1>1. ASSUME NEW name \in StepNames, Doing(name), calls' = calls, Proceed
      PROVE  Onward /\ Head(todo)[1] = name
  BY <1>1, Goes DEF Onward
<1>2. SetFailed => Onward /\ Head(todo)[1] = "setFailed"
  BY <1>1 DEF SetFailed, StepNames
<1>3. SetUnsupported => Onward /\ Head(todo)[1] = "setUnsupported"
  BY <1>1 DEF SetUnsupported, StepNames
<1>4. SetError => Onward /\ Head(todo)[1] = "setError"
  BY <1>1 DEF SetError, StepNames
<1>5. cloneStatus => Onward /\ Head(todo)[1] = "cloneStatus"
  BY <1>1 DEF cloneStatus, StepNames
<1>6. SetOK => Onward /\ Head(todo)[1] = "setOK"
  BY <1>1 DEF SetOK, StepNames
<1>7. CloneFirst => Onward /\ Head(todo)[1] = "cloneFirst"
  BY <1>1 DEF CloneFirst, StepNames
<1>8. CloneValue => Onward /\ Head(todo)[1] = "cloneValue"
  BY <1>1 DEF CloneValue, StepNames
<1>9. TakeFirst => Onward /\ Head(todo)[1] = "takeFirst"
  BY <1>1 DEF TakeFirst, StepNames
<1>10. OutArguments => Onward /\ Head(todo)[1] = "outArguments"
  BY <1>1 DEF OutArguments, StepNames
<1>11. ASSUME Onward
       PROVE  /\ Head(todo)[1] = "setFailed" => Ending = "transport" /\ Place = 13
              /\ Head(todo)[1] = "setUnsupported" => Ending = "argument" /\ Place = 10
              /\ Head(todo)[1] = "setError" => Ending = "error" /\ Place = 20
              /\ Head(todo)[1] = "cloneStatus" => Ending = "header" /\ Place = 16
              /\ Head(todo)[1] = "setOK" => Ending = "ok" /\ Place = 23
              /\ Head(todo)[1] = "cloneFirst" =>
                   Ending = "ok" /\ Place = 24 /\ Op \in {"getInstance", "getClass"}
              /\ Head(todo)[1] = "cloneValue" => Ending = "ok" /\ Place = 24 /\ Op \in DataOps
              /\ Head(todo)[1] = "takeFirst" =>
                   Ending = "ok" /\ Place = 25 /\ Op = "createInstance"
              /\ Head(todo)[1] = "outArguments" =>
                   Ending = "ok" /\ Place = 22 /\ Op = "invokeMethod"
  BY <1>11 DEF Onward, Here, Named
<1> QED
  BY <1>2, <1>3, <1>4, <1>5, <1>6, <1>7, <1>8, <1>9, <1>10, <1>11

\* Between operations nothing moves.
LEMMA AtRest ==
  ASSUME FlowInv
  PROVE  /\ \A object \in theirs : CallerReleases(object) => Rests /\ todo = <<>> /\ Place = 29
         /\ releaseClient => Rests /\ todo = <<>> /\ Place = 29
         /\ UNCHANGED vars => Rests
<1>1. ASSUME NEW object \in theirs, CallerReleases(object)
      PROVE  Rests /\ todo = <<>> /\ Place = 29
  BY <1>1, Stays DEF CallerReleases, Idle, Rests, Place
<1>2. ASSUME releaseClient
      PROVE  Rests /\ todo = <<>> /\ Place = 29
  BY <1>2, Stays DEF releaseClient, Idle, Rests, Place
<1>3. ASSUME UNCHANGED vars
      PROVE  Rests
  BY <1>3, Stays DEF vars, Rests
<1> QED
  BY <1>1, <1>2, <1>3

LEMMA FlowStep == FlowInv /\ OpsAssumption /\ [Next]_vars => FlowInv'
<1> SUFFICES ASSUME FlowInv, OpsAssumption, [Next]_vars
             PROVE  FlowInv'
  OBVIOUS
<1>1. ASSUME NEW op \in Ops, Call(op)
      PROVE  FlowInv'
  BY <1>1, CallFlows
<1>2. CASE (\E object \in theirs : CallerReleases(object)) \/ releaseClient \/ UNCHANGED vars
  BY <1>2, AtRest DEF Rests
<1>3. CASE NewStep \/ FreeStep \/ HandStep
  BY <1>3, AtNew, AtFree, AtHand DEF Onward
<1>4. CASE ReturnStep
  BY <1>4, ReturnFlows
<1>5. CASE InArguments \/ addPayload \/ getResponse \/ checkStatus \/ checkError
  <2>1. Proceed \/ Leave
    BY <1>5 DEF InArguments, addPayload, getResponse, checkStatus, checkError, Failed
  <2> QED
    BY <1>5, <2>1, AtChoices DEF Onward
<1>6. CASE genRequest \/ writeHeaders \/ writeCb \/ scanCimXmlResponse
  BY <1>6, AtExchange DEF Onward, Rests
<1>7. CASE SetFailed \/ SetUnsupported \/ SetError \/ cloneStatus \/ SetOK
           \/ CloneFirst \/ CloneValue \/ TakeFirst \/ OutArguments
  BY <1>7, AtResults DEF Onward
<1> QED
  BY <1>1, <1>2, <1>3, <1>4, <1>5, <1>6, <1>7 DEF Next
----------------------------------------------------------------------------
(* The types.                                                              *)

Arguments == {"none", "plain", "instance", "unsupported"}
Headers == {"code", "zero", "description"}
Failures == {"no handle", "timeout", "failed", "unauthorized", "no data"}
Codes == {"none", "ok", "failed", "header", "error"}
Texts == {NULL, "none", "ok", "unsupported", "error", "description"} \cup Failures

Connections ==
  [mHandle : BOOLEAN, rc : {0, 1}, msg : Objects \cup {NULL},
   mResponse : {<<>>} \cup {<<body>> : body \in Bodies},
   posted : Objects \cup {NULL}, open : BOOLEAN]
Answers ==
  [wanted : BOOLEAN, rc : Codes, text : Texts, msg : Objects \cup {NULL},
   result : Objects \cup {NULL}]
Wires ==
  [argument : Arguments, headers : Seq(Headers), body : Bodies \cup {NULL},
   end : {"none", "ok"} \cup Failures]

Types ==
  /\ con \in Connections /\ answer \in Answers /\ wire \in Wires
  /\ Len(wire.headers) <= MaxHeaders
  /\ locals \in [Locals -> Objects \cup {NULL}]
  /\ heap \subseteq Objects /\ theirs \subseteq Objects
  /\ fault \in {"none", "released", "null", "exited"}

Kinds == Locals \cup {"element", "cop", "headerMsg", "statusMsg"}

\* What is in the connection is what came over the wire: while the exchange is
\* under way, as long as something is made of it.
ConInv ==
  Now > 0 =>
    /\ Ending = "ok" /\ 11 < Place => con.mHandle
    /\ Ending = "ok" /\ 2 < Place /\ con.mHandle =>
         con.mResponse = IF wire.body = NULL THEN <<>> ELSE <<wire.body>>
    /\ Ending = "ok" /\ 2 < Place /\ Place <= 15 /\ con.mHandle =>
         /\ con.rc # 0 <=> Refused
         /\ con.msg # NULL <=> Described
    /\ Ending = "header" /\ Place <= 16 => (con.msg # NULL <=> Described)

LEMMA ObjectIs ==
  ASSUME OpsAssumption, Here, NEW v \in Kinds
  PROVE  Object(v) \in Objects /\ Object(v)[1] = Now /\ Object(v)[2] = v /\ Object(v) # NULL
<1>1. 0 \in 0 .. MaxHeaders /\ Now \in 1 .. MaxCalls
  BY DEF OpsAssumption, Here
<1>2. Object(v) \in Objects
  BY <1>1 DEF Object, Objects, Kinds
<1> QED
  BY <1>2 DEF OpsAssumption, Object

LEMMA ElementIs ==
  /\ Element(Object("rvArray")) = Object("element")
  /\ Parts(Object("rvArray")) = {Object("rvArray"), Object("element")}
  /\ \A v : v # "rvArray" => Parts(Object(v)) = {Object(v)}
BY DEF Element, Object, Parts

LEMMA Reported ==
  ASSUME OpsAssumption, Here, Types, NEW rc \in Codes, NEW text \in Texts, Report(rc, text)
  PROVE  /\ answer' \in Answers /\ heap' \subseteq Objects /\ theirs' \subseteq Objects
<1>1. Object("statusMsg") \in Objects
  BY ObjectIs DEF Kinds
<1> QED
  BY <1>1 DEF Types, Report, Answers

LEMMA Allocated ==
  ASSUME OpsAssumption, Here, Types, NEW v \in Locals, Allocate(v)
  PROVE  /\ heap' \subseteq Objects /\ heap \subseteq heap'
         /\ locals' \in [Locals -> Objects \cup {NULL}]
<1>1. Object(v) \in Objects
  BY ObjectIs DEF Kinds
<1> QED
  BY <1>1 DEF Types, Allocate
LEMMA TypesInit == OpsAssumption /\ Init => Types
<1> SUFFICES ASSUME OpsAssumption, Init
             PROVE  Types
  OBVIOUS
<1>1. con \in Connections
  BY DEF Init, Connections
<1>2. answer \in Answers
  BY DEF Init, Answers, NoAnswer, Codes, Texts
<1>3. wire \in Wires /\ Len(wire.headers) <= MaxHeaders
  BY DEF Init, Wires, NoWire, Arguments, OpsAssumption
<1>4. locals \in [Locals -> Objects \cup {NULL}]
  BY DEF Init, NoLocals
<1> QED
  BY <1>1, <1>2, <1>3, <1>4 DEF Types, Init

\* The steps that change the heap and the local variables only.
LEMMA TypesOfSteps ==
  ASSUME OpsAssumption, FlowInv, Types,
         NewStep \/ FreeStep \/ scanCimXmlResponse \/ CloneFirst \/ CloneValue \/ OutArguments
  PROVE  Types'
<1>1. Here
  BY AtNew, AtFree, AtExchange, AtResults DEF Onward
<1>2. UNCHANGED <<con, answer, wire, theirs>>
  BY DEF NewStep, FreeStep, scanCimXmlResponse, CloneFirst, CloneValue, OutArguments
<1>3. fault' \in {"none", "released", "null", "exited"}
  BY DEF Types, NewStep, FreeStep, scanCimXmlResponse, CloneFirst, CloneValue, OutArguments,
         Release
<1>4. heap' \subseteq Objects /\ locals' \in [Locals -> Objects \cup {NULL}]
  <2>1. CASE NewStep
    <3>1. Given \in Locals
      BY <2>1, AtNew DEF NewAtPlace, Locals
    <3> QED
      BY <1>1, <2>1, <3>1, Allocated DEF NewStep
  <2>2. CASE FreeStep \/ OutArguments
    <3>1. locals' = locals /\ heap' \subseteq heap
      BY <2>2 DEF FreeStep, OutArguments, Release
    <3> QED
      BY <3>1 DEF Types
  <2>3. CASE scanCimXmlResponse
    <3>1. \A v \in Kinds : Object(v) \in Objects
      BY <1>1, ObjectIs
    <3> DEFINE found == CASE Scanned \in {"error", "error0"} -> {"rvArray", "description"}
                          [] Scanned = "outArgs" -> {"rvArray", "element", "outArgs"}
                          [] Scanned = "elements" -> {"rvArray", "element"}
                          [] OTHER -> {"rvArray"}
    <3>2. found \subseteq Kinds
      BY DEF Kinds, Locals
    <3>3. \/ UNCHANGED <<heap, locals>>
          \/ /\ heap' = heap \cup {Object(v) : v \in found}
             /\ locals' = [v \in Locals |-> IF v \in found THEN Object(v) ELSE locals[v]]
      BY <2>3 DEF scanCimXmlResponse
    <3> HIDE DEF found
    <3> QED
      BY <3>1, <3>2, <3>3 DEF Types
  <2>4. CASE CloneFirst \/ CloneValue
    <3>1. UNCHANGED <<heap, locals>> \/ Allocate("result")
      BY <2>4 DEF CloneFirst, CloneValue
    <3> QED
      BY <1>1, <3>1, Allocated DEF Locals, Types
  <2> QED
    BY <2>1, <2>2, <2>3, <2>4
<1> QED
  BY <1>2, <1>3, <1>4 DEF Types

\* The steps of the exchange.
LEMMA TypesOfExchange ==
  ASSUME OpsAssumption, FlowInv, Types, ConInv,
         genRequest \/ InArguments \/ addPayload \/ writeHeaders \/ writeCb \/ getResponse
         \/ checkStatus \/ checkError
  PROVE  Types'
<1>0. Here
  <2>1. todo # <<>>
    BY DEF genRequest, InArguments, addPayload, writeHeaders, writeCb, getResponse,
           checkStatus, checkError, Doing
  <2> QED
    BY <2>1, Where DEF Here, FlowInv
<1>1. CASE genRequest
  <2>1. con' \in Connections
    BY <1>1 DEF genRequest, ResetConnection, Types, Connections
  <2> QED
    BY <1>1, <2>1 DEF genRequest, Types
<1>2. CASE InArguments
  <2>1. wire' \in Wires /\ wire'.headers = wire.headers
    BY <1>2 DEF InArguments, Types, Wires, Arguments
  <2>2. heap' \subseteq Objects
    <3>1. Object("cop") \in Objects
      BY <1>0, ObjectIs DEF Kinds
    <3> QED
      BY <1>2, <3>1 DEF InArguments, Types
  <2> QED
    BY <1>2, <2>1, <2>2 DEF InArguments, Types
<1>3. ASSUME NEW text \in Failures, Failed(text), UNCHANGED fault \/ fault' \in {fault, "released"}
      PROVE  Types'
  <2>1. wire' \in Wires /\ wire'.headers = wire.headers
    BY <1>3 DEF Failed, Types, Wires
  <2>2. heap' \subseteq Objects /\ locals' \in [Locals -> Objects \cup {NULL}]
    BY <1>0, <1>3, Allocated DEF Failed, Locals
  <2>3. UNCHANGED <<con, theirs, answer>>
    BY <1>3 DEF Failed
  <2>4. fault' \in {"none", "released", "null", "exited"}
    BY <1>3 DEF Types
  <2> QED
    BY <2>1, <2>2, <2>3, <2>4 DEF Types
<1>4. CASE addPayload
  <2>1. CASE Failed("no handle")
    BY <1>3, <1>4, <2>1 DEF addPayload, Failures
  <2>2. CASE ~Failed("no handle")
    <3>1. /\ con' = [con EXCEPT !.posted = locals["sb"]]
          /\ UNCHANGED <<locals, heap, theirs, answer, wire, fault>>
      BY <1>4, <2>2 DEF addPayload
    <3>2. con' \in Connections
      BY <3>1 DEF Types, Connections, Locals
    <3> QED
      BY <3>1, <3>2 DEF Types
  <2> QED
    BY <2>1, <2>2
<1>5. CASE writeHeaders
  <2> DEFINE message == <<Now, "headerMsg", Len(wire.headers)>>
  <2>1. Len(wire.headers) < MaxHeaders /\ wire.headers \in Seq(Headers)
    BY <1>5 DEF writeHeaders, Types, Wires
  <2>2. message \in Objects
    <3>1. Now \in 1 .. MaxCalls /\ Len(wire.headers) \in 0 .. MaxHeaders
      BY <1>0, <2>1 DEF Here, OpsAssumption
    <3> QED
      BY <3>1 DEF Objects
  <2>3. PICK header \in Headers :
          /\ wire' = [wire EXCEPT !.headers = Append(@, header)]
          /\ IF header = "description"
               THEN con' = [con EXCEPT !.msg = message] /\ heap' = heap \cup {message}
               ELSE /\ con' = [con EXCEPT !.rc = IF header = "code" THEN 1 ELSE 0]
                    /\ UNCHANGED heap
    BY <1>5 DEF writeHeaders, Headers
  <2> HIDE DEF message
  <2>4. Append(wire.headers, header) \in Seq(Headers) /\ Len(Append(wire.headers, header)) <= MaxHeaders
    BY <2>1, AppendProperties DEF OpsAssumption
  <2>5. wire' \in Wires /\ Len(wire'.headers) <= MaxHeaders
    BY <2>3, <2>4 DEF Types, Wires
  <2>6. con' \in Connections /\ heap' \subseteq Objects
    BY <2>2, <2>3 DEF Types, Connections
  <2> QED
    BY <1>5, <2>5, <2>6 DEF writeHeaders, Types
<1>6. CASE writeCb
  <2>0. Ending = "ok" /\ Place = 12 /\ Now > 0 /\ wire.body = NULL
    <3>1. Ending = "ok" /\ Place = 12
      BY <1>6, AtExchange
    <3> QED
      BY <1>0, <1>6, <3>1 DEF writeCb, Here
  <2>1. con.mHandle
    BY <2>0 DEF ConInv
  <2>2. con.mResponse = <<>>
    BY <2>0, <2>1 DEF ConInv
  <2>3. PICK body \in Bodies :
          /\ wire' = [wire EXCEPT !.body = body]
          /\ con' = [con EXCEPT !.mResponse = Append(@, body)]
    BY <1>6 DEF writeCb
  <2>4. con'.mResponse = <<body>>
    BY <2>2, <2>3 DEF Types, Connections
  <2>5. con' \in Connections
    BY <2>3, <2>4 DEF Types, Connections
  <2>6. wire' \in Wires /\ wire'.headers = wire.headers
    BY <2>3 DEF Types, Wires
  <2> QED
    BY <1>6, <2>5, <2>6 DEF writeCb, Types
<1>7. CASE getResponse
  <2>0. fault' \in {fault, "released"}
    BY <1>7 DEF getResponse
  <2>1. CASE \E text \in Failures : Failed(text)
    BY <1>3, <2>0, <2>1
  <2>2. CASE ~ \E text \in Failures : Failed(text)
    <3>1. /\ wire' = [wire EXCEPT !.end = "ok"]
          /\ UNCHANGED <<con, locals, heap, theirs, answer>>
      BY <1>7, <2>2 DEF getResponse, Failures
    <3>2. wire' \in Wires /\ wire'.headers = wire.headers
      BY <3>1 DEF Types, Wires
    <3> QED
      BY <2>0, <3>1, <3>2 DEF Types
  <2> QED
    BY <2>1, <2>2
<1>8. CASE checkStatus \/ checkError
  BY <1>8 DEF checkStatus, checkError, Types
<1> QED
  BY <1>1, <1>2, <1>4, <1>5, <1>6, <1>7, <1>8

LEMMA TypesOfResults ==
  ASSUME OpsAssumption, FlowInv, Types,
         SetFailed \/ SetUnsupported \/ SetError \/ cloneStatus \/ SetOK
         \/ HandStep \/ TakeFirst
  PROVE  Types'
<1>0. Here
  BY AtResults, AtHand DEF Onward
<1>1. CASE SetFailed \/ SetUnsupported \/ SetError \/ (cloneStatus /\ con.msg # NULL)
  <2>1. PICK rc \in Codes, text \in Texts : Report(rc, text)
    <3>1. wire.end \in Texts
      BY DEF Types, Wires, Texts
    <3> QED
      BY <1>1, <3>1 DEF SetFailed, SetUnsupported, SetError, cloneStatus, Codes, Texts
  <2>2. UNCHANGED <<con, locals, wire, fault>>
    BY <1>1 DEF SetFailed, SetUnsupported, SetError, cloneStatus
  <2>3. answer' \in Answers /\ heap' \subseteq Objects /\ theirs' \subseteq Objects
    BY <1>0, <2>1, Reported
  <2> QED
    BY <2>2, <2>3 DEF Types
<1>2. CASE SetOK \/ (cloneStatus /\ con.msg = NULL)
  <2>1. UNCHANGED <<con, locals, wire, fault, heap, theirs>>
    BY <1>2 DEF SetOK, cloneStatus
  <2>2. answer' \in Answers
    BY <1>2 DEF SetOK, cloneStatus, Types, Answers, Codes
  <2> QED
    BY <2>1, <2>2 DEF Types
<1>3. CASE HandStep
  <2>1. Given \in Locals
    BY <1>3, AtHand DEF Locals
  <2>2. locals[Given] \in Objects \cup {NULL}
    BY <2>1 DEF Types
  <2>3. answer' \in Answers /\ theirs' \subseteq Objects
    BY <1>3, <2>2 DEF HandStep, Types, Answers
  <2> QED
    BY <1>3, <2>3 DEF HandStep, Types
<1>4. CASE TakeFirst
  <2>1. HasElement => Element(locals["rvArray"]) \in Objects
    BY DEF HasElement, Types
  <2>2. answer' \in Answers /\ theirs' \subseteq Objects
    BY <1>4, <2>1 DEF TakeFirst, Types, Answers
  <2> QED
    BY <1>4, <2>2 DEF TakeFirst, Types
<1> QED
  BY <1>1, <1>2, <1>3, <1>4

LEMMA TypesAtRest ==
  ASSUME OpsAssumption, FlowInv, Types,
         \/ \E op \in Ops : Call(op)
         \/ \E object \in theirs : CallerReleases(object)
         \/ releaseClient \/ ReturnStep \/ UNCHANGED vars
  PROVE  Types'
<1>0. NoLocals \in [Locals -> Objects \cup {NULL}]
  BY DEF NoLocals
<1>1. ASSUME NEW op \in Ops, Call(op)
      PROVE  Types'
  <2>1. wire' \in Wires /\ Len(wire'.headers) <= MaxHeaders
    BY <1>1 DEF Call, NoWire, Wires, Arguments, OpsAssumption
  <2>2. answer' \in Answers
    <3>1. PICK wanted \in BOOLEAN : answer' = [NoAnswer EXCEPT !.wanted = wanted]
      BY <1>1 DEF Call
    <3> QED
      BY <3>1 DEF NoAnswer, Answers, Codes, Texts
  <2> QED
    BY <1>0, <1>1, <2>1, <2>2 DEF Call, Types
<1>2. ASSUME NEW object \in theirs, CallerReleases(object)
      PROVE  Types'
  BY <1>2 DEF CallerReleases, Release, Types
<1>3. CASE releaseClient
  BY <1>3 DEF releaseClient, Release, Types, Connections
<1>4. CASE ReturnStep
  BY <1>0, <1>4 DEF ReturnStep, Types
<1>5. CASE UNCHANGED vars
  BY <1>5 DEF vars, Types
<1> QED
  BY <1>1, <1>2, <1>3, <1>4, <1>5

LEMMA TypesStep ==
  OpsAssumption /\ FlowInv /\ Types /\ ConInv /\ [Next]_vars => Types'
BY TypesOfSteps, TypesOfExchange, TypesOfResults, TypesAtRest DEF Next
----------------------------------------------------------------------------
(* What the exchange has come to, and what the connection tells of it.     *)

WireInv ==
  Now > 0 =>
    /\ wire.argument = "unsupported" <=> Ending = "argument"
    /\ wire.body = "outArgs" => Op = "invokeMethod"
    /\ Ending = "ok" /\ Place <= 12 => wire.end = "none"
    /\ Ending = "ok" /\ Place < 12 => wire.headers = <<>> /\ wire.body = NULL
    /\ Ending = "ok" /\ Place > 12 => wire.end = "ok" /\ wire.body # NULL
    /\ Ending \in {"header", "error"} => wire.end = "ok"
    /\ Ending = "transport" => wire.end \in Failures
    /\ Ending = "ok" /\ Place > 15 => ~Refused
    /\ Ending = "header" => Refused
    /\ Ending = "error" => ~Refused /\ wire.body = "error"
    /\ Ending = "ok" /\ Place > 19 => wire.body # "error"

LEMMA Appended ==
  ASSUME NEW h \in Headers, wire.headers \in Seq(Headers),
         wire'.headers = Append(wire.headers, h)
  PROVE  /\ Refused' <=> (h = "code" \/ (h = "description" /\ Refused))
         /\ Described' <=> (h = "description" \/ Described)
<1> DEFINE s == wire.headers
           n == Len(s)
           t == Append(s, h)
<1>1. /\ n \in Nat /\ DOMAIN s = 1..n /\ DOMAIN t = 1..(n + 1)
      /\ t[n + 1] = h /\ \A i \in 1..n : t[i] = s[i]
  BY AppendProperties
<1>2. Refused <=> \E i \in 1..n : s[i] = "code" /\ \A j \in 1..n : j > i => s[j] = "description"
  BY <1>1 DEF Refused
<1>3. Refused' <=>
        \E i \in 1..(n + 1) : t[i] = "code" /\ \A j \in 1..(n + 1) : j > i => t[j] = "description"
  BY <1>1 DEF Refused
<1>4. Described <=> \E i \in 1..n : s[i] = "description"
  BY <1>1 DEF Described
<1>5. Described' <=> \E i \in 1..(n + 1) : t[i] = "description"
  BY <1>1 DEF Described
<1> HIDE DEF s, n, t
<1>6. \A i \in 1..(n + 1) : i \in 1..n \/ i = n + 1
  BY <1>1
<1>7. \A i \in 1..n : i \in 1..(n + 1) /\ n + 1 > i
  BY <1>1
<1>8. n + 1 \in 1..(n + 1)
  BY <1>1
<1>9. Described' <=> (h = "description" \/ Described)
  BY <1>1, <1>4, <1>5, <1>6, <1>7, <1>8
<1>10. ASSUME Refused' PROVE h = "code" \/ (h = "description" /\ Refused)
  <2>1. PICK i \in 1..(n + 1) :
          t[i] = "code" /\ \A j \in 1..(n + 1) : j > i => t[j] = "description"
    BY <1>3, <1>10
  <2>2. CASE i = n + 1
    BY <1>1, <2>1, <2>2
  <2>3. CASE i \in 1..n
    <3>1. h = "description"
      BY <1>1, <1>7, <1>8, <2>1, <2>3
    <3>2. s[i] = "code" /\ \A j \in 1..n : j > i => s[j] = "description"
      BY <1>1, <1>7, <2>1, <2>3
    <3> QED
      BY <1>2, <2>3, <3>1, <3>2
  <2> QED
    BY <1>6, <2>2, <2>3
<1>11. ASSUME h = "code" PROVE Refused'
  BY <1>1, <1>3, <1>8, <1>11
<1>12. ASSUME h = "description", Refused PROVE Refused'
  <2>1. PICK i \in 1..n : s[i] = "code" /\ \A j \in 1..n : j > i => s[j] = "description"
    BY <1>2, <1>12
  <2>2. t[i] = "code" /\ \A j \in 1..(n + 1) : j > i => t[j] = "description"
    BY <1>1, <1>6, <1>12, <2>1
  <2> QED
    BY <1>3, <1>7, <2>2
<1> QED
  BY <1>9, <1>10, <1>11, <1>12

\* A step that leaves the wire alone and is none of those that look at it.
LEMMA WireOnward ==
  ASSUME WireInv, Onward, wire' = wire, Ending = "ok" => Place \notin {12, 15, 19}
  PROVE  WireInv'
<1>1. /\ Now > 0 /\ Now' = Now /\ Op' = Op /\ Ending' = Ending
      /\ Place \in 1..28 /\ Place' \in 1..28 /\ Place < Place'
      /\ Refused' = Refused
      /\ Ending = "ok" => Keeps(12) /\ Keeps(15) /\ Keeps(19)
  BY DEF Onward, Here, Advances, Refused
<1> QED
  BY <1>1 DEF WireInv, Keeps

LEMMA ConOnward ==
  ASSUME ConInv, Onward, wire' = wire, con' = con, Ending = "ok" => Place \notin {2, 11}
  PROVE  ConInv'
<1>1. /\ Now > 0 /\ Now' = Now /\ Op' = Op /\ Ending' = Ending
      /\ Place \in 1..28 /\ Place' \in 1..28 /\ Place < Place'
      /\ Refused' = Refused /\ Described' = Described
      /\ Ending = "ok" => Keeps(2) /\ Keeps(11)
  BY DEF Onward, Here, Advances, Refused, Described
<1>2. CASE Ending = "ok"
  <2>1. (2 < Place' => 2 < Place) /\ (11 < Place' => 11 < Place)
    BY <1>1, <1>2 DEF Keeps
  <2>2. Place' <= 15 => Place <= 15
    BY <1>1
  <2> QED
    BY <1>1, <1>2, <2>1, <2>2 DEF ConInv
<1>3. CASE Ending # "ok"
  <2>1. Place' <= 16 => Place <= 16
    BY <1>1
  <2> QED
    BY <1>1, <1>3, <2>1 DEF ConInv
<1> QED
  BY <1>2, <1>3

LEMMA WireSteps ==
  ASSUME FlowInv, WireInv, ConInv,
         NewStep \/ FreeStep \/ HandStep \/ genRequest \/ scanCimXmlResponse
         \/ SetFailed \/ SetUnsupported \/ SetError \/ cloneStatus \/ SetOK
         \/ CloneFirst \/ CloneValue \/ TakeFirst \/ OutArguments
  PROVE  WireInv' /\ ConInv'
<1>1. CASE genRequest
  <2>1. Onward /\ Ending = "ok" /\ Place = 2 /\ wire' = wire
    BY <1>1, AtExchange DEF genRequest
  <2>2. WireInv'
    BY <2>1, WireOnward
  <2>3. /\ Now > 0 /\ Now' = Now /\ Ending' = "ok" /\ Place' \in 3..28 /\ Place' <= 11
    BY <2>1 DEF Onward, Here, Advances, Keeps
  <2>4. wire'.headers = <<>> /\ wire'.body = NULL
    BY <2>1, <2>3 DEF WireInv, Onward, Here
  <2>5. ~Refused' /\ ~Described'
    BY <2>4 DEF Refused, Described
  <2>6. con'.mHandle => con'.rc = 0 /\ con'.msg = NULL /\ con'.mResponse = <<>>
    BY <1>1 DEF genRequest, ResetConnection
  <2>7. ConInv'
    BY <2>3, <2>4, <2>5, <2>6 DEF ConInv
  <2> QED
    BY <2>2, <2>7
<1>2. CASE ~genRequest
  <2>1. Onward /\ (Ending = "ok" => Place \notin {2, 11, 12, 15, 19})
    BY <1>2, AtNew, AtFree, AtHand, AtExchange, AtResults DEF NewAtPlace, FreeAtPlace
  <2>2. wire' = wire /\ con' = con
    BY <1>2 DEF NewStep, FreeStep, HandStep, scanCimXmlResponse, SetFailed, SetUnsupported,
       SetError, cloneStatus, SetOK, CloneFirst, CloneValue, TakeFirst, OutArguments
  <2> QED
    BY <2>1, <2>2, WireOnward, ConOnward
<1> QED
  BY <1>1, <1>2

LEMMA WireOfExchange ==
  ASSUME OpsAssumption, FlowInv, Types, WireInv, ConInv,
         InArguments \/ addPayload \/ writeHeaders \/ writeCb \/ getResponse
         \/ checkStatus \/ checkError
  PROVE  WireInv' /\ ConInv'
<1>0. Here
  <2>1. todo # <<>>
    BY DEF InArguments, addPayload, writeHeaders, writeCb, getResponse,
           checkStatus, checkError, Doing
  <2> QED
    BY <2>1, Where DEF Here, FlowInv
<1>1. CASE InArguments
  <2>1. PICK argument \in {"plain", "instance", "unsupported"} :
          /\ wire' = [wire EXCEPT !.argument = argument]
          /\ IF argument = "unsupported" THEN Leave ELSE Proceed
    BY <1>1 DEF InArguments
  <2>2. con' = con /\ Ending = "ok" /\ Place = 7
    BY <1>1, AtExchange DEF InArguments
  <2>3. /\ wire'.argument = argument /\ wire'.headers = wire.headers
        /\ wire'.body = wire.body /\ wire'.end = wire.end
    BY <2>1 DEF Types, Wires
  <2>4. Refused' = Refused /\ Described' = Described
    BY <2>3 DEF Refused, Described
  <2>5. CASE argument = "unsupported"
    <3>1. Ending' = "argument" /\ Place' = 8 /\ Op' = Op /\ Now' = Now
      BY <1>1, <2>1, <2>5, AtChoices
    <3> QED
      BY <1>0, <2>2, <2>3, <2>4, <2>5, <3>1 DEF WireInv, ConInv, Here
  <2>6. CASE argument # "unsupported"
    <3>1. Onward
      BY <1>1, <2>1, <2>6, AtChoices
    <3>2. Ending' = "ok" /\ Place' \in 8..11 /\ Op' = Op /\ Now' = Now
      BY <2>2, <3>1 DEF Onward, Advances, Keeps
    <3> QED
      BY <1>0, <2>2, <2>3, <2>4, <2>6, <3>2 DEF WireInv, ConInv, Here
  <2> QED
    BY <2>5, <2>6
<1>2. ASSUME NEW text \in Failures, Failed(text), Ending = "ok",
             Ending' = "transport", Op' = Op, Now' = Now
      PROVE  WireInv' /\ ConInv'
  <2>1. /\ wire'.argument = wire.argument /\ wire'.headers = wire.headers
        /\ wire'.body = wire.body /\ wire'.end = text
    BY <1>2 DEF Failed, Types, Wires
  <2> QED
    BY <1>0, <1>2, <2>1 DEF WireInv, ConInv, Here
<1>3. CASE addPayload
  <2>1. Ending = "ok" /\ Place = 11
    BY <1>3, AtExchange
  <2>2. CASE Failed("no handle")
    <3>1. Ending' = "transport" /\ Op' = Op /\ Now' = Now
      BY <1>3, <2>2, AtChoices DEF Failed
    <3> QED
      BY <1>2, <2>1, <2>2, <3>1 DEF Failures
  <2>3. CASE ~Failed("no handle")
    <3>1. /\ con.mHandle /\ Proceed /\ wire' = wire
          /\ con' = [con EXCEPT !.posted = locals["sb"]]
      BY <1>3, <2>3 DEF addPayload
    <3>2. Onward
      BY <1>3, <3>1, AtChoices
    <3>3. WireInv'
      BY <2>1, <3>1, <3>2, WireOnward
    <3>4. /\ con'.mHandle = con.mHandle /\ con'.mResponse = con.mResponse
          /\ con'.rc = con.rc /\ con'.msg = con.msg
      BY <3>1 DEF Types, Connections
    <3>5. Ending' = "ok" /\ Place' = 12 /\ Now' = Now /\ Refused' = Refused /\ Described' = Described
      <4>1. Ending' = "ok" /\ Now' = Now /\ Place' \in 1..28 /\ 11 < Place' /\ Keeps(12)
        BY <2>1, <3>2 DEF Onward, Advances
      <4>2. Place' = 12
        BY <2>1, <4>1 DEF Keeps
      <4>3. Refused' = Refused /\ Described' = Described
        BY <3>1 DEF Refused, Described
      <4> QED
        BY <4>1, <4>2, <4>3
    <3>6. ConInv'
      BY <1>0, <2>1, <3>1, <3>4, <3>5 DEF ConInv, Here
    <3> QED
      BY <3>3, <3>6
  <2> QED
    BY <2>2, <2>3
<1>4. CASE writeHeaders
  <2>1. Rests /\ Ending = "ok" /\ Place = 12 /\ con.mHandle
    <3>1. Rests /\ Ending = "ok" /\ Place = 12
      BY <1>4, AtExchange
    <3> QED
      BY <1>0, <3>1 DEF ConInv, Here
  <2>2. PICK header \in Headers :
          /\ wire' = [wire EXCEPT !.headers = Append(@, header)]
          /\ IF header = "description"
               THEN con' = [con EXCEPT !.msg = <<Now, "headerMsg", Len(wire.headers)>>]
               ELSE con' = [con EXCEPT !.rc = IF header = "code" THEN 1 ELSE 0]
    BY <1>4 DEF writeHeaders, Headers
  <2>3. /\ wire'.argument = wire.argument /\ wire'.body = wire.body /\ wire'.end = wire.end
        /\ wire'.headers = Append(wire.headers, header)
    BY <2>2 DEF Types, Wires
  <2>4. /\ Refused' <=> (header = "code" \/ (header = "description" /\ Refused))
        /\ Described' <=> (header = "description" \/ Described)
    BY <2>3, Appended DEF Types, Wires
  <2>5. /\ con'.mHandle = con.mHandle /\ con'.mResponse = con.mResponse
        /\ header = "description" =>
             con'.rc = con.rc /\ con'.msg = <<Now, "headerMsg", Len(wire.headers)>>
        /\ header # "description" =>
             con'.msg = con.msg /\ con'.rc = IF header = "code" THEN 1 ELSE 0
    BY <2>2 DEF Types, Connections
  <2>6. <<Now, "headerMsg", Len(wire.headers)>> # NULL
    <3>1. Now \in 1 .. MaxCalls /\ Len(wire.headers) \in 0 .. MaxHeaders
      BY <1>0 DEF Here, OpsAssumption, Types, Wires
    <3>2. <<Now, "headerMsg", Len(wire.headers)>> \in Objects
      BY <3>1 DEF Objects
    <3> QED
      BY <3>2 DEF OpsAssumption
  <2>7. WireInv'
    BY <1>0, <2>1, <2>3 DEF WireInv, Rests, Here
  <2>8. ConInv'
    <3>1. /\ con'.rc # 0 <=> Refused'
          /\ con'.msg # NULL <=> Described'
      <4>1. (con.rc # 0 <=> Refused) /\ (con.msg # NULL <=> Described)
        BY <1>0, <2>1 DEF ConInv, Here
      <4>2. CASE header = "description"
        BY <2>4, <2>5, <2>6, <4>1, <4>2
      <4>3. CASE header = "code"
        BY <2>4, <2>5, <4>1, <4>3
      <4>4. CASE header = "zero"
        BY <2>4, <2>5, <4>1, <4>4
      <4> QED
        BY <4>2, <4>3, <4>4 DEF Headers
    <3> QED
      BY <1>0, <2>1, <2>3, <2>5, <3>1 DEF ConInv, Rests, Here
  <2> QED
    BY <2>7, <2>8
<1>5. CASE writeCb
  <2>1. Rests /\ Ending = "ok" /\ Place = 12 /\ con.mHandle
    <3>1. Rests /\ Ending = "ok" /\ Place = 12
      BY <1>5, AtExchange
    <3> QED
      BY <1>0, <3>1 DEF ConInv, Here
  <2>2. PICK body \in Bodies :
          /\ body = "outArgs" => Op = "invokeMethod"
          /\ wire' = [wire EXCEPT !.body = body]
          /\ con' = [con EXCEPT !.mResponse = Append(@, body)]
    BY <1>5 DEF writeCb
  <2>3. /\ wire'.argument = wire.argument /\ wire'.body = body /\ wire'.end = wire.end
        /\ wire'.headers = wire.headers /\ body # NULL
    BY <2>2 DEF Types, Wires, OpsAssumption
  <2>4. con.mResponse = <<>>
    BY <1>0, <1>5, <2>1 DEF ConInv, Here, writeCb
  <2>5. /\ con'.mHandle = con.mHandle /\ con'.mResponse = <<body>>
        /\ con'.rc = con.rc /\ con'.msg = con.msg
    BY <2>2, <2>4 DEF Types, Connections
  <2>6. Refused' = Refused /\ Described' = Described
    BY <2>3 DEF Refused, Described
  <2> QED
    BY <1>0, <2>1, <2>2, <2>3, <2>5, <2>6 DEF WireInv, ConInv, Rests, Here
<1>6. CASE getResponse
  <2>1. Ending = "ok" /\ Place = 12 /\ con.mHandle
    <3>1. Ending = "ok" /\ Place = 12
      BY <1>6, AtExchange
    <3> QED
      BY <1>0, <3>1 DEF ConInv, Here
  <2>2. CASE \E text \in Failures : Failed(text)
    <3>1. Ending' = "transport" /\ Op' = Op /\ Now' = Now
      BY <1>6, <2>2, AtChoices DEF Failed
    <3> QED
      BY <1>2, <2>1, <2>2, <3>1
  <2>3. CASE ~ \E text \in Failures : Failed(text)
    <3>1. /\ con.mResponse # <<>> /\ Proceed /\ con' = con
          /\ wire' = [wire EXCEPT !.end = "ok"]
      BY <1>6, <2>3 DEF getResponse, Failures
    <3>2. Onward
      BY <1>6, <3>1, AtChoices
    <3>3. Ending' = "ok" /\ Place' \in 13..15 /\ Op' = Op /\ Now' = Now
      BY <2>1, <3>2 DEF Onward, Advances, Keeps
    <3>4. /\ wire'.argument = wire.argument /\ wire'.body = wire.body /\ wire'.end = "ok"
          /\ wire'.headers = wire.headers
      BY <3>1 DEF Types, Wires
    <3>5. Refused' = Refused /\ Described' = Described
      BY <3>4 DEF Refused, Described
    <3>6. wire.body # NULL
      BY <1>0, <2>1, <3>1 DEF ConInv, Here
    <3> QED
      BY <1>0, <2>1, <3>1, <3>3, <3>4, <3>5, <3>6 DEF WireInv, ConInv, Here
  <2> QED
    BY <2>2, <2>3
<1>7. CASE checkStatus
  <2>1. Ending = "ok" /\ Place = 15 /\ con.mHandle
    <3>1. Ending = "ok" /\ Place = 15
      BY <1>7, AtExchange
    <3> QED
      BY <1>0, <3>1 DEF ConInv, Here
  <2>2. (con.rc # 0 <=> Refused) /\ (con.msg # NULL <=> Described)
    BY <1>0, <2>1 DEF ConInv, Here
  <2>3. con' = con /\ wire' = wire /\ Refused' = Refused /\ Described' = Described
    BY <1>7 DEF checkStatus, Refused, Described
  <2>4. CASE con.rc # 0
    <3>1. Ending' = "header" /\ Place' = 16 /\ Op' = Op /\ Now' = Now
      BY <1>7, <2>4, AtChoices DEF checkStatus
    <3> QED
      BY <1>0, <2>1, <2>2, <2>3, <2>4, <3>1 DEF WireInv, ConInv, Here
  <2>5. CASE con.rc = 0
    <3>1. Onward
      BY <1>7, <2>5, AtChoices DEF checkStatus
    <3>2. Ending' = "ok" /\ Place' \in 16..17 /\ Op' = Op /\ Now' = Now
      BY <2>1, <3>1 DEF Onward, Advances, Keeps
    <3> QED
      BY <1>0, <2>1, <2>2, <2>3, <2>5, <3>2 DEF WireInv, ConInv, Here
  <2> QED
    BY <2>4, <2>5
<1>8. CASE checkError
  <2>1. Ending = "ok" /\ Place = 19 /\ con.mHandle /\ wire.body # NULL
    <3>1. Ending = "ok" /\ Place = 19
      BY <1>8, AtExchange
    <3> QED
      BY <1>0, <3>1 DEF ConInv, WireInv, Here
  <2>2. Scanned = wire.body
    BY <1>0, <2>1 DEF ConInv, Here, Scanned
  <2>3. con' = con /\ wire' = wire /\ Refused' = Refused /\ Described' = Described
    BY <1>8 DEF checkError, Refused, Described
  <2>4. CASE Scanned = "error"
    <3>1. Ending' = "error" /\ Place' = 20 /\ Op' = Op /\ Now' = Now
      BY <1>8, <2>4, AtChoices DEF checkError
    <3> QED
      BY <1>0, <2>1, <2>2, <2>3, <2>4, <3>1 DEF WireInv, ConInv, Here
  <2>5. CASE Scanned # "error"
    <3>1. Onward
      BY <1>8, <2>5, AtChoices DEF checkError
    <3>2. Ending' = "ok" /\ Place' \in 20..28 /\ Op' = Op /\ Now' = Now
      BY <2>1, <3>1 DEF Onward, Advances
    <3> QED
      BY <1>0, <2>1, <2>2, <2>3, <2>5, <3>2 DEF WireInv, ConInv, Here
  <2> QED
    BY <2>4, <2>5
<1> QED
  BY <1>1, <1>3, <1>4, <1>5, <1>6, <1>7, <1>8

LEMMA WireAtRest ==
  ASSUME OpsAssumption, FlowInv, Types, WireInv, ConInv,
         \/ \E op \in Ops : Call(op)
         \/ \E object \in theirs : CallerReleases(object)
         \/ releaseClient \/ ReturnStep \/ UNCHANGED vars
  PROVE  WireInv' /\ ConInv'
<1>1. ASSUME NEW op \in Ops, Call(op)
      PROVE  WireInv' /\ ConInv'
  <2>1. Ending' = "ok" /\ Place' = 1
    BY <1>1, CallFlows
  <2>2. wire' = NoWire
    BY <1>1 DEF Call
  <2>3. wire'.argument = "none" /\ wire'.headers = <<>> /\ wire'.body = NULL /\ wire'.end = "none"
    BY <2>2 DEF NoWire
  <2>4. wire'.body # "outArgs"
    BY <2>3 DEF OpsAssumption, AllBodies
  <2> QED
    BY <2>1, <2>3, <2>4 DEF WireInv, ConInv
<1>2. ASSUME Rests, wire' = wire,
             con' = con \/ (Place = 29 /\ con'.mHandle = con.mHandle /\ con'.mResponse = con.mResponse)
      PROVE  WireInv' /\ ConInv'
  <2>1. Refused' = Refused /\ Described' = Described
    BY <1>2 DEF Refused, Described
  <2>2. WireInv'
    BY <1>2, <2>1 DEF WireInv, Rests
  <2>3. ConInv'
    BY <1>2, <2>1 DEF ConInv, Rests
  <2> QED
    BY <2>2, <2>3
<1>3. ASSUME NEW object \in theirs, CallerReleases(object)
      PROVE  WireInv' /\ ConInv'
  <2>1. Rests /\ wire' = wire /\ con' = con
    BY <1>3, AtRest DEF CallerReleases
  <2> QED
    BY <1>2, <2>1
<1>4. CASE releaseClient
  <2>1. /\ Rests /\ Place = 29 /\ wire' = wire
        /\ con'.mHandle = con.mHandle /\ con'.mResponse = con.mResponse
    BY <1>4, AtRest DEF releaseClient, Types, Connections
  <2> QED
    BY <1>2, <2>1
<1>5. CASE ReturnStep
  <2>1. /\ Now' = Now /\ Op' = Op /\ Ending' = Ending /\ Place = 28 /\ Place' = 29
        /\ con' = con /\ wire' = wire /\ Refused' = Refused /\ Described' = Described
    BY <1>5, ReturnFlows DEF ReturnStep, Refused, Described
  <2>2. WireInv'
    BY <2>1 DEF WireInv
  <2>3. ConInv'
    BY <2>1 DEF ConInv
  <2> QED
    BY <2>2, <2>3
<1>6. CASE UNCHANGED vars
  <2>1. Rests /\ wire' = wire /\ con' = con
    BY <1>6, AtRest DEF vars
  <2> QED
    BY <1>2, <2>1
<1> QED
  BY <1>1, <1>3, <1>4, <1>5, <1>6

LEMMA WireStep ==
  OpsAssumption /\ FlowInv /\ Types /\ WireInv /\ ConInv /\ [Next]_vars => WireInv' /\ ConInv'
BY WireSteps, WireOfExchange, WireAtRest DEF Next
----------------------------------------------------------------------------
(* The memory.                                                             *)

\* The last place at which the object that a pointer was set to is needed.
LastUse == [sb |-> 17, error |-> 14, cn |-> 6, cv |-> 4, rvArray |-> 25,
            description |-> 21, outArgs |-> 22, result |-> 27, argname |-> 0, text |-> 0]

PointersInv ==
  /\ con.msg # NULL => con.msg \in heap /\ con.msg[2] = "headerMsg"
  /\ \A v \in Locals : locals[v] \in {NULL, Object(v)}
  /\ \A v \in Locals : Place <= LastUse[v] /\ locals[v] # NULL => Object(v) \in heap
  /\ Now > 0 =>
       /\ Ending = "ok" /\ 1 < Place /\ Place <= 17 => locals["sb"] = Object("sb")
       /\ Ending = "ok" /\ Place = 12 => con.posted = Object("sb")
       /\ Ending = "error" => Place > 19
       /\ Ending \in {"ok", "error"} /\ 18 < Place /\ Place <= 25 =>
            locals["rvArray"] = Object("rvArray")
       /\ Place <= 18 \/ wire.body = "error" => locals["outArgs"] = NULL

\* What the caller has is there and never a part of something else it has.
TheirsInv ==
  /\ \A o \in heap : o[1] <= Now
  /\ theirs \subseteq heap
  /\ \A o \in theirs : o[2] \in {"statusMsg", "rvArray", "element", "result"}
  /\ \A o \in theirs : o[1] = Now /\ o[2] \in {"rvArray", "element"} => Place > 25
  /\ \A o, p \in theirs : o[2] = "rvArray" /\ p[2] = "element" => o[1] # p[1]

MemInv == fault # "released" /\ (fault = "none" => PointersInv /\ TheirsInv)

\* The operation gets on, by whatever step.
Moves ==
  /\ Here /\ Now' = Now /\ Op' = Op /\ Place' \in 1..29 /\ Place < Place'
  /\ Ending' = "ok" => Ending = "ok" /\ Keeps(11) /\ Keeps(18)
  /\ Ending' = "error" => Ending = "error" \/ (Ending = "ok" /\ Place = 19 /\ Place' = 20)

LEMMA MovesUp ==
  Moves => Place \in 1..28 /\ Place' \in 1..29 /\ Place < Place' /\ Now \in Nat /\ Now > 0
BY DEF Moves, Here

LEMMA OnwardMoves == Onward => Moves
<1> SUFFICES ASSUME Onward
             PROVE  Moves
  OBVIOUS
<1> QED
  BY DEF Onward, Moves, Here, Advances

LEMMA ChoiceMoves ==
  ASSUME FlowInv, InArguments \/ addPayload \/ getResponse \/ checkStatus \/ checkError
  PROVE  Moves /\ (Proceed => Onward) /\ (Leave => Ending' # "ok")
<1>0. Proceed \/ Leave
  BY DEF InArguments, addPayload, getResponse, checkStatus, checkError, Failed
<1>1. CASE Leave
  <2>1. Here /\ Now' = Now /\ Op' = Op
    BY <1>1, AtChoices
  <2>2. Ending = "ok" /\ \/ Place = 7 /\ Place' = 8 /\ Ending' = "argument"
                         \/ Place = 11 /\ Place' = 13 /\ Ending' = "transport"
                         \/ Place = 12 /\ Place' = 13 /\ Ending' = "transport"
                         \/ Place = 15 /\ Place' = 16 /\ Ending' = "header"
                         \/ Place = 19 /\ Place' = 20 /\ Ending' = "error"
    BY <1>1, AtChoices, AtExchange
  <2>3. Moves /\ Ending' # "ok"
    BY <2>1, <2>2 DEF Moves
  <2>4. Proceed => Onward
    BY AtChoices
  <2> QED
    BY <2>3, <2>4
<1>2. CASE Proceed /\ ~Leave
  BY <1>2, AtChoices, OnwardMoves
<1> QED
  BY <1>0, <1>1, <1>2

LEMMA ReturnMoves == ASSUME FlowInv, ReturnStep PROVE Moves
<1>1. /\ Ending' = Ending /\ Place = 28 /\ Place' = 29 /\ Op' = Op /\ Now' = Now
  BY ReturnFlows
<1>2. Here
  BY Where DEF ReturnStep, Doing, Here, FlowInv
<1> QED
  BY <1>1, <1>2 DEF Moves, Keeps

LEMMA PointersMove ==
  ASSUME OpsAssumption, PointersInv, Moves, wire'.body = wire.body,
         con'.msg \in {con.msg, NULL}, con.msg \in heap => con.msg \in heap',
         \A v \in Locals :
           \/ locals'[v] = NULL
           \/ /\ locals'[v] = locals[v]
              /\ Object(v) \in heap /\ Place' <= LastUse[v] => Object(v) \in heap'
           \/ locals'[v] = Object(v) /\ Object(v) \in heap',
         Ending' = "ok" /\ Place' <= 17 =>
           locals'["sb"] = IF Place = 1 THEN Object("sb") ELSE locals["sb"],
         Ending' = "ok" /\ Place = 11 => con'.posted = Object("sb"),
         Place' <= 25 =>
           locals'["rvArray"] = IF Place = 18 THEN Object("rvArray") ELSE locals["rvArray"],
         \/ locals'["outArgs"] \in {NULL, locals["outArgs"]}
         \/ Place = 18 /\ wire.body # "error"
  PROVE  PointersInv'
<1>1. /\ Place \in 1..28 /\ Place' \in 1..29 /\ Place < Place' /\ Now' = Now /\ Now > 0
      /\ Ending' = "ok" => Ending = "ok" /\ Keeps(11) /\ Keeps(18)
      /\ Ending' = "error" => Ending = "error" \/ (Ending = "ok" /\ Place = 19 /\ Place' = 20)
  BY DEF Moves, Here
<1>2. \A v : Object(v)' = Object(v)
  BY <1>1 DEF Object
<1>3. con'.msg # NULL => con'.msg \in heap' /\ con'.msg[2] = "headerMsg"
  BY DEF PointersInv
<1>4. ASSUME NEW v \in Locals
      PROVE  /\ locals'[v] \in {NULL, Object(v)}
             /\ Place' <= LastUse[v] /\ locals'[v] # NULL => Object(v) \in heap'
  <2>1. LastUse[v] \in 0..28
    BY DEF Locals, LastUse
  <2>2. Place' <= LastUse[v] => Place <= LastUse[v]
    BY <1>1, <2>1
  <2>3. /\ locals[v] \in {NULL, Object(v)}
        /\ Place <= LastUse[v] /\ locals[v] # NULL => Object(v) \in heap
    BY DEF PointersInv
  <2> QED
    BY <2>2, <2>3
<1>5. Ending' = "ok" /\ 1 < Place' /\ Place' <= 17 => locals'["sb"] = Object("sb")
  BY <1>1 DEF PointersInv
<1>6. Ending' = "ok" /\ Place' = 12 => con'.posted = Object("sb")
  BY <1>1 DEF Keeps
<1>7. Ending' = "error" => Place' > 19
  BY <1>1 DEF PointersInv
<1>8. Ending' \in {"ok", "error"} /\ 18 < Place' /\ Place' <= 25 =>
        locals'["rvArray"] = Object("rvArray")
  BY <1>1 DEF PointersInv, Keeps
<1>9. Place' <= 18 \/ wire'.body = "error" => locals'["outArgs"] = NULL
  BY <1>1 DEF PointersInv
<1> QED
  BY <1>1, <1>2, <1>3, <1>4, <1>5, <1>6, <1>7, <1>8, <1>9 DEF PointersInv

LEMMA TheirsMove ==
  ASSUME Types, TheirsInv, Moves,
         \A o \in heap' : o \in heap \/ o[1] = Now,
         \A o \in theirs : o \in heap',
         \A o \in theirs' : o \in theirs \/ (o \in heap' /\ o[1] = Now),
         \A o \in theirs' \ theirs :
           \/ o[2] \in {"statusMsg", "result"}
           \/ o[2] \in {"rvArray", "element"} /\ Place = 25,
         \A o, p \in theirs' \ theirs : o = p
  PROVE  TheirsInv'
<1>1. /\ Place \in 1..28 /\ Place' \in 1..29 /\ Place < Place' /\ Now' = Now /\ Now \in Nat
  BY DEF Moves, Here
<1>2. \A o \in heap : o[1] \in Nat
  BY DEF Types, Objects
<1>3. \A o \in heap' : o[1] <= Now
  BY <1>1, <1>2 DEF TheirsInv
<1>4. theirs' \subseteq heap'
  OBVIOUS
<1>5. \A o \in theirs' : o[2] \in {"statusMsg", "rvArray", "element", "result"}
  BY DEF TheirsInv
<1>6. \A o \in theirs' : o[1] = Now /\ o[2] \in {"rvArray", "element"} => Place' > 25
  BY <1>1 DEF TheirsInv
<1>7. ASSUME NEW o \in theirs', NEW p \in theirs', o[2] = "rvArray", p[2] = "element"
      PROVE  o[1] # p[1]
  <2>1. CASE o \in theirs /\ p \in theirs
    BY <1>7, <2>1 DEF TheirsInv
  <2>2. CASE o \in theirs /\ p \notin theirs
    <3>1. p[1] = Now /\ Place = 25
      BY <1>7, <2>2
    <3> QED
      BY <1>7, <2>2, <3>1 DEF TheirsInv
  <2>3. CASE o \notin theirs /\ p \in theirs
    <3>1. o[1] = Now /\ Place = 25
      BY <1>7, <2>3
    <3> QED
      BY <1>7, <2>3, <3>1 DEF TheirsInv
  <2>4. CASE o \notin theirs /\ p \notin theirs
    BY <1>7, <2>4
  <2> QED
    BY <2>1, <2>2, <2>3, <2>4
<1> QED
  BY <1>1, <1>3, <1>4, <1>5, <1>6, <1>7 DEF TheirsInv
\* A step that allocates at most, and hands nothing over.
LEMMA MemGrows ==
  ASSUME OpsAssumption, Types, PointersInv, TheirsInv, Moves,
         wire'.body = wire.body, con'.msg \in {con.msg, NULL},
         heap \subseteq heap', \A o \in heap' : o \in heap \/ o[1] = Now,
         theirs' \subseteq heap', \A o \in theirs' \ theirs : o[1] = Now /\ o[2] = "statusMsg",
         \A o, p \in theirs' \ theirs : o = p,
         \A v \in Locals : locals'[v] = locals[v] \/ (locals'[v] = Object(v) /\ Object(v) \in heap'),
         Ending' = "ok" /\ Place' <= 17 =>
           locals'["sb"] = IF Place = 1 THEN Object("sb") ELSE locals["sb"],
         Ending' = "ok" /\ Place = 11 => con'.posted = Object("sb"),
         Place # 18, locals'["rvArray"] = locals["rvArray"], locals'["outArgs"] = locals["outArgs"]
  PROVE  PointersInv' /\ TheirsInv'
<1>1. PointersInv'
  <2>1. \A v \in Locals :
           \/ locals'[v] = NULL
           \/ /\ locals'[v] = locals[v]
              /\ Object(v) \in heap /\ Place' <= LastUse[v] => Object(v) \in heap'
           \/ locals'[v] = Object(v) /\ Object(v) \in heap'
    OBVIOUS
  <2> QED
    BY <2>1, PointersMove
<1>2. TheirsInv'
  <2>1. \A o \in theirs : o \in heap'
    BY DEF TheirsInv
  <2> QED
    BY <2>1, TheirsMove
<1> QED
  BY <1>1, <1>2

LEMMA MemOfNew ==
  ASSUME OpsAssumption, FlowInv, Types, PointersInv, TheirsInv, NewStep
  PROVE  PointersInv' /\ TheirsInv' /\ fault' = fault
<1>1. Onward /\ NewAtPlace(Given) /\ Moves
  BY AtNew, OnwardMoves
<1>2. /\ heap' = heap \cup {Object(Given)} /\ locals' = [locals EXCEPT ![Given] = Object(Given)]
      /\ con' = con /\ theirs' = theirs /\ wire' = wire /\ fault' = fault
  BY DEF NewStep, Allocate
<1>3. Object(Given)[1] = Now
  BY DEF Object
<1>4. \A v \in Locals : locals'[v] = IF v = Given THEN Object(v) ELSE locals[v]
  BY <1>2 DEF Types
<1>5. /\ Given \notin {"rvArray", "outArgs"} /\ Place \notin {11, 18}
      /\ Ending = "ok" => (Given = "sb" <=> Place = 1)
      /\ Ending' = Ending
  BY <1>1 DEF NewAtPlace, Onward, Advances
<1>6. {"sb", "rvArray", "outArgs"} \subseteq Locals
  BY DEF Locals
<1>7. theirs' \subseteq heap'
  BY <1>2 DEF TheirsInv
<1> QED
  BY <1>1, <1>2, <1>3, <1>4, <1>5, <1>6, <1>7, MemGrows

\* What a pointer points to is released when it is needed last.
LEMMA MemOfRelease ==
  ASSUME OpsAssumption, Types, PointersInv, TheirsInv, Moves, NEW w \in Locals,
         w \notin {"result", "argname", "text"}, Place \notin {1, 11, 18},
         locals[w] # NULL => Place = LastUse[w], w = "rvArray" => Place = 25,
         Release(locals[w]), con' = con, locals' = locals, theirs' = theirs, wire' = wire
  PROVE  PointersInv' /\ TheirsInv' /\ fault' = fault
<1>1. Place < Place' /\ Place \in Nat /\ Place' \in Nat
  <2>1. Place \in 1..28 /\ Place' \in 1..29 /\ Place < Place'
    BY MovesUp
  <2> QED
    BY <2>1
<1>2. locals[w] = NULL \/ (locals[w] = Object(w) /\ Object(w) \in heap)
  <2>1. locals[w] \in {NULL, Object(w)}
    BY DEF PointersInv
  <2>2. locals[w] # NULL => Place <= LastUse[w]
    BY <1>1
  <2> QED
    BY <2>1, <2>2 DEF PointersInv
<1>3. CASE locals[w] = NULL
  <2>1. heap' = heap /\ fault' = fault
    BY <1>3 DEF Release
  <2>2. theirs' \subseteq heap'
    BY <2>1 DEF TheirsInv
  <2> QED
    BY <2>1, <2>2, MemGrows
<1>4. CASE locals[w] # NULL
  <2>1. heap' = heap \ Parts(Object(w)) /\ fault' = fault
    BY <1>2, <1>4 DEF Release
  <2>2. Parts(Object(w)) = IF w = "rvArray" THEN {Object(w), Object("element")} ELSE {Object(w)}
    BY ElementIs
  <2>3. \A o \in Parts(Object(w)) : o[1] = Now /\ (o[2] = w \/ (w = "rvArray" /\ o[2] = "element"))
    BY <2>2 DEF Object
  <2>4. \A v \in Locals : v # w => Object(v) \notin Parts(Object(w))
    BY <2>3 DEF Object, Locals
  <2>5. \A o \in theirs : o \notin Parts(Object(w))
    <3>1. w # "statusMsg" /\ w # "element"
      BY DEF Locals
    <3> QED
      BY <1>1, <2>3, <3>1 DEF TheirsInv
  <2>6. con.msg \in heap => con.msg \in heap'
    <3>1. con.msg \in heap => con.msg # NULL
      BY DEF Types, OpsAssumption
    <3>2. con.msg \in heap => con.msg[2] = "headerMsg"
      BY <3>1 DEF PointersInv
    <3>3. w # "headerMsg"
      BY DEF Locals
    <3> QED
      BY <2>1, <2>3, <3>2, <3>3
  <2>7. PointersInv'
    <3>1. \A v \in Locals : Object(v) \in heap /\ Place' <= LastUse[v] => Object(v) \in heap'
      <4>1. ~(Place' <= LastUse[w])
        BY <1>1, <1>4
      <4> QED
        BY <2>1, <2>4, <4>1
    <3> QED
      BY <2>6, <3>1, PointersMove
  <2>8. TheirsInv'
    <3>1. \A o \in theirs : o \in heap'
      BY <2>1, <2>5 DEF TheirsInv
    <3> QED
      BY <2>1, <3>1, TheirsMove
  <2> QED
    BY <2>1, <2>7, <2>8
<1> QED
  BY <1>3, <1>4

LEMMA MemOfFree ==
  ASSUME OpsAssumption, FlowInv, Types, WireInv, PointersInv, TheirsInv,
         FreeStep \/ OutArguments
  PROVE  PointersInv' /\ TheirsInv' /\ fault' = fault
<1>1. CASE FreeStep
  <2> DEFINE w == Given
  <2>1. Onward /\ FreeAtPlace(w) /\ Moves
    BY <1>1, AtFree, OnwardMoves
  <2>2. /\ Release(locals[w])
        /\ con' = con /\ locals' = locals /\ theirs' = theirs /\ wire' = wire
    BY <1>1 DEF FreeStep
  <2>3. /\ w \in Locals /\ w \notin {"result", "argname", "text"} /\ Place \notin {1, 11, 18}
        /\ locals[w] # NULL => Place = LastUse[w]
        /\ w = "rvArray" => Place = 25
    <3>1. Now > 0
      BY <2>1, MovesUp
    <3>2. Ending = "error" => wire.body = "error"
      BY <3>1 DEF WireInv
    <3>3. Ending = "error" => locals["outArgs"] = NULL
      BY <3>1, <3>2 DEF PointersInv
    <3> QED
      BY <2>1, <3>3 DEF FreeAtPlace, LastUse, Locals
  <2> HIDE DEF w
  <2> QED
    BY <2>1, <2>2, <2>3, MemOfRelease
<1>2. CASE OutArguments
  <2>1. Onward /\ Ending = "ok" /\ Place = 22 /\ Moves
    BY <1>2, AtResults, OnwardMoves
  <2>2. con' = con /\ locals' = locals /\ theirs' = theirs /\ wire' = wire
    BY <1>2 DEF OutArguments
  <2>3. CASE Release(locals["outArgs"])
    <3>1. "outArgs" \in Locals /\ LastUse["outArgs"] = 22
      BY DEF Locals, LastUse
    <3> QED
      BY <2>1, <2>2, <2>3, <3>1, MemOfRelease
  <2>4. CASE UNCHANGED <<heap, fault>>
    <3>1. theirs' \subseteq heap'
      BY <2>2, <2>4 DEF TheirsInv
    <3> QED
      BY <2>1, <2>2, <2>4, <3>1, MemGrows
  <2> QED
    BY <1>2, <2>3, <2>4 DEF OutArguments
<1> QED
  BY <1>1, <1>2

LEMMA MemOfHand ==
  ASSUME OpsAssumption, FlowInv, Types, PointersInv, TheirsInv, HandStep \/ TakeFirst
  PROVE  PointersInv' /\ TheirsInv' /\ fault' = fault
<1>1. Onward /\ Moves /\ Ending = "ok" /\ Place \in {25, 27}
  BY AtHand, AtResults, OnwardMoves
<1>2. con' = con /\ locals' = locals /\ heap' = heap /\ wire' = wire /\ fault' = fault
  BY DEF HandStep, TakeFirst
<1>3. PointersInv'
  BY <1>1, <1>2, PointersMove
<1>4. /\ \A o \in theirs' \ theirs : o \in heap /\ o[1] = Now
      /\ \A o \in theirs' \ theirs : o[2] = "result" \/ (o[2] \in {"rvArray", "element"} /\ Place = 25)
      /\ \A o, p \in theirs' \ theirs : o = p
  <2>1. CASE HandStep
    <3> DEFINE w == Given
    <3>1. theirs' = theirs \cup ({locals[w]} \ {NULL})
      BY <2>1 DEF HandStep
    <3>2. (w = "rvArray" /\ Place = 25) \/ (w = "result" /\ Place = 27)
      BY <2>1, AtHand
    <3>3. w \in Locals /\ Place <= LastUse[w]
      BY <3>2 DEF Locals, LastUse
    <3>4. locals[w] # NULL => locals[w] = Object(w) /\ Object(w) \in heap
      BY <3>3 DEF PointersInv
    <3>5. Object(w)[1] = Now /\ Object(w)[2] = w
      BY DEF Object
    <3> HIDE DEF w
    <3> QED
      BY <3>1, <3>2, <3>4, <3>5
  <2>2. CASE TakeFirst
    <3>1. locals["rvArray"] = Object("rvArray") /\ Place = 25
      <4>1. Place = 25 /\ Now > 0
        BY <1>1, <2>2, AtResults DEF Moves, Here
      <4> QED
        BY <1>1, <4>1 DEF PointersInv
    <3>2. Element(locals["rvArray"]) = Object("element")
      BY <3>1, ElementIs
    <3>3. \A o \in theirs' \ theirs : o = Object("element") /\ o \in heap
      BY <2>2, <3>2 DEF TakeFirst, HasElement
    <3>4. Object("element")[1] = Now /\ Object("element")[2] = "element"
      BY DEF Object
    <3> QED
      BY <3>1, <3>3, <3>4
  <2> QED
    BY <2>1, <2>2
<1>5. \A o \in theirs : o \in heap'
  BY <1>2 DEF TheirsInv
<1>6. TheirsInv'
  <2>1. \A o \in theirs' : o \in theirs \/ (o \in heap' /\ o[1] = Now)
    BY <1>2, <1>4
  <2>2. \A o \in theirs' \ theirs :
           \/ o[2] \in {"statusMsg", "result"}
           \/ o[2] \in {"rvArray", "element"} /\ Place = 25
    BY <1>4
  <2>3. \A o \in heap' : o \in heap
    BY <1>2
  <2> QED
    BY <1>1, <1>4, <1>5, <2>1, <2>2, <2>3, TheirsMove
<1> QED
  BY <1>2, <1>3, <1>6

\* A step that stays where it is, and may bring something in.
LEMMA MemAtPlace ==
  ASSUME OpsAssumption, Types, PointersInv, TheirsInv, Rests, Here,
         locals' = locals, theirs' = theirs, heap \subseteq heap',
         \A o \in heap' : o \in heap \/ o[1] = Now,
         con'.posted = con.posted, wire'.body = wire.body \/ Place = 12,
         con'.msg # NULL => con'.msg \in heap' /\ con'.msg[2] = "headerMsg"
  PROVE  PointersInv' /\ TheirsInv'
<1>1. /\ Place' = Place /\ Ending' = Ending /\ Now' = Now /\ Now \in Nat /\ Now > 0
      /\ Place \in 1..28
  BY DEF Rests, Here
<1>2. \A v : Object(v)' = Object(v)
  BY <1>1 DEF Object
<1>3. PointersInv'
  BY <1>1, <1>2 DEF PointersInv
<1>4. \A o \in heap' : o[1] <= Now
  BY <1>1 DEF TheirsInv
<1>5. TheirsInv'
  BY <1>1, <1>4 DEF TheirsInv
<1> QED
  BY <1>3, <1>5

LEMMA MemOfRequest ==
  ASSUME OpsAssumption, FlowInv, Types, PointersInv, TheirsInv, genRequest \/ InArguments
  PROVE  PointersInv' /\ TheirsInv' /\ fault' = fault
<1>1. Moves /\ Ending = "ok" /\ Place \in {2, 7}
  BY AtExchange, OnwardMoves, ChoiceMoves
<1>2. /\ locals' = locals /\ theirs' = theirs /\ fault' = fault
      /\ con' = con \/ con' = ResetConnection
  BY DEF genRequest, InArguments
<1>3. wire'.body = wire.body /\ con'.msg \in {con.msg, NULL}
  BY <1>2 DEF genRequest, InArguments, Types, Wires, Connections, ResetConnection
<1>4. heap \subseteq heap' /\ \A o \in heap' : o \in heap \/ o = Object("cop")
  BY DEF genRequest, InArguments
<1>5. \A o \in heap' : o \in heap \/ o[1] = Now
  BY <1>4 DEF Object
<1>6. theirs' \subseteq heap'
  BY <1>2, <1>4 DEF TheirsInv
<1> QED
  BY <1>1, <1>2, <1>3, <1>4, <1>5, <1>6, MemGrows

LEMMA MemOfExchange ==
  ASSUME OpsAssumption, FlowInv, Types, PointersInv, TheirsInv,
         addPayload \/ getResponse \/ checkStatus \/ checkError
  PROVE  PointersInv' /\ TheirsInv' /\ fault' = fault
<1>1. Moves /\ Ending = "ok" /\ Place \in {11, 12, 15, 19}
  BY AtExchange, ChoiceMoves
<1>2. Now > 0 /\ Place \in 1..28
  BY <1>1, MovesUp
<1>3. theirs' = theirs /\ fault' = fault
  <2>1. CASE getResponse
    <3>1. Place = 12
      BY <2>1, AtExchange
    <3>2. con.posted = Object("sb") /\ locals["sb"] = Object("sb")
      BY <1>1, <1>2, <3>1 DEF PointersInv
    <3>3. Object("sb") # NULL /\ "sb" \in Locals /\ Place <= LastUse["sb"]
      <4>1. Here
        BY <1>1 DEF Moves
      <4>2. Object("sb") # NULL
        BY <4>1, ObjectIs DEF Kinds, Locals
      <4> QED
        BY <3>1, <4>2 DEF Locals, LastUse
    <3>4. con.posted \in heap
      BY <3>2, <3>3 DEF PointersInv
    <3> QED
      BY <2>1, <3>4 DEF getResponse, Failed
  <2>2. CASE addPayload \/ checkStatus \/ checkError
    BY <2>2 DEF addPayload, checkStatus, checkError, Failed
  <2> QED
    BY <2>1, <2>2
<1>4. wire'.body = wire.body /\ con'.msg = con.msg
  BY DEF addPayload, getResponse, checkStatus, checkError, Failed, Types, Wires, Connections
<1>5. \/ UNCHANGED <<heap, locals>>
      \/ Allocate("error")
  BY DEF addPayload, getResponse, checkStatus, checkError, Failed
<1>6. Object("error")[1] = Now
  BY DEF Object
<1>7. /\ heap \subseteq heap' /\ \A o \in heap' : o \in heap \/ o[1] = Now
      /\ \A v \in Locals : locals'[v] = locals[v] \/ (v = "error" /\ locals'[v] = Object(v) /\ Object(v) \in heap')
  BY <1>5, <1>6 DEF Allocate, Types
<1>8. {"sb", "rvArray", "outArgs"} \subseteq Locals
  BY DEF Locals
<1>9. Ending' = "ok" /\ Place = 11 => con'.posted = Object("sb")
  <2>1. ASSUME Ending' = "ok", Place = 11
        PROVE  con'.posted = Object("sb")
    <3>1. addPayload
      BY <2>1, AtExchange
    <3>2. con' = [con EXCEPT !.posted = locals["sb"]]
      BY <2>1, <3>1, ChoiceMoves DEF addPayload, Failed
    <3>3. con'.posted = locals["sb"]
      BY <3>2 DEF Types, Connections
    <3> QED
      BY <1>1, <1>2, <2>1, <3>3 DEF PointersInv
  <2> QED
    BY <2>1
<1>10. theirs' \subseteq heap'
  BY <1>3, <1>7 DEF TheirsInv
<1> QED
  BY <1>1, <1>3, <1>4, <1>7, <1>8, <1>9, <1>10, MemGrows

LEMMA MemOfAnswer ==
  ASSUME OpsAssumption, FlowInv, Types, PointersInv, TheirsInv, writeHeaders \/ writeCb
  PROVE  PointersInv' /\ TheirsInv' /\ fault' = fault
<1>1. Rests /\ Here /\ Place = 12
  BY AtExchange
<1>2. locals' = locals /\ theirs' = theirs /\ fault' = fault
  BY DEF writeHeaders, writeCb
<1> DEFINE message == <<Now, "headerMsg", Len(wire.headers)>>
<1>3. message[1] = Now /\ message[2] = "headerMsg"
  OBVIOUS
<1>4. /\ con'.posted = con.posted
      /\ \/ heap' = heap /\ con'.msg = con.msg
         \/ heap' = heap \cup {message} /\ con'.msg = message
  BY DEF writeHeaders, writeCb, Types, Connections
<1> HIDE DEF message
<1>5. /\ heap \subseteq heap' /\ \A o \in heap' : o \in heap \/ o[1] = Now
      /\ con'.msg # NULL => con'.msg \in heap' /\ con'.msg[2] = "headerMsg"
  BY <1>3, <1>4 DEF PointersInv
<1> QED
  BY <1>1, <1>2, <1>4, <1>5, MemAtPlace

LEMMA MemOfScan ==
  ASSUME OpsAssumption, FlowInv, Types, WireInv, ConInv, PointersInv, TheirsInv,
         scanCimXmlResponse, fault' = "none"
  PROVE  PointersInv' /\ TheirsInv'
<1>1. Moves /\ Ending = "ok" /\ Place = 18
  BY AtExchange, OnwardMoves
<1>2. Now > 0
  BY <1>1, MovesUp
<1>3. Scanned = wire.body
  <2>1. con.mHandle /\ wire.body # NULL
    BY <1>1, <1>2 DEF ConInv, WireInv
  <2>2. con.mResponse = <<wire.body>>
    BY <1>1, <1>2, <2>1 DEF ConInv
  <2> QED
    BY <2>2 DEF Scanned
<1> DEFINE found == CASE Scanned \in {"error", "error0"} -> {"rvArray", "description"}
                      [] Scanned = "outArgs" -> {"rvArray", "element", "outArgs"}
                      [] Scanned = "elements" -> {"rvArray", "element"}
                      [] OTHER -> {"rvArray"}
<1>4. con' = con /\ theirs' = theirs /\ wire' = wire
  BY DEF scanCimXmlResponse
<1>5. /\ heap' = heap \cup {Object(v) : v \in found}
      /\ locals' = [v \in Locals |-> IF v \in found THEN Object(v) ELSE locals[v]]
  BY DEF scanCimXmlResponse
<1>6. /\ "rvArray" \in found /\ "sb" \notin found
      /\ "outArgs" \in found => wire.body # "error"
  BY <1>3
<1> HIDE DEF found
<1>7. {"sb", "rvArray", "outArgs"} \subseteq Locals
  BY DEF Locals
<1>8. heap \subseteq heap' /\ \A o \in heap' : o \in heap \/ o[1] = Now
  BY <1>5 DEF Object
<1>9. \A v \in Locals : locals'[v] = locals[v] \/ (locals'[v] = Object(v) /\ Object(v) \in heap')
  BY <1>5
<1>10. PointersInv'
  <2>1. /\ locals'["rvArray"] = Object("rvArray")
        /\ locals'["outArgs"] = locals["outArgs"] \/ wire.body # "error"
        /\ locals'["sb"] = locals["sb"]
    BY <1>5, <1>6, <1>7
  <2> QED
    BY <1>1, <1>4, <1>8, <1>9, <2>1, PointersMove
<1>11. TheirsInv'
  <2>1. \A o \in theirs : o \in heap'
    BY <1>8 DEF TheirsInv
  <2> QED
    BY <1>1, <1>4, <1>8, <2>1, TheirsMove
<1> QED
  BY <1>10, <1>11

LEMMA MemOfReport ==
  ASSUME OpsAssumption, FlowInv, Types, PointersInv, TheirsInv,
         SetFailed \/ SetUnsupported \/ SetError \/ cloneStatus \/ SetOK
  PROVE  PointersInv' /\ TheirsInv' /\ fault' = fault
<1>1. Moves /\ Place \in {10, 13, 16, 20, 23}
  BY AtResults, OnwardMoves
<1>2. con' = con /\ locals' = locals /\ wire' = wire /\ fault' = fault
  BY DEF SetFailed, SetUnsupported, SetError, cloneStatus, SetOK
<1>3. \/ UNCHANGED <<heap, theirs>>
      \/ /\ heap' = heap \cup {Object("statusMsg")}
         /\ theirs' = theirs \cup {Object("statusMsg")}
  BY DEF SetFailed, SetUnsupported, SetError, cloneStatus, SetOK, Report
<1>4. Object("statusMsg")[1] = Now /\ Object("statusMsg")[2] = "statusMsg"
  BY DEF Object
<1>5. theirs \subseteq heap
  BY DEF TheirsInv
<1> QED
  BY <1>1, <1>2, <1>3, <1>4, <1>5, MemGrows

LEMMA MemOfClone ==
  ASSUME OpsAssumption, FlowInv, Types, PointersInv, TheirsInv, CloneFirst \/ CloneValue
  PROVE  PointersInv' /\ TheirsInv' /\ (fault' = fault \/ fault' = "null")
<1>1. Moves /\ Place = 24 /\ Ending = "ok"
  BY AtResults, OnwardMoves
<1>2. Now > 0 /\ Here
  BY <1>1, MovesUp DEF Moves
<1>3. con' = con /\ theirs' = theirs /\ wire' = wire
  BY DEF CloneFirst, CloneValue
<1>4. UNCHANGED <<heap, locals>> \/ Allocate("result")
  BY DEF CloneFirst, CloneValue
<1>5. Object("rvArray") \in heap
  <2>1. locals["rvArray"] = Object("rvArray") /\ Object("rvArray") # NULL
    BY <1>1, <1>2, ObjectIs DEF PointersInv, Kinds, Locals
  <2>2. "rvArray" \in Locals /\ Place <= LastUse["rvArray"]
    BY <1>1 DEF Locals, LastUse
  <2> QED
    BY <2>1, <2>2 DEF PointersInv
<1>6. fault' = fault \/ fault' = "null"
  BY <1>5 DEF CloneFirst, CloneValue
<1>7. Object("result")[1] = Now
  BY DEF Object
<1>8. /\ heap \subseteq heap' /\ \A o \in heap' : o \in heap \/ o[1] = Now
      /\ \A v \in Locals : locals'[v] = locals[v] \/ (v = "result" /\ locals'[v] = Object(v) /\ Object(v) \in heap')
  BY <1>4, <1>7 DEF Allocate, Types
<1>9. {"sb", "rvArray", "outArgs"} \subseteq Locals
  BY DEF Locals
<1>10. theirs \subseteq heap'
  BY <1>8 DEF TheirsInv
<1> QED
  BY <1>1, <1>3, <1>6, <1>8, <1>9, <1>10, MemGrows

LEMMA MemOfReturn ==
  ASSUME OpsAssumption, FlowInv, Types, PointersInv, TheirsInv, ReturnStep
  PROVE  PointersInv' /\ TheirsInv' /\ fault' = fault
<1>1. Moves /\ Place = 28 /\ Place' = 29
  BY ReturnMoves, ReturnFlows
<1>2. con' = con /\ heap' = heap /\ theirs' = theirs /\ wire' = wire /\ fault' = fault
  BY DEF ReturnStep
<1>3. \A v \in Locals : locals'[v] = NULL
  BY DEF ReturnStep, NoLocals
<1>4. locals'["outArgs"] = NULL
  BY <1>3 DEF Locals
<1>5. PointersInv'
  BY <1>1, <1>2, <1>3, <1>4, PointersMove
<1>6. TheirsInv'
  <2>1. \A o \in theirs : o \in heap'
    BY <1>2 DEF TheirsInv
  <2> QED
    BY <1>1, <1>2, <2>1, TheirsMove
<1> QED
  BY <1>2, <1>5, <1>6

LEMMA MemOfCall ==
  ASSUME OpsAssumption, FlowInv, Types, PointersInv, TheirsInv, NEW op \in Ops, Call(op)
  PROVE  PointersInv' /\ TheirsInv' /\ fault' = fault
<1>1. Ending' = "ok" /\ Place' = 1 /\ Now' = Now + 1 /\ Now \in Nat
  BY CallFlows
<1>2. con' = con /\ heap' = heap /\ theirs' = theirs /\ fault' = fault
  BY DEF Call
<1>3. \A v \in Locals : locals'[v] = NULL
  BY DEF Call, NoLocals
<1>4. locals'["outArgs"] = NULL
  BY <1>3 DEF Locals
<1>5. PointersInv'
  BY <1>1, <1>2, <1>3, <1>4 DEF PointersInv
<1>6. \A o \in heap : o[1] <= Now /\ o[1] \in Nat
  BY DEF TheirsInv, Types, Objects
<1>7. \A o \in heap : o[1] <= Now' /\ o[1] # Now'
  BY <1>1, <1>6
<1>8. TheirsInv'
  BY <1>2, <1>7 DEF TheirsInv
<1> QED
  BY <1>2, <1>5, <1>8

\* Between operations something is released and nothing else is touched.
LEMMA MemReleased ==
  ASSUME OpsAssumption, FlowInv, Types, PointersInv, TheirsInv, Rests, Place = 29,
         NEW object \in heap, heap' = heap \ Parts(object), locals' = locals,
         wire' = wire, con'.posted = con.posted,
         con'.msg = NULL \/ (con'.msg = con.msg /\ object[2] # "headerMsg"),
         theirs' \subseteq theirs, \A o \in theirs' : o \notin Parts(object)
  PROVE  PointersInv' /\ TheirsInv'
<1>1. Place' = 29 /\ Ending' = Ending /\ Now' = Now /\ \A v : Object(v)' = Object(v)
  BY DEF Rests, Object
<1>2. \A v \in Locals : ~(29 <= LastUse[v])
  BY DEF Locals, LastUse
<1>3. con'.msg # NULL => con'.msg \in heap' /\ con'.msg[2] = "headerMsg"
  BY DEF PointersInv, Parts, Element
<1>4. PointersInv'
  BY <1>1, <1>2, <1>3 DEF PointersInv
<1>5. TheirsInv'
  BY <1>1 DEF TheirsInv
<1> QED
  BY <1>4, <1>5

LEMMA MemAtRest ==
  ASSUME OpsAssumption, FlowInv, Types, PointersInv, TheirsInv,
         (\E object \in theirs : CallerReleases(object)) \/ releaseClient
  PROVE  PointersInv' /\ TheirsInv' /\ fault' = fault
<1>1. ASSUME NEW object \in theirs, CallerReleases(object)
      PROVE  PointersInv' /\ TheirsInv' /\ fault' = fault
  <2>1. Rests /\ Place = 29 /\ con' = con /\ locals' = locals /\ wire' = wire
    BY <1>1, AtRest DEF CallerReleases
  <2>2. object \in heap /\ object # NULL
    BY <1>1 DEF TheirsInv, Types, OpsAssumption
  <2>3. heap' = heap \ Parts(object) /\ fault' = fault /\ theirs' = theirs \ {object}
    BY <1>1, <2>2 DEF CallerReleases, Release
  <2>4. object[2] # "headerMsg"
    BY <1>1 DEF TheirsInv
  <2>5. \A o \in theirs' : o \notin Parts(object)
    <3>1. ASSUME NEW o \in theirs, o # object, o \in Parts(object)
          PROVE  FALSE
      <4>1. object[2] = "rvArray" /\ o = <<object[1], "element", 0>>
        BY <3>1 DEF Parts, Element
      <4>2. o[2] = "element" /\ o[1] = object[1]
        BY <4>1
      <4> QED
        BY <1>1, <3>1, <4>1, <4>2 DEF TheirsInv
    <3> QED
      BY <2>3, <3>1
  <2> QED
    BY <2>1, <2>2, <2>3, <2>4, <2>5, MemReleased
<1>2. CASE releaseClient
  <2>1. Rests /\ Place = 29 /\ locals' = locals /\ wire' = wire /\ theirs' = theirs
    BY <1>2, AtRest DEF releaseClient
  <2>2. con'.posted = con.posted /\ con'.msg = NULL
    BY <1>2 DEF releaseClient, Types, Connections
  <2>3. CASE con.msg = NULL
    <3>1. heap' = heap /\ fault' = fault
      BY <1>2, <2>3 DEF releaseClient, Release
    <3>2. Place' = 29 /\ Ending' = Ending /\ Now' = Now /\ \A v : Object(v)' = Object(v)
      BY <2>1 DEF Rests, Object
    <3> QED
      BY <2>1, <2>2, <3>1, <3>2 DEF PointersInv, TheirsInv
  <2>4. CASE con.msg # NULL
    <3>1. con.msg \in heap /\ con.msg[2] = "headerMsg"
      BY <2>4 DEF PointersInv
    <3>2. heap' = heap \ Parts(con.msg) /\ fault' = fault
      BY <1>2, <2>4, <3>1 DEF releaseClient, Release
    <3>3. \A o \in theirs' : o \notin Parts(con.msg)
      BY <2>1, <3>1 DEF TheirsInv, Parts
    <3> QED
      BY <2>1, <2>2, <3>1, <3>2, <3>3, MemReleased
  <2> QED
    BY <2>3, <2>4
<1> QED
  BY <1>1, <1>2

\* Nothing is done once the process can not go on.
LEMMA Running == Next => fault = "none"
BY DEF Next, Call, CallerReleases, releaseClient, Idle, Doing, NewStep, FreeStep,
   ReturnStep, HandStep, genRequest, InArguments, addPayload, writeHeaders, writeCb,
   getResponse, checkStatus, scanCimXmlResponse, checkError, SetFailed, SetUnsupported,
   SetError, cloneStatus, SetOK, CloneFirst, CloneValue, TakeFirst, OutArguments

LEMMA MemStep ==
  OpsAssumption /\ FlowInv /\ Types /\ WireInv /\ ConInv /\ MemInv /\ [Next]_vars => MemInv'
<1> SUFFICES ASSUME OpsAssumption, FlowInv, Types, WireInv, ConInv, MemInv, [Next]_vars
             PROVE  MemInv'
  OBVIOUS
<1>1. CASE Next
  <2>1. fault = "none" /\ PointersInv /\ TheirsInv
    BY <1>1, Running DEF MemInv
  <2>2. CASE scanCimXmlResponse
    <3>1. fault' \in {fault, "exited"}
      BY <2>2 DEF scanCimXmlResponse
    <3> QED
      BY <2>1, <2>2, <3>1, MemOfScan DEF MemInv
  <2>3. CASE CloneFirst \/ CloneValue
    BY <2>1, <2>3, MemOfClone DEF MemInv
  <2>4. CASE ~(scanCimXmlResponse \/ CloneFirst \/ CloneValue)
    <3>1. PointersInv' /\ TheirsInv' /\ fault' = fault
      BY <1>1, <2>1, <2>4, MemOfNew, MemOfFree, MemOfHand, MemOfRequest, MemOfExchange,
         MemOfAnswer, MemOfReport, MemOfReturn, MemOfCall, MemAtRest DEF Next
    <3> QED
      BY <2>1, <3>1 DEF MemInv
  <2> QED
    BY <2>2, <2>3, <2>4
<1>2. CASE UNCHANGED vars
  <2>1. Place' = Place /\ Ending' = Ending /\ Now' = Now /\ \A v : Object(v)' = Object(v)
    BY <1>2, AtRest DEF Rests, Object
  <2> QED
    BY <1>2, <2>1 DEF MemInv, PointersInv, TheirsInv, vars
<1> QED
  BY <1>1, <1>2
----------------------------------------------------------------------------
(* The answer.                                                             *)

\* The place at which the operation reports how it ended, and what it reports.
ReportAt == [ok |-> 23, transport |-> 13, header |-> 16, error |-> 20, argument |-> 10]
Outcome ==
  IF Ending = "ok" THEN <<"ok", NULL>>
  ELSE IF Ending = "transport" THEN <<"failed", wire.end>>
  ELSE IF Ending = "header" THEN <<"header", IF Described THEN "description" ELSE NULL>>
  ELSE IF Ending = "error" THEN <<"error", "error">>
  ELSE <<"failed", "unsupported">>

\* The response has something to make a result of.
Full == wire.body \in {"elements", "outArgs"}

\* The element is there until the result was made of it, and that is kept
\* until it is handed over.
ResultInv ==
  /\ answer.result # NULL => Ending = "ok" /\ Place > 25 /\ Op \notin StatusOps
  /\ Ending = "ok" /\ Full =>
       /\ 18 < Place /\ Place <= 25 => Object("element") \in heap
       /\ 24 < Place /\ Place <= 27 /\ Op \in Cloners => locals["result"] # NULL
       /\ Place > 25 /\ Op \in EnumOps \cup {"createInstance"} => answer.result # NULL
       /\ Place > 27 /\ Op \in Cloners => answer.result # NULL

AnswerInv ==
  Now > 0 /\ fault = "none" =>
    /\ Place <= ReportAt[Ending] => answer.text = NULL
    /\ Place > ReportAt[Ending] /\ answer.wanted =>
         answer.rc = Outcome[1] /\ answer.text = Outcome[2]
    /\ ResultInv

LEMMA ReportPlaces ==
  ASSUME Ending \in Endings
  PROVE  ReportAt[Ending] \in 10..23
BY DEF ReportAt, Endings

\* A step that does not report and makes no result.
LEMMA ResultKept ==
  ASSUME ResultInv, Onward, answer' = answer, wire' = wire \/ (Ending = "ok" /\ Place <= 12),
         Ending = "ok" /\ Place' <= 25 /\ Object("element") \in heap => Object("element") \in heap',
         locals'["result"] = locals["result"],
         Ending = "ok" =>
           /\ Place # 18 /\ (Place = 25 => Op \notin EnumOps \cup {"createInstance"})
           /\ Place \in {24, 27} => Op \notin Cloners
  PROVE  ResultInv'
<1>1. /\ Now' = Now /\ Op' = Op /\ Ending' = Ending /\ Object("element")' = Object("element")
      /\ Place \in 1..28 /\ Place' \in 1..28 /\ Place < Place'
      /\ Ending = "ok" =>
           /\ Keeps(18) /\ (Op \in Cloners => Keeps(24) /\ Keeps(27))
           /\ Op \notin {"setInstance", "deleteInstance"} => Keeps(25)
  BY DEF Onward, Here, Advances, Object
<1>2. Place > 12 => (Full' <=> Full)
  BY <1>1 DEF Full
<1>3. answer'.result # NULL => Ending' = "ok" /\ Place' > 25 /\ Op' \notin StatusOps
  BY <1>1 DEF ResultInv
<1>4. ASSUME Ending = "ok", Full'
      PROVE  /\ 18 < Place' /\ Place' <= 25 => Object("element") \in heap'
             /\ 24 < Place' /\ Place' <= 27 /\ Op \in Cloners => locals'["result"] # NULL
             /\ Place' > 25 /\ Op \in EnumOps \cup {"createInstance"} => answer.result # NULL
             /\ Place' > 27 /\ Op \in Cloners => answer.result # NULL
  <2>1. 18 < Place' => Full /\ 18 < Place
    <3>1. 18 < Place' => 18 < Place
      BY <1>1, <1>4 DEF Keeps
    <3>2. 18 < Place => 12 < Place
      BY <1>1
    <3> QED
      BY <1>2, <1>4, <3>1, <3>2
  <2>2. Op \in EnumOps \cup {"createInstance"} => Op \notin {"setInstance", "deleteInstance"}
    BY DEF EnumOps
  <2>3. 18 < Place' /\ Place' <= 25 => Object("element") \in heap'
    BY <1>1, <1>4, <2>1 DEF ResultInv
  <2>4. 24 < Place' /\ Place' <= 27 /\ Op \in Cloners => locals'["result"] # NULL
    BY <1>1, <1>4, <2>1 DEF ResultInv, Keeps
  <2>5. Place' > 25 /\ Op \in EnumOps \cup {"createInstance"} => answer.result # NULL
    BY <1>1, <1>4, <2>1, <2>2 DEF ResultInv, Keeps
  <2>6. Place' > 27 /\ Op \in Cloners => answer.result # NULL
    BY <1>1, <1>4, <2>1 DEF ResultInv, Keeps
  <2> QED
    BY <2>3, <2>4, <2>5, <2>6
<1> QED
  BY <1>1, <1>3, <1>4 DEF ResultInv

LEMMA AnswerKept ==
  ASSUME AnswerInv, fault = "none", Onward, Place # ReportAt[Ending], answer' = answer,
         wire' = wire \/ (Ending = "ok" /\ Place <= 12), ResultInv'
  PROVE  AnswerInv'
<1>1. /\ Now > 0 /\ Now' = Now /\ Ending' = Ending /\ Ending \in Endings
      /\ Place \in 1..28 /\ Place' \in 1..28 /\ Place < Place'
      /\ Ending = "ok" => Keeps(23)
      /\ Ending = "transport" => Keeps(13)
      /\ Ending = "header" => Keeps(16)
      /\ Ending = "error" => Keeps(20)
      /\ Ending = "argument" => Keeps(10)
  BY DEF Onward, Here, Advances
<1>2. Keeps(ReportAt[Ending])
  BY <1>1 DEF ReportAt, Endings
<1>3. Place' > ReportAt[Ending] => Place > ReportAt[Ending]
  BY <1>1, <1>2, ReportPlaces DEF Keeps
<1>4. Place > 12 => wire' = wire /\ Outcome' = Outcome
  <2>1. ASSUME Place > 12
        PROVE  wire' = wire /\ Described' = Described
    BY <1>1, <2>1 DEF Described
  <2> QED
    BY <1>1, <2>1 DEF Outcome
<1>5. Place > ReportAt[Ending] => wire' = wire /\ Outcome' = Outcome
  <2>1. CASE Place > 12
    BY <1>4, <2>1
  <2>2. CASE Place <= 12 /\ Place > ReportAt[Ending]
    <3>1. Ending # "ok"
      BY <1>1, <2>2 DEF ReportAt
    <3>2. wire' = wire /\ Described' = Described
      BY <3>1 DEF Described
    <3> QED
      BY <1>1, <3>2 DEF Outcome
  <2> QED
    BY <1>1, <2>1, <2>2
<1>6. Place' <= ReportAt[Ending] => Place <= ReportAt[Ending]
  BY <1>1, ReportPlaces
<1> QED
  BY <1>1, <1>3, <1>5, <1>6 DEF AnswerInv

LEMMA AnswerOfSteps ==
  ASSUME FlowInv, Types, PointersInv, AnswerInv, fault = "none",
         NewStep \/ FreeStep \/ genRequest \/ OutArguments
  PROVE  AnswerInv'
<1>1. /\ Onward
      /\ Ending = "ok" => Place \notin {18, 23, 24, 27} /\ (Place = 25 => Op \in Cloners \cup {"setProperty"})
      /\ Place # ReportAt[Ending]
  BY AtNew, AtFree, AtExchange, AtResults DEF NewAtPlace, FreeAtPlace, ReportAt
<1>2. answer' = answer /\ wire' = wire
  BY DEF NewStep, FreeStep, genRequest, OutArguments
<1>3. Now > 0
  BY <1>1 DEF Onward, Here
<1>4. Place' <= 25 /\ Object("element") \in heap => Object("element") \in heap'
  <2>1. CASE NewStep \/ genRequest
    BY <2>1 DEF NewStep, genRequest, Allocate
  <2>2. CASE FreeStep \/ OutArguments
    <3> DEFINE w == IF FreeStep THEN Given ELSE "outArgs"
    <3>1. UNCHANGED heap \/ Release(locals[w])
      BY <2>2 DEF FreeStep, OutArguments
    <3>2. w \in Locals /\ (w = "rvArray" => Place = 25)
      BY AtFree DEF FreeAtPlace, Locals
    <3> HIDE DEF w
    <3>3. locals[w] = NULL \/ locals[w] = Object(w)
      BY <3>2 DEF PointersInv
    <3>4. w # "rvArray" => Object("element") \notin Parts(Object(w))
      BY <3>2, ElementIs DEF Object, Locals
    <3>5. w = "rvArray" => ~(Place' <= 25)
      BY <1>1, <3>2 DEF Onward, Advances
    <3> QED
      BY <3>1, <3>3, <3>4, <3>5 DEF Release
  <2> QED
    BY <2>1, <2>2
<1>5. locals'["result"] = locals["result"]
  <2>1. CASE NewStep
    <3>1. Given # "result" /\ locals' = [locals EXCEPT ![Given] = Object(Given)] /\ "result" \in Locals
      BY <2>1, AtNew DEF NewAtPlace, NewStep, Allocate, Locals
    <3> QED
      BY <3>1 DEF Types
  <2>2. CASE FreeStep \/ genRequest \/ OutArguments
    BY <2>2 DEF FreeStep, genRequest, OutArguments
  <2> QED
    BY <2>1, <2>2
<1>6. ResultInv
  BY <1>3 DEF AnswerInv
<1>7. Op \in Cloners \cup {"setProperty"} => Op \notin EnumOps \cup {"createInstance"}
  BY DEF Cloners, EnumOps, DataOps
<1>8. ResultInv'
  BY <1>1, <1>2, <1>4, <1>5, <1>6, <1>7, ResultKept
<1> QED
  BY <1>1, <1>2, <1>8, AnswerKept

LEMMA AnswerOfExchange ==
  ASSUME FlowInv, Types, AnswerInv, fault = "none",
         InArguments \/ addPayload \/ getResponse \/ checkStatus \/ checkError
  PROVE  AnswerInv'
<1>1. Moves /\ (Proceed => Onward) /\ (Leave => Ending' # "ok")
  BY ChoiceMoves
<1>2. /\ Ending = "ok" /\ Place \in {7, 11, 12, 15, 19}
      /\ Place > 12 => wire' = wire
  BY AtExchange DEF checkStatus, checkError
<1>3. answer' = answer
  BY DEF InArguments, addPayload, getResponse, checkStatus, checkError, Failed
<1>4. Now > 0 /\ ResultInv
  BY <1>1, MovesUp DEF AnswerInv
<1>5. CASE Proceed
  <2>1. Object("element") \in heap => Object("element") \in heap'
    BY DEF InArguments, addPayload, getResponse, checkStatus, checkError, Failed, Allocate
  <2>2. locals'["result"] = locals["result"]
    <3>1. locals' = locals \/ locals' = [locals EXCEPT !["error"] = Object("error")]
      BY DEF InArguments, addPayload, getResponse, checkStatus, checkError, Failed, Allocate
    <3> QED
      BY <3>1 DEF Types, Locals
  <2>3. ResultInv'
    BY <1>1, <1>2, <1>3, <1>4, <1>5, <2>1, <2>2, ResultKept
  <2> QED
    BY <1>1, <1>2, <1>3, <1>5, <2>3, AnswerKept DEF ReportAt
<1>6. CASE Leave
  <2>1. /\ Ending' \in Endings \ {"ok"} /\ Place' \in 8..20
        /\ ReportAt[Ending'] \in 10..23 /\ Place' <= ReportAt[Ending']
    BY <1>6, AtChoices DEF Endings, ReportAt
  <2>2. answer.text = NULL /\ answer.result = NULL
    BY <1>2, <1>4 DEF AnswerInv, ResultInv, ReportAt
  <2>3. ResultInv'
    BY <1>3, <2>1, <2>2 DEF ResultInv
  <2>4. ~(Place' > ReportAt[Ending'])
    BY <2>1
  <2> QED
    BY <1>3, <2>2, <2>3, <2>4 DEF AnswerInv
<1>7. Proceed \/ Leave
  BY DEF InArguments, addPayload, getResponse, checkStatus, checkError, Failed
<1> QED
  BY <1>5, <1>6, <1>7

LEMMA AnswerAtRest ==
  ASSUME FlowInv, AnswerInv, fault = "none",
         \/ \E op \in Ops : Call(op)
         \/ \E object \in theirs : CallerReleases(object)
         \/ releaseClient \/ ReturnStep \/ writeHeaders \/ writeCb, OpsAssumption
  PROVE  AnswerInv'
<1>1. ASSUME NEW op \in Ops, Call(op)
      PROVE  AnswerInv'
  <2>1. Ending' = "ok" /\ Place' = 1
    BY <1>1, CallFlows
  <2>2. answer'.text = NULL /\ answer'.result = NULL
    BY <1>1 DEF Call, NoAnswer
  <2> QED
    BY <2>1, <2>2 DEF AnswerInv, ResultInv, ReportAt
<1>2. ASSUME NEW object \in theirs, CallerReleases(object)
      PROVE  AnswerInv'
  <2>1. Rests /\ Place = 29 /\ wire' = wire /\ answer' = answer
    BY <1>2, AtRest DEF CallerReleases
  <2> QED
    BY <2>1 DEF AnswerInv, ResultInv, Rests, Outcome, Described, Full
<1>3. CASE releaseClient
  <2>1. Rests /\ Place = 29 /\ wire' = wire /\ answer' = answer
    BY <1>3, AtRest DEF releaseClient
  <2> QED
    BY <2>1 DEF AnswerInv, ResultInv, Rests, Outcome, Described, Full
<1>4. CASE ReturnStep
  <2>1. /\ Place = 28 /\ Place' = 29 /\ Ending' = Ending /\ Op' = Op /\ Now' = Now
        /\ wire' = wire /\ answer' = answer /\ Ending \in Endings /\ Now > 0
    BY <1>4, ReturnFlows, Where DEF ReturnStep, Doing
  <2>2. Outcome' = Outcome /\ (Full' <=> Full)
    BY <2>1 DEF Outcome, Described, Full
  <2>3. Place > ReportAt[Ending] /\ Place' > ReportAt[Ending']
    BY <2>1, ReportPlaces
  <2>4. ResultInv'
    BY <2>1, <2>2 DEF AnswerInv, ResultInv
  <2> QED
    BY <2>1, <2>2, <2>3, <2>4, ReportPlaces DEF AnswerInv
<1>5. CASE writeHeaders \/ writeCb
  <2>1. Rests /\ Here /\ Ending = "ok" /\ Place = 12 /\ answer' = answer
    BY <1>5, AtExchange DEF writeHeaders, writeCb
  <2> QED
    BY <2>1 DEF AnswerInv, ResultInv, Rests, ReportAt
<1> QED
  BY <1>1, <1>2, <1>3, <1>4, <1>5

\* The scan brings the element, if the response has one.
LEMMA AnswerOfScan ==
  ASSUME FlowInv, Types, WireInv, ConInv, AnswerInv, fault = "none", scanCimXmlResponse,
         fault' = "none"
  PROVE  AnswerInv'
<1>1. Onward /\ Ending = "ok" /\ Place = 18
  BY AtExchange
<1>2. answer' = answer /\ wire' = wire
  BY DEF scanCimXmlResponse
<1>3. Now > 0 /\ Now' = Now /\ Op' = Op /\ Ending' = "ok" /\ Place' \in 19..23
  BY <1>1 DEF Onward, Here, Advances, Keeps
<1>4. Full => Object("element") \in heap'
  <2>1. con.mHandle /\ wire.body # NULL
    BY <1>1, <1>3 DEF ConInv, WireInv
  <2>2. con.mResponse = <<wire.body>>
    BY <1>1, <1>3, <2>1 DEF ConInv
  <2>3. Scanned = wire.body
    BY <2>2 DEF Scanned
  <2>4. Full => \E found : "element" \in found /\ heap' = heap \cup {Object(v) : v \in found}
    BY <2>3 DEF scanCimXmlResponse, Full
  <2> QED
    BY <2>4
<1>5. ResultInv /\ (Full' <=> Full) /\ Object("element")' = Object("element")
  BY <1>2, <1>3 DEF AnswerInv, Full, Object
<1>6. ResultInv'
  BY <1>1, <1>2, <1>3, <1>4, <1>5 DEF ResultInv
<1> QED
  BY <1>1, <1>2, <1>6, AnswerKept DEF ReportAt

\* Where the element is looked for it is that of the array that was scanned.
LEMMA ElementIsThere ==
  ASSUME OpsAssumption, Here, PointersInv, ResultInv, Ending = "ok", Place \in {24, 25}
  PROVE  /\ locals["rvArray"] = Object("rvArray") /\ Object("rvArray") # NULL
         /\ Element(locals["rvArray"]) = Object("element") /\ Object("element") # NULL
         /\ Full => HasElement
<1>1. locals["rvArray"] = Object("rvArray")
  BY DEF PointersInv, Here
<1>2. Element(locals["rvArray"]) = Object("element")
  BY <1>1, ElementIs
<1>3. Full => Object("element") \in heap
  BY DEF ResultInv
<1>4. Object("rvArray") # NULL /\ Object("element") # NULL
  BY ObjectIs DEF Kinds, Locals
<1> QED
  BY <1>1, <1>2, <1>3, <1>4 DEF HasElement

LEMMA AnswerOfClone ==
  ASSUME OpsAssumption, FlowInv, Types, PointersInv, AnswerInv, fault = "none",
         CloneFirst \/ CloneValue, fault' = "none"
  PROVE  AnswerInv'
<1>1. Onward /\ Ending = "ok" /\ Place = 24 /\ Op \in Cloners
  BY AtResults DEF Cloners
<1>2. answer' = answer /\ wire' = wire
  BY DEF CloneFirst, CloneValue
<1>3. /\ Now > 0 /\ Now' = Now /\ Op' = Op /\ Ending' = "ok" /\ Place' \in 25..27
      /\ Here /\ ResultInv
  BY <1>1 DEF Onward, Here, Advances, Keeps, AnswerInv
<1>4. HasElement => Allocate("result")
  BY DEF CloneFirst, CloneValue
<1>5. heap \subseteq heap'
  BY DEF CloneFirst, CloneValue, Allocate
<1>6. HasElement => locals'["result"] # NULL
  <2>1. Object("result") # NULL /\ "result" \in Locals
    BY <1>3, ObjectIs DEF Kinds, Locals
  <2> QED
    BY <1>4, <2>1 DEF Allocate, Types
<1>7. Full => HasElement
  BY <1>1, <1>3, ElementIsThere
<1>8. (Full' <=> Full) /\ Object("element")' = Object("element")
  BY <1>2, <1>3 DEF Full, Object
<1>9. Op \notin EnumOps \cup {"createInstance"}
  BY <1>1 DEF Cloners, EnumOps, DataOps
<1>10. ResultInv'
  BY <1>1, <1>2, <1>3, <1>5, <1>6, <1>7, <1>8, <1>9 DEF ResultInv
<1> QED
  BY <1>1, <1>2, <1>10, AnswerKept DEF ReportAt

\* A result is handed over.
LEMMA AnswerOfHand ==
  ASSUME OpsAssumption, FlowInv, Types, PointersInv, AnswerInv, fault = "none",
         HandStep \/ TakeFirst
  PROVE  AnswerInv'
<1>1. /\ Onward /\ Ending = "ok"
      /\ \/ HandStep /\ Given = "rvArray" /\ Place = 25 /\ Op \in EnumOps
         \/ HandStep /\ Given = "result" /\ Place = 27 /\ Op \in Cloners
         \/ TakeFirst /\ Place = 25 /\ Op = "createInstance"
  BY AtHand, AtResults
<1>2. /\ Now > 0 /\ Now' = Now /\ Op' = Op /\ Ending' = "ok" /\ Place' \in 26..28
      /\ Place = 27 => Place' = 28
      /\ Here /\ ResultInv
  BY <1>1 DEF Onward, Here, Advances, AnswerInv
<1>3. wire' = wire /\ locals' = locals
  BY DEF HandStep, TakeFirst
<1>4. /\ answer'.wanted = answer.wanted /\ answer'.rc = answer.rc /\ answer'.text = answer.text
      /\ HandStep => answer'.result = locals[Given]
      /\ TakeFirst => answer'.result = IF HasElement THEN Element(locals["rvArray"]) ELSE answer.result
  BY DEF HandStep, TakeFirst, Types, Answers
<1>5. Full => answer'.result # NULL
  <2>1. CASE Place = 25
    BY <1>1, <1>2, <1>4, <2>1, ElementIsThere
  <2>2. CASE Place = 27
    BY <1>1, <1>2, <1>4, <2>2 DEF ResultInv
  <2> QED
    BY <1>1, <2>1, <2>2
<1>6. Op \notin StatusOps /\ (Op \in EnumOps \cup {"createInstance"} => Op \notin Cloners)
  BY <1>1 DEF EnumOps, Cloners, StatusOps, DataOps
<1>7. (Full' <=> Full) /\ Outcome' = Outcome
  BY <1>1, <1>2, <1>3 DEF Full, Outcome
<1>8. ResultInv'
  BY <1>1, <1>2, <1>3, <1>5, <1>6, <1>7 DEF ResultInv
<1> QED
  BY <1>1, <1>2, <1>4, <1>7, <1>8 DEF AnswerInv, ReportAt

\* The operation reports what came of it.
LEMMA AnswerOfReport ==
  ASSUME OpsAssumption, FlowInv, Types, ConInv, AnswerInv, fault = "none",
         SetFailed \/ SetUnsupported \/ SetError \/ cloneStatus \/ SetOK
  PROVE  AnswerInv'
<1>1. /\ Onward
      /\ SetFailed => Ending = "transport" /\ Place = 13
      /\ SetUnsupported => Ending = "argument" /\ Place = 10
      /\ SetError => Ending = "error" /\ Place = 20
      /\ cloneStatus => Ending = "header" /\ Place = 16
      /\ SetOK => Ending = "ok" /\ Place = 23
  BY AtResults
<1>2. /\ Now > 0 /\ Now' = Now /\ Op' = Op /\ Ending' = Ending
      /\ Place \in 1..28 /\ Place' \in 1..28 /\ Place < Place'
      /\ Ending = "ok" =>
           /\ Op \in Cloners => Keeps(24) /\ Keeps(27)
           /\ Op \notin {"setInstance", "deleteInstance"} => Keeps(25)
      /\ Here /\ ResultInv /\ answer.text = NULL
  BY <1>1 DEF Onward, Here, Advances, AnswerInv, ReportAt
<1>3. wire' = wire /\ locals' = locals /\ heap \subseteq heap' /\ (Full' <=> Full)
  BY DEF SetFailed, SetUnsupported, SetError, cloneStatus, SetOK, Report, Full
<1>4. Outcome' = Outcome /\ Described' = Described /\ Object("element")' = Object("element")
  BY <1>2, <1>3 DEF Outcome, Described, Object
<1>5. /\ answer'.wanted = answer.wanted /\ answer'.result = answer.result
      /\ answer.wanted => answer'.rc = Outcome[1] /\ answer'.text = Outcome[2]
  <2>1. CASE SetFailed \/ SetUnsupported \/ SetError
    <3>1. Report(Outcome[1], Outcome[2])
      BY <1>1, <2>1 DEF Outcome, SetFailed, SetUnsupported, SetError
    <3> QED
      BY <3>1 DEF Report, Types, Answers
  <2>2. CASE cloneStatus
    <3>1. con.msg # NULL <=> Described
      BY <1>1, <1>2, <2>2 DEF ConInv
    <3>2. Outcome = <<"header", IF Described THEN "description" ELSE NULL>>
      BY <1>1, <2>2 DEF Outcome
    <3> QED
      BY <1>2, <2>2, <3>1, <3>2 DEF cloneStatus, Report, Types, Answers
  <2>3. CASE SetOK
    <3>1. Outcome = <<"ok", NULL>>
      BY <1>1, <2>3 DEF Outcome
    <3> QED
      BY <1>2, <2>3, <3>1 DEF SetOK, Types, Answers
  <2> QED
    BY <2>1, <2>2, <2>3
<1>6. Place' > ReportAt[Ending']
  BY <1>1, <1>2 DEF ReportAt
<1>7. ResultInv'
  <2>1. answer'.result = NULL
    BY <1>1, <1>2, <1>5 DEF ResultInv
  <2>2. ASSUME Ending = "ok", Full
        PROVE  /\ Place' <= 25 => Object("element") \in heap'
               /\ 24 < Place' /\ Place' <= 27 /\ Op \in Cloners => locals'["result"] # NULL
               /\ Place' > 25 /\ Op \in EnumOps \cup {"createInstance"} => answer'.result # NULL
               /\ Place' > 27 /\ Op \in Cloners => answer'.result # NULL
    <3>1. Place = 23
      BY <1>1, <2>2
    <3>2. Object("element") \in heap'
      BY <1>2, <1>3, <2>2, <3>1 DEF ResultInv
    <3>3. Op \in Cloners => Place' = 24
      BY <1>2, <2>2, <3>1 DEF Keeps
    <3>4. Op \in EnumOps \cup {"createInstance"} => Place' <= 25
      BY <1>2, <2>2, <3>1 DEF Keeps, EnumOps
    <3> QED
      BY <1>2, <3>2, <3>3, <3>4
  <2> QED
    BY <1>2, <1>3, <1>4, <2>1, <2>2 DEF ResultInv
<1>8. ~(Place' <= ReportAt[Ending'])
  BY <1>2, <1>6, ReportPlaces DEF Here
<1> QED
  BY <1>2, <1>4, <1>5, <1>6, <1>7, <1>8 DEF AnswerInv

LEMMA AnswerStep ==
  /\ OpsAssumption /\ FlowInv /\ Types /\ WireInv /\ ConInv /\ MemInv /\ AnswerInv
  /\ [Next]_vars
  => AnswerInv'
<1> SUFFICES ASSUME OpsAssumption, FlowInv, Types, WireInv, ConInv, MemInv, AnswerInv, [Next]_vars
             PROVE  AnswerInv'
  OBVIOUS
<1>1. CASE Next
  <2>1. fault = "none" /\ PointersInv
    BY <1>1, Running DEF MemInv
  <2>2. CASE scanCimXmlResponse \/ CloneFirst \/ CloneValue
    <3>1. CASE fault' = "none"
      BY <2>1, <2>2, <3>1, AnswerOfScan, AnswerOfClone
    <3>2. CASE fault' # "none"
      BY <3>2 DEF AnswerInv
    <3> QED
      BY <3>1, <3>2
  <2>3. CASE ~(scanCimXmlResponse \/ CloneFirst \/ CloneValue)
    BY <1>1, <2>1, <2>3, AnswerOfSteps, AnswerOfExchange, AnswerAtRest, AnswerOfHand,
       AnswerOfReport DEF Next
  <2> QED
    BY <2>2, <2>3
<1>2. CASE UNCHANGED vars
  <2>1. Rests /\ wire' = wire /\ answer' = answer /\ heap' = heap /\ locals' = locals /\ fault' = fault
    BY <1>2, AtRest DEF vars
  <2>2. Object("element")' = Object("element")
    BY <2>1 DEF Rests, Object
  <2> QED
    BY <2>1, <2>2 DEF AnswerInv, ResultInv, Rests, Outcome, Described, Full
<1> QED
  BY <1>1, <1>2
----------------------------------------------------------------------------
(* What becomes of everything that is allocated: it is the caller's, it is *)
(* of an earlier operation that forgot it, or the operation that allocated *)
(* it is under way and will release it, hand it over or forget it.         *)

Owned(o) == \E p \in theirs : o \in Parts(p)

\* The operation under way may have such an object.
Due(kind) ==
  \/ /\ kind = "sb"
     /\ \/ Ending = "argument"
        \/ Ending = "transport" /\ Op = "references"
        \/ Ending \in {"ok", "transport", "header"} /\ Place <= 17
  \/ kind = "error" /\ Ending = "transport" /\ Place <= 14
  \/ kind = "cv" /\ Op = "setProperty" /\ Ending = "ok" /\ Place <= 4
  \/ /\ kind = "cn"
     /\ \/ Op = "setInstance"
        \/ /\ Op \in {"deleteInstance", "setProperty"} \cup DataOps
           /\ Ending = "ok" /\ Place <= 6
  \/ kind \in {"argname", "text"} /\ Ending = "argument"
  \/ kind = "cop" /\ Op = "invokeMethod" /\ Ending # "argument" /\ 7 < Place
  \/ kind = "headerMsg" /\ Ending # "argument" /\ 12 <= Place
  \/ /\ kind = "description"
     /\ \/ Ending = "ok" /\ 18 < Place
        \/ Ending = "error" /\ Place <= 21
  \/ /\ kind = "outArgs" /\ Op = "invokeMethod" /\ Ending = "ok" /\ 18 < Place
     /\ wire.body = "outArgs"
  \/ /\ kind \in {"rvArray", "element"} /\ 18 < Place
     /\ \/ Ending \in {"ok", "error"} /\ Place <= 25
        \/ Ending = "ok" /\ Op \in {"setInstance", "deleteInstance"}
  \/ kind = "rvArray" /\ Ending = "ok" /\ Op = "createInstance" /\ 18 < Place
  \/ kind = "result" /\ Ending = "ok" /\ Op \in Cloners /\ 24 < Place /\ Place <= 27

WasteInv ==
  fault = "none" =>
    /\ \A o \in heap : o[2] # "headerMsg" => o = <<o[1], o[2], 0>>
    /\ Place <= 28 => \A v \in Locals : Object(v) \in heap => locals[v] = Object(v)
    /\ \A o \in heap :
         \/ Owned(o)
         \/ o[1] < Now /\ <<calls[o[1]].op, calls[o[1]].ended, o[2]>> \in Forgotten
         \/ o[1] = Now /\ Due(o[2])

LEMMA DueForgotten ==
  ASSUME Place = 29, Op \in AllOps, Ending \in Endings,
         Ending = "argument" => Op = "invokeMethod", NEW kind, Due(kind)
  PROVE  <<Op, Ending, kind>> \in Forgotten
<1>1. \/ kind = "sb" /\ (Ending = "argument" \/ (Ending = "transport" /\ Op = "references"))
      \/ kind = "cn" /\ Op = "setInstance"
      \/ kind \in {"argname", "text"} /\ Ending = "argument"
      \/ kind = "cop" /\ Op = "invokeMethod" /\ Ending # "argument"
      \/ kind = "headerMsg" /\ Ending # "argument"
      \/ kind = "description" /\ Ending = "ok"
      \/ kind = "outArgs" /\ Op = "invokeMethod" /\ Ending = "ok"
      \/ kind \in {"rvArray", "element"} /\ Ending = "ok" /\ Op \in {"setInstance", "deleteInstance"}
      \/ kind = "rvArray" /\ Ending = "ok" /\ Op = "createInstance"
  BY DEF Due
<1>2. Ending # "argument" => Ending \in {"transport", "header", "error", "ok"}
  BY DEF Endings
<1>3. Op # "invokeMethod" => Ending # "argument"
  OBVIOUS
<1>4. CASE kind \in {"sb", "argname", "text", "outArgs", "rvArray", "element"}
  BY <1>1, <1>4 DEF Forgotten
<1>5. CASE kind = "cn"
  BY <1>1, <1>2, <1>3, <1>5 DEF Forgotten
<1>6. CASE kind = "cop"
  BY <1>1, <1>2, <1>6 DEF Forgotten
<1>7. CASE kind = "headerMsg"
  BY <1>1, <1>2, <1>7 DEF Forgotten
<1>8. CASE kind = "description"
  BY <1>1, <1>8 DEF Forgotten
<1> QED
  BY <1>1, <1>4, <1>5, <1>6, <1>7, <1>8

LEMMA DueOnward ==
  ASSUME Onward, wire'.body = wire.body \/ Place <= 18, NEW kind, Due(kind),
         kind = "sb" => Place # 17, kind = "error" => Place # 14,
         kind = "cv" => Place # 4, kind = "cn" => Place # 6,
         kind = "description" => Ending = "ok" \/ Place # 21,
         kind = "rvArray" => Place # 25 \/ (Ending = "ok" /\ Op = "createInstance"),
         kind = "element" => Place # 25,
         kind = "result" => Place # 27
  PROVE  Due(kind)'
<1>1. /\ Op' = Op /\ Ending' = Ending
      /\ Place \in 1..28 /\ Place' \in 1..28 /\ Place < Place'
      /\ Ending = "ok" =>
           /\ Keeps(17)
           /\ Op = "setProperty" => Keeps(4)
           /\ Op \in {"deleteInstance", "setProperty"} \cup DataOps => Keeps(6)
           /\ Op \in Cloners => Keeps(27)
           /\ Op \notin {"setInstance", "deleteInstance"} => Keeps(25)
      /\ Ending = "transport" => Keeps(14) /\ (Op # "references" => Keeps(17))
      /\ Ending = "header" => Keeps(17)
      /\ Ending = "error" => Keeps(21) /\ Keeps(25)
  BY DEF Onward, Here, Advances
<1>2. CASE kind = "sb"
  BY <1>1, <1>2 DEF Due, Keeps
<1>3. CASE kind = "error"
  BY <1>1, <1>3 DEF Due, Keeps
<1>4. CASE kind = "cv"
  BY <1>1, <1>4 DEF Due, Keeps
<1>5. CASE kind = "cn"
  BY <1>1, <1>5 DEF Due, Keeps
<1>6. CASE kind \in {"argname", "text", "cop", "headerMsg", "outArgs"}
  BY <1>1, <1>6 DEF Due
<1>7. CASE kind = "description"
  BY <1>1, <1>7 DEF Due, Keeps
<1>8. CASE kind \in {"rvArray", "element"}
  BY <1>1, <1>8 DEF Due, Keeps
<1>9. CASE kind = "result"
  BY <1>1, <1>9 DEF Due, Keeps
<1>10. kind \in {"sb", "error", "cv", "cn", "argname", "text", "cop", "headerMsg", "outArgs",
                 "description", "rvArray", "element", "result"}
  BY DEF Due
<1> QED
  BY <1>2, <1>3, <1>4, <1>5, <1>6, <1>7, <1>8, <1>9, <1>10

LEMMA DueOut ==
  ASSUME Ending = "ok", Op' = Op, Op \in AllOps, NEW kind, Due(kind),
         \/ Place = 7 /\ Place' = 8 /\ Ending' = "argument" /\ Op = "invokeMethod"
         \/ Place \in {11, 12} /\ Place' = 13 /\ Ending' = "transport"
         \/ Place = 15 /\ Place' = 16 /\ Ending' = "header"
         \/ Place = 19 /\ Place' = 20 /\ Ending' = "error" /\ wire.body = "error"
  PROVE  Due(kind)'
<1>1. CASE Place = 7
  BY <1>1 DEF Due
<1>2. CASE Place \in {11, 12}
  BY <1>2 DEF Due
<1>3. CASE Place = 15
  BY <1>3 DEF Due
<1>4. CASE Place = 19
  BY <1>4 DEF Due
<1> QED
  BY <1>1, <1>2, <1>3, <1>4

\* A step that forgets nothing of what it finds.
LEMMA WasteKept ==
  ASSUME Types, TheirsInv, WasteInv, fault = "none", Here, Now' = Now, calls' = calls,
         theirs \subseteq theirs',
         \A o \in heap' : o \in heap \/ (o[1] = Now /\ (Due(o[2])' \/ Owned(o)')),
         \A o \in heap' : o \notin heap => (o[2] # "headerMsg" => o = Object(o[2])),
         \A v \in Locals : Object(v) \in heap' => locals'[v] = Object(v) \/ (locals'[v] = locals[v] /\ Object(v) \in heap),
         \A o \in heap : o \in heap' /\ o = Object(o[2]) /\ Due(o[2]) => Due(o[2])' \/ Owned(o)',
         Due("headerMsg") => Due("headerMsg")'
  PROVE  WasteInv'
<1>1. Now \in Nat /\ Place \in 1..28 /\ \A v : Object(v)' = Object(v)
  BY DEF Here, Object
<1>2. ASSUME NEW o \in heap', o[2] # "headerMsg"
      PROVE  o = <<o[1], o[2], 0>>
  <2>1. o \notin heap => o = <<Now, o[2], 0>>
    BY <1>2 DEF Object
  <2>2. o \notin heap => o[1] = Now
    BY <1>2
  <2> QED
    BY <1>2, <2>1, <2>2 DEF WasteInv
<1>3. \A v \in Locals : Object(v) \in heap' => locals'[v] = Object(v)
  BY <1>1 DEF WasteInv
<1>4. ASSUME NEW o \in heap'
      PROVE  \/ Owned(o)'
             \/ o[1] < Now /\ <<calls[o[1]].op, calls[o[1]].ended, o[2]>> \in Forgotten
             \/ o[1] = Now /\ Due(o[2])'
  <2>1. CASE o \notin heap
    BY <2>1
  <2>2. CASE o \in heap /\ Owned(o)
    BY <2>2 DEF Owned
  <2>3. CASE o \in heap /\ o[1] = Now /\ Due(o[2])
    <3>1. CASE o[2] = "headerMsg"
      BY <2>3, <3>1
    <3>2. CASE o[2] # "headerMsg"
      <4>1. o = Object(o[2])
        BY <2>3, <3>2 DEF WasteInv, Object
      <4> QED
        BY <2>3, <4>1
    <3> QED
      BY <3>1, <3>2
  <2> QED
    BY <2>1, <2>2, <2>3 DEF WasteInv
<1> QED
  BY <1>1, <1>2, <1>3, <1>4 DEF WasteInv

\* A step that allocates nothing and hands nothing over.
LEMMA WasteOfSteps ==
  ASSUME Types, TheirsInv, WasteInv, fault = "none", Moves, calls' = calls, theirs' = theirs,
         heap' \subseteq heap, locals' = locals,
         \A kind : Object(kind) \in heap' /\ Due(kind) => Due(kind)',
         Due("headerMsg") => Due("headerMsg")'
  PROVE  WasteInv'
<1>1. Here /\ Now' = Now
  BY DEF Moves
<1> QED
  BY <1>1, WasteKept

\* A step that allocates what the operation will look after.
LEMMA WasteOfAllocation ==
  ASSUME Types, TheirsInv, WasteInv, fault = "none", Moves, calls' = calls, theirs' = theirs,
         NEW S \in SUBSET Kinds, heap' = heap \cup {Object(v) : v \in S},
         \A v \in Locals : locals'[v] = IF v \in S THEN Object(v) ELSE locals[v],
         \A kind \in S : Due(kind)',
         \A kind : Due(kind) => Due(kind)'
  PROVE  WasteInv'
<1>1. Here /\ Now' = Now
  BY DEF Moves
<1>2. \A v : Object(v)[1] = Now /\ Object(v)[2] = v
  BY DEF Object
<1>3. \A o \in heap' : o \in heap \/ (o[1] = Now /\ Due(o[2])')
  BY <1>2
<1>4. \A o \in heap' : o \notin heap => o = Object(o[2])
  BY <1>2
<1>5. ASSUME NEW v \in Locals, Object(v) \in heap'
      PROVE  locals'[v] = Object(v) \/ (locals'[v] = locals[v] /\ Object(v) \in heap)
  <2>1. CASE v \in S
    BY <2>1
  <2>2. CASE v \notin S
    <3>1. Object(v) \notin {Object(x) : x \in S}
      BY <1>2, <2>2
    <3> QED
      BY <1>5, <2>2, <3>1
  <2> QED
    BY <2>1, <2>2
<1> QED
  BY <1>1, <1>3, <1>4, <1>5, WasteKept

LEMMA WasteOfNew ==
  ASSUME OpsAssumption, FlowInv, Types, TheirsInv, WasteInv, fault = "none", NewStep
  PROVE  WasteInv'
<1>0. PICK w : w = Given
  OBVIOUS
<1>1. Onward /\ NewAtPlace(w) /\ Moves
  BY <1>0, AtNew, OnwardMoves
<1>2. /\ heap' = heap \cup {Object(w)} /\ locals' = [locals EXCEPT ![w] = Object(w)]
      /\ calls' = calls /\ theirs' = theirs /\ wire' = wire
  BY <1>0 DEF NewStep, Allocate
<1>3. w \in {"sb", "cv", "cn", "argname", "text"} /\ Place \in {1, 3, 5, 8, 9}
  BY <1>1 DEF NewAtPlace
<1>4. \A kind : Due(kind) => Due(kind)'
  BY <1>1, <1>2, <1>3, DueOnward
<1>5. Due(w)'
  <2>1. /\ Op' = Op /\ Ending' = Ending /\ Place' \in 1..28
        /\ Ending = "ok" =>
             /\ Keeps(17)
             /\ Op = "setProperty" => Keeps(4)
             /\ Op \in {"deleteInstance", "setProperty"} \cup DataOps => Keeps(6)
    BY <1>1 DEF Onward, Advances
  <2>2. CASE w = "sb"
    BY <1>1, <2>1, <2>2 DEF NewAtPlace, Due, Keeps
  <2>3. CASE w = "cv"
    BY <1>1, <2>1, <2>3 DEF NewAtPlace, Due, Keeps
  <2>4. CASE w = "cn"
    BY <1>1, <2>1, <2>4 DEF NewAtPlace, Due, Keeps
  <2>5. CASE w \in {"argname", "text"}
    BY <1>1, <2>1, <2>5 DEF NewAtPlace, Due
  <2> QED
    BY <1>3, <2>2, <2>3, <2>4, <2>5
<1>6. /\ {w} \in SUBSET Kinds /\ heap' = heap \cup {Object(v) : v \in {w}}
      /\ \A v \in Locals : locals'[v] = IF v \in {w} THEN Object(v) ELSE locals[v]
      /\ \A kind \in {w} : Due(kind)'
  BY <1>2, <1>3, <1>5 DEF Kinds, Locals, Types
<1> QED
  BY <1>1, <1>2, <1>4, <1>6, WasteOfAllocation

\* What is released at a place is what is due there.
LEMMA WasteOfFree ==
  ASSUME OpsAssumption, FlowInv, Types, WireInv, PointersInv, TheirsInv, WasteInv,
         fault = "none", FreeStep \/ OutArguments
  PROVE  WasteInv'
<1>1. /\ Onward /\ Moves
      /\ calls' = calls /\ theirs' = theirs /\ locals' = locals /\ wire' = wire
      /\ heap' \subseteq heap
  BY AtFree, AtResults, OnwardMoves DEF FreeStep, OutArguments, Release
<1>2. /\ Now > 0 /\ Place <= 28
      /\ Ending = "ok" => (Place = 25 => Op \notin {"setInstance", "deleteInstance"})
  <2>1. Now > 0 /\ Place <= 28
    BY <1>1, MovesUp
  <2>2. Ending = "ok" /\ Place = 25 => FreeStep /\ Given = "rvArray" /\ Op \in Cloners \cup {"setProperty"}
    BY AtFree, AtResults DEF FreeAtPlace
  <2> QED
    BY <2>1, <2>2 DEF Cloners, DataOps
<1>3. CASE FreeStep
  <2> DEFINE w == Given
  <2>1. FreeAtPlace(w) /\ w \in Locals /\ Release(locals[w])
    BY <1>3, AtFree DEF FreeAtPlace, Locals, FreeStep
  <2> HIDE DEF w
  <2>2. Object(w) \notin heap'
    <3>1. CASE Object(w) \in heap
      <4>1. locals[w] = Object(w)
        BY <1>2, <2>1, <3>1 DEF WasteInv
      <4>2. Object(w) \in Parts(Object(w))
        BY ElementIs
      <4>3. locals[w] # NULL
        BY <3>1, <4>1 DEF Types, OpsAssumption
      <4> QED
        BY <2>1, <4>1, <4>2, <4>3 DEF Release
    <3> QED
      BY <1>1, <3>1
  <2>3. w = "rvArray" => Object("element") \notin heap'
    <3>1. ASSUME w = "rvArray"
          PROVE  locals[w] = Object(w)
      BY <1>2, <2>1, <3>1 DEF FreeAtPlace, PointersInv
    <3>2. w = "rvArray" => Object(w) # NULL /\ Object("element") \in Parts(Object(w))
      <4>1. Here
        BY <1>1 DEF Moves
      <4> QED
        BY <2>1, <4>1, ElementIs, ObjectIs DEF Kinds
    <3> QED
      BY <2>1, <3>1, <3>2 DEF Release
  <2>4. ASSUME NEW kind, Object(kind) \in heap', Due(kind)
        PROVE  Due(kind)'
    <3>1. kind # w /\ (w = "rvArray" => kind # "element")
      BY <2>2, <2>3, <2>4
    <3> QED
      BY <1>1, <2>1, <2>4, <3>1, DueOnward DEF FreeAtPlace
  <2>5. Due("headerMsg") => Due("headerMsg")'
    BY <1>1, DueOnward
  <2> QED
    BY <1>1, <2>4, <2>5, WasteOfSteps
<1>4. CASE OutArguments
  <2>1. Place = 22 /\ Ending = "ok"
    BY <1>4, AtResults
  <2>2. \A kind : Due(kind) => Due(kind)'
    BY <1>1, <2>1, DueOnward
  <2> QED
    BY <1>1, <2>2, WasteOfSteps
<1> QED
  BY <1>3, <1>4

LEMMA WasteOfExchange ==
  ASSUME OpsAssumption, FlowInv, Types, WireInv, ConInv, TheirsInv, WasteInv, fault = "none",
         InArguments \/ addPayload \/ getResponse \/ checkStatus \/ checkError
  PROVE  WasteInv'
<1>1. Moves /\ (Proceed => Onward) /\ (Leave => Ending' # "ok")
  BY ChoiceMoves
<1>2. /\ Ending = "ok"
      /\ InArguments => Place = 7 /\ Op = "invokeMethod"
      /\ addPayload => Place = 11
      /\ getResponse => Place = 12
      /\ checkStatus => Place = 15
      /\ checkError => Place = 19
  BY AtExchange
<1>3. calls' = calls /\ theirs' = theirs
  BY DEF InArguments, addPayload, getResponse, checkStatus, checkError, Failed
<1>4. Here /\ Now > 0
  BY <1>1, MovesUp DEF Moves
<1>5. Proceed \/ Leave
  BY DEF InArguments, addPayload, getResponse, checkStatus, checkError, Failed
<1>6. checkError /\ Leave => wire.body = "error"
  <2>1. ASSUME checkError
        PROVE  Scanned = wire.body
    <3>1. con.mHandle /\ wire.body # NULL
      BY <1>2, <1>4, <2>1 DEF ConInv, WireInv
    <3>2. con.mResponse = <<wire.body>>
      BY <1>2, <1>4, <2>1, <3>1 DEF ConInv
    <3> QED
      BY <3>2 DEF Scanned
  <2>2. ASSUME checkError, Scanned # "error"
        PROVE  Ending' = "ok"
    <3>1. Proceed
      BY <2>2 DEF checkError
    <3> QED
      BY <1>1, <1>2, <3>1 DEF Onward, Advances
  <2> QED
    BY <1>1, <2>1, <2>2
<1>7. \A kind : Due(kind) => Due(kind)'
  <2>1. CASE Proceed
    <3>1. wire' = wire \/ Place <= 18
      BY <1>2 DEF checkError
    <3> QED
      BY <1>1, <1>2, <2>1, <3>1, DueOnward
  <2>2. CASE Leave
    <3>1. /\ Op' = Op /\ Op \in AllOps
          /\ \/ Place = 7 /\ Place' = 8 /\ Ending' = "argument" /\ Op = "invokeMethod"
             \/ Place \in {11, 12} /\ Place' = 13 /\ Ending' = "transport"
             \/ Place = 15 /\ Place' = 16 /\ Ending' = "header"
             \/ Place = 19 /\ Place' = 20 /\ Ending' = "error" /\ wire.body = "error"
      BY <1>2, <1>4, <1>6, <2>2, AtChoices DEF Here
    <3> QED
      BY <1>2, <3>1, DueOut
  <2> QED
    BY <1>5, <2>1, <2>2
<1>8. CASE InArguments
  <2>1. \/ heap' = heap
        \/ Proceed /\ heap' = heap \cup {Object("cop")}
    BY <1>8 DEF InArguments
  <2>2. locals' = locals
    BY <1>8 DEF InArguments
  <2>3. CASE heap' = heap
    BY <1>1, <1>3, <1>7, <2>2, <2>3, WasteOfSteps
  <2>4. CASE Proceed /\ heap' = heap \cup {Object("cop")}
    <3>1. Op' = "invokeMethod" /\ Ending' = "ok" /\ 7 < Place'
      BY <1>1, <1>2, <1>8, <2>4 DEF Onward, Advances
    <3>2. Due("cop")'
      BY <3>1 DEF Due
    <3>3. /\ {"cop"} \in SUBSET Kinds /\ heap' = heap \cup {Object(v) : v \in {"cop"}}
          /\ \A v \in Locals : locals'[v] = IF v \in {"cop"} THEN Object(v) ELSE locals[v]
          /\ \A kind \in {"cop"} : Due(kind)'
      BY <2>2, <2>4, <3>2 DEF Kinds, Locals
    <3> QED
      BY <1>1, <1>3, <1>7, <3>3, WasteOfAllocation
  <2> QED
    BY <2>1, <2>3, <2>4
<1>9. CASE addPayload \/ getResponse \/ checkStatus \/ checkError
  <2>1. \/ UNCHANGED <<heap, locals>>
        \/ Leave /\ Allocate("error") /\ (addPayload \/ getResponse)
    BY <1>9 DEF addPayload, getResponse, checkStatus, checkError, Failed
  <2>2. CASE UNCHANGED <<heap, locals>>
    BY <1>1, <1>3, <1>7, <2>2, WasteOfSteps
  <2>3. CASE Leave /\ Allocate("error") /\ (addPayload \/ getResponse)
    <3>1. Ending' = "transport" /\ Place' = 13
      BY <2>3, AtChoices
    <3>2. Due("error")'
      BY <3>1 DEF Due
    <3>3. /\ {"error"} \in SUBSET Kinds /\ heap' = heap \cup {Object(v) : v \in {"error"}}
          /\ \A v \in Locals : locals'[v] = IF v \in {"error"} THEN Object(v) ELSE locals[v]
          /\ \A kind \in {"error"} : Due(kind)'
      BY <2>3, <3>2 DEF Kinds, Locals, Types, Allocate
    <3> QED
      BY <1>1, <1>3, <1>7, <3>3, WasteOfAllocation
  <2> QED
    BY <2>1, <2>2, <2>3
<1> QED
  BY <1>8, <1>9

LEMMA WasteOfAnswer ==
  ASSUME OpsAssumption, FlowInv, Types, TheirsInv, WasteInv, fault = "none",
         writeHeaders \/ writeCb
  PROVE  WasteInv'
<1>1. Rests /\ Here /\ Ending = "ok" /\ Place = 12
  BY AtExchange
<1>2. locals' = locals /\ theirs' = theirs /\ calls' = calls
  BY DEF writeHeaders, writeCb
<1>3. \A o \in heap' : o \in heap \/ (o[1] = Now /\ o[2] = "headerMsg")
  BY DEF writeHeaders, writeCb
<1>4. Due("headerMsg")'
  BY <1>1 DEF Rests, Due
<1>5. \A kind : Due(kind) => Due(kind)'
  BY <1>1 DEF Rests, Due
<1>6. \A v \in Locals : Object(v) \in heap' => Object(v) \in heap
  BY <1>3 DEF Object, Locals
<1> QED
  BY <1>1, <1>2, <1>3, <1>4, <1>5, <1>6, WasteKept DEF Rests

LEMMA WasteOfScan ==
  ASSUME OpsAssumption, FlowInv, Types, WireInv, ConInv, TheirsInv, WasteInv, fault = "none",
         scanCimXmlResponse, fault' = "none"
  PROVE  WasteInv'
<1>1. Onward /\ Moves /\ Ending = "ok" /\ Place = 18
  BY AtExchange, OnwardMoves
<1>2. Now > 0 /\ Op' = Op /\ Ending' = "ok" /\ Place' = 19
  BY <1>1, MovesUp DEF Onward, Advances, Keeps
<1>3. Scanned = wire.body
  <2>1. con.mHandle /\ wire.body # NULL
    BY <1>1, <1>2 DEF ConInv, WireInv
  <2>2. con.mResponse = <<wire.body>>
    BY <1>1, <1>2, <2>1 DEF ConInv
  <2> QED
    BY <2>2 DEF Scanned
<1>4. theirs' = theirs /\ calls' = calls /\ wire' = wire
  BY DEF scanCimXmlResponse
<1>5. PICK found :
        /\ found = CASE Scanned \in {"error", "error0"} -> {"rvArray", "description"}
                     [] Scanned = "outArgs" -> {"rvArray", "element", "outArgs"}
                     [] Scanned = "elements" -> {"rvArray", "element"}
                     [] OTHER -> {"rvArray"}
        /\ heap' = heap \cup {Object(v) : v \in found}
        /\ locals' = [v \in Locals |-> IF v \in found THEN Object(v) ELSE locals[v]]
  BY DEF scanCimXmlResponse
<1>6. /\ found \in SUBSET {"rvArray", "element", "description", "outArgs"}
      /\ "outArgs" \in found => wire.body = "outArgs"
  BY <1>3, <1>5
<1>7. wire.body = "outArgs" => Op = "invokeMethod"
  BY <1>2 DEF WireInv
<1>8. ASSUME NEW kind \in found
      PROVE  Due(kind)'
  BY <1>2, <1>4, <1>6, <1>7 DEF Due
<1>9. \A kind : Due(kind) => Due(kind)'
  BY <1>1, <1>4, DueOnward
<1>10. /\ found \in SUBSET Kinds
       /\ \A v \in Locals : locals'[v] = IF v \in found THEN Object(v) ELSE locals[v]
  BY <1>5, <1>6 DEF Kinds, Locals
<1> QED
  BY <1>1, <1>4, <1>5, <1>8, <1>9, <1>10, WasteOfAllocation

LEMMA WasteOfClone ==
  ASSUME OpsAssumption, FlowInv, Types, TheirsInv, WasteInv, fault = "none",
         CloneFirst \/ CloneValue
  PROVE  WasteInv'
<1>1. Onward /\ Moves /\ Ending = "ok" /\ Place = 24 /\ Op \in Cloners
  BY AtResults, OnwardMoves DEF Cloners
<1>2. calls' = calls /\ theirs' = theirs /\ wire' = wire
  BY DEF CloneFirst, CloneValue
<1>3. \A kind : Due(kind) => Due(kind)'
  BY <1>1, <1>2, DueOnward
<1>4. UNCHANGED <<heap, locals>> \/ Allocate("result")
  BY DEF CloneFirst, CloneValue
<1>5. CASE UNCHANGED <<heap, locals>>
  BY <1>1, <1>2, <1>3, <1>5, WasteOfSteps
<1>6. CASE Allocate("result")
  <2>1. Op' \in Cloners /\ Ending' = "ok" /\ 24 < Place' /\ Place' <= 27
    BY <1>1 DEF Onward, Advances, Keeps
  <2>2. Due("result")'
    BY <2>1 DEF Due
  <2>3. /\ {"result"} \in SUBSET Kinds /\ heap' = heap \cup {Object(v) : v \in {"result"}}
        /\ \A v \in Locals : locals'[v] = IF v \in {"result"} THEN Object(v) ELSE locals[v]
        /\ \A kind \in {"result"} : Due(kind)'
    BY <1>6, <2>2 DEF Kinds, Locals, Types, Allocate
  <2> QED
    BY <1>1, <1>2, <1>3, <2>3, WasteOfAllocation
<1> QED
  BY <1>4, <1>5, <1>6

\* What is due at its last place is handed over.
LEMMA WasteOfHand ==
  ASSUME OpsAssumption, FlowInv, Types, PointersInv, TheirsInv, WasteInv, fault = "none",
         HandStep \/ TakeFirst
  PROVE  WasteInv'
<1>1. /\ Onward /\ Moves /\ Ending = "ok"
      /\ \/ HandStep /\ Given = "rvArray" /\ Place = 25 /\ Op \in EnumOps
         \/ HandStep /\ Given = "result" /\ Place = 27 /\ Op \in Cloners
         \/ TakeFirst /\ Place = 25 /\ Op = "createInstance"
  BY AtHand, AtResults, OnwardMoves
<1>2. Here /\ Now' = Now /\ Now > 0 /\ Place <= 28
  BY <1>1, MovesUp DEF Moves
<1>3. /\ calls' = calls /\ wire' = wire /\ locals' = locals /\ heap' = heap
      /\ theirs \subseteq theirs'
  BY DEF HandStep, TakeFirst
<1>4. \A v : Object(v)[1] = Now /\ Object(v)[2] = v
  BY DEF Object
<1>5. ASSUME NEW o \in heap, o = Object(o[2]), Due(o[2])
      PROVE  Due(o[2])' \/ Owned(o)'
  <2>1. o # NULL
    BY DEF Types, OpsAssumption
  <2>2. CASE HandStep /\ Given = "rvArray" /\ Place = 25 /\ o[2] \in {"rvArray", "element"}
    <3>1. locals["rvArray"] = Object("rvArray") /\ Object("rvArray") # NULL
      BY <1>1, <1>2, <2>2, ObjectIs DEF PointersInv, Kinds, Locals
    <3>2. Object("rvArray") \in theirs'
      BY <2>2, <3>1 DEF HandStep
    <3>3. o \in Parts(Object("rvArray"))
      BY <1>5, <2>2, ElementIs
    <3> QED
      BY <3>2, <3>3 DEF Owned
  <2>3. CASE HandStep /\ Given = "result" /\ Place = 27 /\ o[2] = "result"
    <3>1. locals["result"] = o
      BY <1>2, <1>5, <2>3 DEF WasteInv, Locals
    <3>2. o \in theirs' /\ o \in Parts(o)
      BY <2>1, <2>3, <3>1 DEF HandStep, Parts
    <3> QED
      BY <3>2 DEF Owned
  <2>4. CASE TakeFirst /\ Place = 25 /\ o[2] = "element"
    <3>1. locals["rvArray"] = Object("rvArray")
      BY <1>1, <1>2, <2>4 DEF PointersInv
    <3>2. Element(locals["rvArray"]) = o
      BY <1>5, <2>4, <3>1, ElementIs
    <3>3. o \in theirs' /\ o \in Parts(o)
      BY <1>5, <2>4, <3>2 DEF TakeFirst, HasElement, Parts
    <3> QED
      BY <3>3 DEF Owned
  <2>5. CASE /\ Place = 25 => o[2] # "element" /\ (o[2] = "rvArray" => Op = "createInstance")
             /\ Place = 27 => o[2] # "result"
    BY <1>1, <1>3, <1>5, <2>5, DueOnward
  <2> QED
    BY <1>1, <2>2, <2>3, <2>4, <2>5
<1>6. Due("headerMsg") => Due("headerMsg")'
  BY <1>1, <1>3, DueOnward
<1>7. \A o \in heap' : o \in heap
  BY <1>3
<1>8. \A v \in Locals : Object(v) \in heap' =>
        locals'[v] = Object(v) \/ (locals'[v] = locals[v] /\ Object(v) \in heap)
  BY <1>3
<1> QED
  BY <1>2, <1>3, <1>5, <1>6, <1>7, <1>8, WasteKept

LEMMA WasteOfReport ==
  ASSUME OpsAssumption, FlowInv, Types, TheirsInv, WasteInv, fault = "none",
         SetFailed \/ SetUnsupported \/ SetError \/ cloneStatus \/ SetOK \/ genRequest
  PROVE  WasteInv'
<1>1. Onward /\ Moves /\ Place \in {2, 10, 13, 16, 20, 23}
  BY AtResults, AtExchange, OnwardMoves
<1>2. /\ calls' = calls /\ wire' = wire /\ locals' = locals
      /\ \/ UNCHANGED <<heap, theirs>>
         \/ /\ heap' = heap \cup {Object("statusMsg")}
            /\ theirs' = theirs \cup {Object("statusMsg")}
  BY DEF SetFailed, SetUnsupported, SetError, cloneStatus, SetOK, genRequest, Report
<1>3. \A kind : Due(kind) => Due(kind)'
  BY <1>1, <1>2, DueOnward
<1>4. CASE UNCHANGED <<heap, theirs>>
  BY <1>1, <1>2, <1>3, <1>4, WasteOfSteps
<1>5. CASE /\ heap' = heap \cup {Object("statusMsg")}
           /\ theirs' = theirs \cup {Object("statusMsg")}
  <2>1. PICK o : o = Object("statusMsg")
    OBVIOUS
  <2>2. o[1] = Now /\ o[2] = "statusMsg" /\ o = Object(o[2])
    BY <2>1 DEF Object
  <2>3. Owned(o)'
    BY <1>5, <2>1, <2>2 DEF Owned, Parts
  <2>4. \A v \in Locals : Object(v) # o
    BY <2>2 DEF Object, Locals
  <2>5. heap' = heap \cup {o} /\ theirs \subseteq theirs' /\ Here /\ Now' = Now
    BY <1>1, <1>5, <2>1 DEF Moves
  <2> QED
    BY <1>2, <1>3, <2>2, <2>3, <2>4, <2>5, WasteKept
<1> QED
  BY <1>2, <1>4, <1>5

LEMMA WasteOfReturn ==
  ASSUME OpsAssumption, FlowInv, Types, TheirsInv, WasteInv, fault = "none", ReturnStep
  PROVE  WasteInv'
<1>1. /\ Ending' = Ending /\ Place = 28 /\ Place' = 29 /\ Op' = Op /\ Now' = Now
      /\ \A k \in 1..Now : k # Now => calls'[k] = calls[k]
      /\ Ending \in Endings /\ Now \in Nat
  BY ReturnFlows, Where DEF ReturnStep, Doing
<1>2. heap' = heap /\ theirs' = theirs /\ wire' = wire
  BY DEF ReturnStep
<1>3. \A kind : Due(kind) => Due(kind)'
  BY <1>1, <1>2 DEF Due
<1>4. \A o \in heap : o[1] < Now => calls'[o[1]] = calls[o[1]]
  <2>1. \A o \in heap : o[1] \in 1..MaxCalls
    BY DEF Types, Objects
  <2> QED
    BY <1>1, <2>1 DEF OpsAssumption
<1>5. ~(Place' <= 28)
  BY <1>1
<1> QED
  BY <1>1, <1>2, <1>3, <1>4, <1>5 DEF WasteInv, Owned

LEMMA WasteOfCall ==
  ASSUME OpsAssumption, FlowInv, Types, TheirsInv, WasteInv, fault = "none",
         NEW op \in Ops, Call(op)
  PROVE  WasteInv'
<1>1. /\ Now' = Now + 1 /\ Now \in Nat
      /\ \A k \in 1..Now : calls'[k] = calls[k]
  BY CallFlows
<1>2. heap' = heap /\ theirs' = theirs /\ todo = <<>> /\ Place = 29
  BY DEF Call, Idle, Place
<1>3. \A o \in heap : o[1] \in 1..Now
  BY <1>1 DEF TheirsInv, Types, Objects
<1>4. ASSUME NEW o \in heap, ~Owned(o)
      PROVE  o[1] < Now' /\ <<calls'[o[1]].op, calls'[o[1]].ended, o[2]>> \in Forgotten
  <2>1. o[1] < Now' /\ calls'[o[1]] = calls[o[1]]
    BY <1>1, <1>3
  <2>2. CASE o[1] = Now /\ Due(o[2])
    <3>1. Now > 0 /\ calls[Now] \in CallRecords
      <4>1. Now \in 1..Len(calls)
        BY <1>3, <2>2 DEF Now
      <4>2. calls[Now] \in CallRecords
        BY <4>1, ElementOfSeq DEF FlowInv
      <4> QED
        BY <1>1, <1>3, <2>2, <4>2
    <3>2. /\ Op \in AllOps /\ Ending \in Endings /\ (Ending = "argument" => Op = "invokeMethod")
          /\ calls[Now].op = Op /\ calls[Now].ended = Ending
      BY <1>2, <3>1 DEF FlowInv, Op, Ending, CallRecords
    <3>3. <<Op, Ending, o[2]>> \in Forgotten
      BY <1>2, <2>2, <3>2, DueForgotten
    <3> QED
      BY <2>1, <2>2, <3>2, <3>3
  <2> QED
    BY <1>4, <2>1, <2>2 DEF WasteInv
<1>5. ASSUME NEW v \in Locals
      PROVE  Object(v)' \notin heap'
  <2>1. Object(v)' = <<Now', v, 0>>
    BY DEF Object
  <2>2. Object(v)'[1] = Now'
    BY <2>1
  <2> QED
    BY <1>1, <1>2, <1>3, <2>2
<1>6. \A o \in heap : Owned(o)' <=> Owned(o)
  BY <1>2 DEF Owned
<1> QED
  BY <1>2, <1>4, <1>5, <1>6 DEF WasteInv

LEMMA WasteAtRest ==
  ASSUME OpsAssumption, FlowInv, Types, TheirsInv, WasteInv, fault = "none",
         (\E object \in theirs : CallerReleases(object)) \/ releaseClient
  PROVE  WasteInv'
<1>1. Rests /\ Place = 29 /\ wire' = wire /\ calls' = calls /\ heap' \subseteq heap
  BY AtRest DEF CallerReleases, releaseClient, Release
<1>2. ASSUME NEW o \in heap', Owned(o)
      PROVE  Owned(o)'
  <2>1. PICK p \in theirs : o \in Parts(p)
    BY <1>2 DEF Owned
  <2>2. p \in theirs'
    <3>1. CASE releaseClient
      BY <3>1 DEF releaseClient
    <3>2. ASSUME NEW object \in theirs, CallerReleases(object)
          PROVE  p \in theirs'
      <4>1. object # NULL
        BY DEF Types, OpsAssumption
      <4>2. heap' = heap \ Parts(object) /\ theirs' = theirs \ {object}
        BY <3>2, <4>1 DEF CallerReleases, Release
      <4> QED
        BY <2>1, <4>2
    <3> QED
      BY <3>1, <3>2
  <2> QED
    BY <2>1, <2>2 DEF Owned
<1>3. \A kind : Due(kind)' <=> Due(kind)
  BY <1>1 DEF Rests, Due
<1>4. Place' = 29 /\ Now' = Now
  BY <1>1 DEF Rests
<1> QED
  BY <1>1, <1>2, <1>3, <1>4 DEF WasteInv

LEMMA WasteStep ==
  /\ OpsAssumption /\ FlowInv /\ Types /\ WireInv /\ ConInv /\ MemInv /\ WasteInv
  /\ [Next]_vars
  => WasteInv'
<1> SUFFICES ASSUME OpsAssumption, FlowInv, Types, WireInv, ConInv, MemInv, WasteInv, [Next]_vars
             PROVE  WasteInv'
  OBVIOUS
<1>1. CASE Next
  <2>1. fault = "none" /\ PointersInv /\ TheirsInv
    BY <1>1, Running DEF MemInv
  <2>2. CASE scanCimXmlResponse
    <3>1. CASE fault' = "none"
      BY <2>1, <2>2, <3>1, WasteOfScan
    <3>2. CASE fault' # "none"
      BY <3>2 DEF WasteInv
    <3> QED
      BY <3>1, <3>2
  <2>3. CASE ~scanCimXmlResponse
    BY <1>1, <2>1, <2>3, WasteOfNew, WasteOfFree, WasteOfExchange, WasteOfAnswer,
       WasteOfClone, WasteOfHand, WasteOfReport, WasteOfReturn, WasteOfCall, WasteAtRest DEF Next
  <2> QED
    BY <2>2, <2>3
<1>2. CASE UNCHANGED vars
  <2>1. /\ Rests /\ wire' = wire /\ heap' = heap /\ locals' = locals /\ fault' = fault
        /\ theirs' = theirs /\ calls' = calls
    BY <1>2, AtRest DEF vars
  <2>2. (\A kind : Due(kind)' <=> Due(kind)) /\ (\A v : Object(v)' = Object(v))
    BY <2>1 DEF Rests, Due, Object
  <2> QED
    BY <2>1, <2>2 DEF WasteInv, Rests, Owned
<1> QED
  BY <1>1, <1>2
----------------------------------------------------------------------------
(* The theorems.                                                           *)

\* The inductive invariant: where the operation is, what came over the wire,
\* what the connection has of it, what is allocated and pointed to, what was
\* answered and what was forgotten.
OperationInv ==
  /\ FlowInv /\ Types /\ WireInv /\ ConInv
  /\ MemInv /\ AnswerInv /\ WasteInv

LEMMA OperationInit == OpsAssumption /\ Init => OperationInv
<1> SUFFICES ASSUME OpsAssumption, Init
             PROVE  OperationInv
  OBVIOUS
<1>1. todo = <<>> /\ calls = <<>> /\ heap = {} /\ theirs = {} /\ fault = "none" /\ con.msg = NULL
  BY DEF Init
<1>2. Now = 0 /\ Place = 29
  BY <1>1 DEF Now, Place
<1>3. FlowInv
  BY <1>1, <1>2 DEF FlowInv, OpsAssumption
<1>4. Types
  BY TypesInit
<1>5. WireInv /\ ConInv /\ AnswerInv
  BY <1>2 DEF WireInv, ConInv, AnswerInv
<1>6. \A v \in Locals : locals[v] = NULL
  BY DEF Init, NoLocals
<1>7. locals["outArgs"] = NULL
  BY <1>6 DEF Locals
<1>8. MemInv
  BY <1>1, <1>2, <1>6, <1>7 DEF MemInv, PointersInv, TheirsInv
<1>9. WasteInv
  BY <1>1, <1>2 DEF WasteInv
<1> QED
  BY <1>3, <1>4, <1>5, <1>8, <1>9 DEF OperationInv

LEMMA OperationStep == OpsAssumption /\ OperationInv /\ [Next]_vars => OperationInv'
BY FlowStep, TypesStep, WireStep, MemStep, AnswerStep, WasteStep DEF OperationInv

LEMMA OperationAlways == OpsAssumption /\ Spec => []OperationInv
<1>1. CASE OpsAssumption
  BY <1>1, OperationInit, OperationStep, PTL DEF Spec
<1> QED
  BY <1>1

LEMMA TypesHold == Types => TypeOK
BY DEF Types, Connections, Answers, Codes, TypeOK

\* What the exchange came to is what the operation ended with.
LEMMA VerdictIs ==
  ASSUME FlowInv, WireInv, Now > 0, Place = 29
  PROVE  Verdict = Outcome /\ (Verdict[1] = "ok" <=> Ending = "ok")
<1>1. Ending \in Endings
  BY DEF FlowInv
<1>2. /\ wire.argument = "unsupported" <=> Ending = "argument"
      /\ Ending = "transport" => wire.end \in Failures
      /\ Ending \in {"ok", "header", "error"} => wire.end = "ok"
      /\ Ending = "header" => Refused
      /\ Ending \in {"ok", "error"} => ~Refused
      /\ Ending = "error" => wire.body = "error"
      /\ Ending = "ok" => wire.body # "error"
  BY DEF WireInv
<1>3. wire.end \in Failures => wire.end # "ok"
  BY DEF Failures
<1>4. Verdict = Outcome
  BY <1>1, <1>2, <1>3 DEF Verdict, Outcome, Endings
<1>5. Outcome[1] = "ok" <=> Ending = "ok"
  BY DEF Outcome
<1> QED
  BY <1>4, <1>5

LEMMA IdleIs ==
  ASSUME FlowInv, Idle
  PROVE  /\ fault = "none" /\ Place = 29 /\ Now \in Nat
         /\ calls # <<>> => Now > 0 /\ Op \in AllOps /\ Ending = calls[Now].ended /\ Op = calls[Now].op
<1>1. calls \in Seq(CallRecords) /\ Now = Len(calls)
  BY DEF FlowInv, Now
<1>2. calls # <<>> => Now > 0
  BY <1>1, EmptySeq
<1>3. Now > 0 => calls[Now] \in CallRecords
  BY <1>1, ElementOfSeq
<1> QED
  BY <1>1, <1>2, <1>3 DEF Idle, Place, Op, Ending, CallRecords

LEMMA AnswersHold == OperationInv => AnswersThisExchange
<1> SUFFICES ASSUME OperationInv, Idle, calls # <<>>
             PROVE  /\ answer.wanted => answer.rc = Verdict[1] /\ answer.text = Verdict[2]
                    /\ answer.result # NULL => Verdict[1] = "ok" /\ Op \notin StatusOps
                    /\ Verdict[1] = "ok" /\ Op \notin StatusOps /\ wire.body \in {"elements", "outArgs"}
                         => answer.result # NULL
  BY DEF AnswersThisExchange, Returned
<1>1. Now > 0 /\ Place = 29 /\ fault = "none" /\ Op \in AllOps
  BY IdleIs DEF OperationInv
<1>2. Verdict = Outcome /\ (Verdict[1] = "ok" <=> Ending = "ok") /\ Ending \in Endings
  BY <1>1, VerdictIs DEF OperationInv, FlowInv
<1>3. Place > ReportAt[Ending]
  BY <1>1, <1>2, ReportPlaces
<1>4. answer.wanted => answer.rc = Verdict[1] /\ answer.text = Verdict[2]
  BY <1>1, <1>2, <1>3 DEF OperationInv, AnswerInv
<1>5. ResultInv
  BY <1>1 DEF OperationInv, AnswerInv
<1>6. Op \notin StatusOps => Op \in EnumOps \cup {"createInstance"} \/ Op \in Cloners
  BY <1>1 DEF AllOps, ObjectOps, Cloners
<1> QED
  BY <1>1, <1>2, <1>4, <1>5, <1>6 DEF ResultInv, Full

LEMMA WasteHolds == OpsAssumption /\ OperationInv => NothingLost
<1> SUFFICES ASSUME OpsAssumption, OperationInv, Idle,
                    NEW o \in heap, ~ \E p \in theirs : o \in Parts(p)
             PROVE  <<calls[o[1]].op, calls[o[1]].ended, o[2]>> \in Forgotten
  BY DEF NothingLost
<1>1. fault = "none" /\ Place = 29 /\ Now \in Nat /\ ~Owned(o)
  BY IdleIs DEF OperationInv, Owned
<1>2. CASE o[1] = Now /\ Due(o[2])
  <2>1. calls # <<>>
    <3>1. o[1] # 0
      BY DEF OperationInv, Types, Objects, OpsAssumption
    <3> QED
      BY <1>2, <3>1 DEF Now
  <2>2. /\ Now > 0 /\ Op \in AllOps /\ Ending = calls[Now].ended /\ Op = calls[Now].op
        /\ Ending \in Endings /\ (Ending = "argument" => Op = "invokeMethod")
    BY <2>1, IdleIs DEF OperationInv, FlowInv
  <2>3. <<Op, Ending, o[2]>> \in Forgotten
    BY <1>1, <1>2, <2>2, DueForgotten
  <2> QED
    BY <1>2, <2>2, <2>3
<1> QED
  BY <1>1, <1>2 DEF OperationInv, WasteInv

\* The variables have their types, and the connection holds one response at
\* most, however the operations on it end.
THEOREM OperationTypes == OpsAssumption /\ Spec => []TypeOK
<1>1. OperationInv => TypeOK
  BY TypesHold DEF OperationInv
<1> QED
  BY <1>1, OperationAlways, PTL

\* No operation, on any way out of it, uses or releases what was released, and
\* nor do libcurl or the caller.
THEOREM OperationsRelease == OpsAssumption /\ Spec => []NoUseAfterRelease
<1>1. OperationInv => NoUseAfterRelease
  BY DEF OperationInv, MemInv, NoUseAfterRelease
<1> QED
  BY <1>1, OperationAlways, PTL

\* Every operation reports what came of its own exchange, whatever came before
\* it on the connection.
THEOREM OperationsAnswer == OpsAssumption /\ Spec => []AnswersThisExchange
<1>1. OperationInv => AnswersThisExchange
  BY AnswersHold
<1> QED
  BY <1>1, OperationAlways, PTL

\* What an operation allocated and neither released nor handed over is in the
\* list of what is forgotten.
THEOREM OperationsForget == OpsAssumption /\ Spec => []NothingLost
<1>1. CASE OpsAssumption
  <2>1. OperationInv => NothingLost
    BY <1>1, WasteHolds
  <2> QED
    BY <1>1, <2>1, OperationAlways, PTL
<1> QED
  BY <1>1
=============================================================================
