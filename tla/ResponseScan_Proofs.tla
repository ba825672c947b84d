------------------------- MODULE ResponseScan_Proofs -------------------------
(***************************************************************************)
(* One scan at a time, for any threads and any texts: who is in a parsing  *)
(* function holds scan_mutex, so that the static look-ahead is its own;    *)
(* and a scan that returns leaves nothing in it for the next.              *)
(***************************************************************************)
EXTENDS ResponseScan, SequenceTheorems, WellFoundedInduction, TLAPS

(* A thread is between lock and unlock exactly while it is the holder.     *)
HolderParses ==
  /\ scan_mutex \in Threads \cup {NoThread}
  /\ pc \in [Threads -> {"idle", "lock", "parse", "done"}]
  /\ DOMAIN xmb = Threads /\ DOMAIN todo = Threads /\ DOMAIN respHdr = Threads
  /\ \A t \in Threads : pc[t] = "parse" <=> scan_mutex = t

LEMMA HolderInit == Init => HolderParses
  BY ScanAssumption DEF Init, HolderParses

\* A step in a parsing function leaves the mutex, and the data of the others.
Steps(t) == Read(t) \/ CallFunction(t) \/ SetDontLex(t) \/ Store(t) \/ setReturnArgs(t)

LEMMA StepsAreOnes ==
  ASSUME HolderParses, NEW t \in Threads, Steps(t)
  PROVE  /\ scan_mutex = t /\ UNCHANGED <<scan_mutex, pc, text>>
         /\ DOMAIN xmb' = Threads /\ DOMAIN todo' = Threads /\ DOMAIN respHdr' = Threads
         /\ \A u \in Threads \ {t} :
              xmb'[u] = xmb[u] /\ todo'[u] = todo[u] /\ respHdr'[u] = respHdr[u]
<1>1. scan_mutex = t
  BY DEF HolderParses, Steps, Read, CallFunction, SetDontLex, Store, setReturnArgs, Next_step
<1>2. UNCHANGED <<scan_mutex, pc, text>>
  BY DEF Steps, Read, CallFunction, SetDontLex, Store, setReturnArgs
<1>3. xmb' = xmb \/ \E b : xmb' = [xmb EXCEPT ![t] = b]
  BY DEF Steps, Read, CallFunction, SetDontLex, Store, setReturnArgs
<1>4. todo' = todo \/ \E q : todo' = [todo EXCEPT ![t] = q]
  BY DEF Steps, Read, CallFunction, SetDontLex, Store, setReturnArgs
<1>5. respHdr' = respHdr \/ \E h : respHdr' = [respHdr EXCEPT ![t] = h]
  BY DEF Steps, Read, CallFunction, SetDontLex, Store, setReturnArgs
<1> QED
  BY <1>1, <1>2, <1>3, <1>4, <1>5 DEF HolderParses

LEMMA HolderStep == HolderParses /\ [Next]_vars => HolderParses'
<1> SUFFICES ASSUME HolderParses, [Next]_vars
             PROVE  HolderParses'
  OBVIOUS
<1>1. ASSUME NEW t \in Threads, NEW txt \in Texts, Call_scanCimXmlResponse(t, txt)
      PROVE  HolderParses'
  BY <1>1 DEF Call_scanCimXmlResponse, HolderParses
<1>2. ASSUME NEW t \in Threads, Lock(t)
      PROVE  HolderParses'
  BY <1>2, ScanAssumption DEF Lock, HolderParses
<1>3. ASSUME NEW t \in Threads, Steps(t)
      PROVE  HolderParses'
  BY <1>3, StepsAreOnes DEF HolderParses
<1>4. ASSUME NEW t \in Threads, Unlock(t)
      PROVE  HolderParses'
  BY <1>4, ScanAssumption DEF Unlock, HolderParses
<1>5. CASE UNCHANGED vars
  BY <1>5 DEF vars, HolderParses
<1> QED
  BY <1>1, <1>2, <1>3, <1>4, <1>5 DEF Next, Scan, Steps

\* What OnlyTheHolderReads says of one step.
HolderReads ==
  /\ <<ct, dontLex>>' # <<ct, dontLex>> => scan_mutex \in Threads /\ scan_mutex' = scan_mutex
  /\ \A t \in Threads \ {scan_mutex'} :
       xmb'[t] = xmb[t] /\ todo'[t] = todo[t] /\ respHdr'[t] = respHdr[t]

LEMMA ReadsInTurn == HolderParses /\ [Next]_vars => [HolderReads]_vars
<1> SUFFICES ASSUME HolderParses, Next
             PROVE  HolderReads
  OBVIOUS
<1>1. ASSUME NEW t \in Threads, NEW txt \in Texts, Call_scanCimXmlResponse(t, txt)
      PROVE  HolderReads
  BY <1>1 DEF Call_scanCimXmlResponse, HolderReads
<1>2. ASSUME NEW t \in Threads, Lock(t)
      PROVE  HolderReads
  BY <1>2 DEF Lock, HolderReads, HolderParses
<1>3. ASSUME NEW t \in Threads, Steps(t)
      PROVE  HolderReads
  BY <1>3, StepsAreOnes DEF HolderReads
<1>4. ASSUME NEW t \in Threads, Unlock(t)
      PROVE  HolderReads
  BY <1>4 DEF Unlock, HolderReads
<1> QED
  BY <1>1, <1>2, <1>3, <1>4 DEF Next, Scan, Steps

(* The static ct and dontLex are read and set for one text at a time,      *)
(* however many client and listener threads call scanCimXmlResponse.       *)
THEOREM LookAheadIsTheHolders == Spec => OnlyTheHolderReads
  BY HolderInit, HolderStep, ReadsInTurn, PTL DEF Spec, OnlyTheHolderReads, HolderReads

-----------------------------------------------------------------------------
(* The grammar: every parsing function is a sequence of well-formed steps. *)

(* What a parsing function is made of.  The alternatives of a step are     *)
(* sequences of steps again, three levels of them at most.                 *)
Tags ==
  { "?xml", "CIM", "MESSAGE", "SIMPLERSP", "SIMPLEEXPREQ",
    "METHODRESPONSE", "IMETHODRESPONSE", "EXPMETHODCALL", "EXPPARAMVALUE",
    "INSTANCE", "PARAMVALUE", "ERROR", "RETURNVALUE", "IRETURNVALUE",
    "VALUE", "VALUE.REFERENCE", "VALUE.ARRAY", "VALUE.REFARRAY",
    "VALUE.OBJECTWITHPATH", "CLASS", "CLASSNAME", "INSTANCENAME",
    "VALUE.NAMEDINSTANCE", "OBJECTPATH", "CLASSPATH", "INSTANCEPATH",
    "QUALIFIER", "PROPERTY", "PROPERTY.ARRAY", "PROPERTY.REFERENCE",
    "METHOD", "PARAMETER", "PARAMETER.REFERENCE", "PARAMETER.ARRAY",
    "PARAMETER.REFARRAY", "LOCALINSTANCEPATH", "NAMESPACEPATH", "HOST",
    "LOCALNAMESPACEPATH", "NAMESPACE", "KEYBINDING", "KEYVALUE",
    "![CDATA[" }
Tokens == {"XTOK", "ZTOK"} \X Tags
FunctionNames ==
  { "start", "cim",
    "message", "messageContent", "simpleRspContent", "exportIndication",
    "exParamValue", "methodRespContent", "iMethodRespContent", "error",
    "returnValue", "returnValueData", "paramValue", "paramValueData",
    "iReturnValue", "iReturnValueContent", "getPropertyRetValue",
    "valueObjectWithPath", "valueObjectWithPathData", "classWithPath",
    "instanceWithPath", "class", "method", "parameter",
    "parameterReference", "parameterRefArray", "parameterArray",
    "objectPath", "classPath", "className", "instancePath",
    "localInstancePath", "nameSpacePath", "host", "localNameSpacePath",
    "nameSpace", "valueNamedInstance", "instance", "genProperty",
    "qualifier", "qualifierData", "property", "propertyArray",
    "propertyReference", "instanceName", "keyBinding",
    "keyBindingContent", "keyValue", "value", "valueData", "valueArray",
    "valueRefArray", "valueReference", "valueReferenceData" }
Operations == {"read", "call", "put", "setReturnArgs", "pushBack"}
Fields == {"rvArray", "values", "outArgs", "error"}
AltsOf(S) == UNION {[T -> Seq(S)] : T \in SUBSET Tokens}
StepsOver(S) ==
  {s \in [op : Operations, alts : AltsOf(S), back : BOOLEAN, again : BOOLEAN, must : BOOLEAN,
          arg : FunctionNames \cup Fields \cup {""}, at : Nat] :
     s.op = "call" => s.arg \in FunctionNames}
Steps0 == StepsOver({})
Steps1 == StepsOver(Steps0)
Steps2 == StepsOver(Steps1)

LEMMA AltsGrow ==
  ASSUME NEW S, NEW T, S \subseteq T
  PROVE  AltsOf(S) \subseteq AltsOf(T)
<1>1. Seq(S) \subseteq Seq(T)
  BY SeqMonotonic
<1> QED
  BY <1>1 DEF AltsOf

LEMMA StepsGrow == Steps0 \subseteq Steps1 /\ Steps1 \subseteq Steps2
<1>1. ASSUME NEW S, NEW T, S \subseteq T
      PROVE  StepsOver(S) \subseteq StepsOver(T)
  BY <1>1, AltsGrow DEF StepsOver
<1>2. Steps0 \subseteq Steps1
  BY <1>1 DEF Steps0, Steps1
<1> QED
  BY <1>1, <1>2 DEF Steps1, Steps2

LEMMA StepKinds ==
  ASSUME NEW S, NEW alts \in AltsOf(S)
  PROVE  /\ Take(alts) \in StepsOver(S) /\ Choose(alts) \in StepsOver(S)
         /\ Optional(alts) \in StepsOver(S) /\ Star(alts) \in StepsOver(S)
BY DEF Take, Choose, Optional, Star, Step, StepsOver, Operations

LEMMA Alternatives ==
  ASSUME NEW S
  PROVE  /\ NoAlts \in AltsOf(S)
         /\ \A T \in SUBSET Tokens, steps \in Seq(S) : [tok \in T |-> steps] \in AltsOf(S)
         /\ \A tag \in Tags, steps \in Seq(S) : On(tag, steps) \in AltsOf(S)
         /\ \A branches \in SUBSET AltsOf(S) : OneOf(branches) \in AltsOf(S)
<1>1. ASSUME NEW T \in SUBSET Tokens, NEW steps \in Seq(S)
      PROVE  [tok \in T |-> steps] \in AltsOf(S)
  BY DEF AltsOf
<1>2. NoAlts \in AltsOf(S)
  <2>1. << >> \in Seq(S)
    OBVIOUS
  <2>2. [tok \in {} |-> << >>] \in AltsOf(S)
    BY <1>1, <2>1
  <2> QED
    BY <2>2 DEF NoAlts
<1>3. ASSUME NEW tag \in Tags, NEW steps \in Seq(S)
      PROVE  On(tag, steps) \in AltsOf(S)
  <2>1. {X(tag)} \in SUBSET Tokens
    BY DEF X, Tokens
  <2> QED
    BY <1>1, <2>1 DEF On
<1>4. ASSUME NEW branches \in SUBSET AltsOf(S)
      PROVE  OneOf(branches) \in AltsOf(S)
  <2> DEFINE T == UNION {DOMAIN b : b \in branches}
             branch(tok) == CHOOSE b \in branches : tok \in DOMAIN b
  <2>1. \A b \in AltsOf(S) : DOMAIN b \in SUBSET Tokens /\ \A tok \in DOMAIN b : b[tok] \in Seq(S)
    BY DEF AltsOf
  <2>2. T \in SUBSET Tokens
    BY <2>1
  <2>3. \A tok \in T : branch(tok) \in branches /\ tok \in DOMAIN branch(tok)
    OBVIOUS
  <2>4. \A tok \in T : branch(tok)[tok] \in Seq(S)
    BY <2>1, <2>3
  <2> HIDE DEF T, branch
  <2>5. [tok \in T |-> branch(tok)[tok]] \in AltsOf(S)
    BY <2>2, <2>4 DEF AltsOf
  <2> QED
    BY <2>5 DEF OneOf, T, branch
<1> QED
  BY <1>1, <1>2, <1>3, <1>4

LEMMA Leaves ==
  /\ \A f \in FunctionNames : Call(f) \in Steps0
  /\ \A field \in Fields : Put(field) \in Steps0
  /\ SetReturnArgs \in Steps0 /\ PushBack \in Steps0
  /\ \A tag \in Tags : Expect(X(tag)) \in Steps0 /\ Expect(Z(tag)) \in Steps0
<1>2. NoAlts \in AltsOf({})
  BY Alternatives
<1>3. /\ \A f \in FunctionNames : Call(f) \in Steps0
      /\ \A field \in Fields : Put(field) \in Steps0
      /\ SetReturnArgs \in Steps0 /\ PushBack \in Steps0
  BY <1>2 DEF Call, Put, SetReturnArgs, PushBack, Step, Steps0, StepsOver, Operations
<1>4. ASSUME NEW tok \in Tokens
      PROVE  Expect(tok) \in Steps0
  <2>1. << >> \in Seq({}) /\ {tok} \in SUBSET Tokens
    OBVIOUS
  <2>2. [x \in {tok} |-> << >>] \in AltsOf({})
    BY <2>1, Alternatives
  <2> QED
    BY <2>2, StepKinds DEF Expect, Steps0
<1>5. \A tag \in Tags : X(tag) \in Tokens /\ Z(tag) \in Tokens
  BY DEF X, Z, Tokens
<1> QED
  BY <1>3, <1>4, <1>5


LEMMA OneStep ==
  ASSUME NEW S, NEW s \in S
  PROVE  <<s>> \in Seq(S)
OBVIOUS

LEMMA Elements ==
  ASSUME NEW S, Steps0 \subseteq S
  PROVE  \A tag \in Tags, steps \in Seq(S) :
           Within(tag, steps) \in AltsOf(S) /\ Element(tag, steps) \in Seq(StepsOver(S))
<1> SUFFICES ASSUME NEW tag \in Tags, NEW steps \in Seq(S)
             PROVE  Within(tag, steps) \in AltsOf(S) /\ Element(tag, steps) \in Seq(StepsOver(S))
  OBVIOUS
<1>1. Expect(Z(tag)) \in S
  BY Leaves
<1>2. Append(steps, Expect(Z(tag))) \in Seq(S)
  BY <1>1, AppendProperties
<1>3. Within(tag, steps) \in AltsOf(S)
  BY <1>2, Alternatives DEF Within
<1>4. Take(Within(tag, steps)) \in StepsOver(S)
  BY <1>3, StepKinds
<1>5. <<Take(Within(tag, steps))>> \in Seq(StepsOver(S))
  BY <1>4, OneStep
<1> QED
  BY <1>3, <1>5 DEF Element

(* The loops and the optional parts of the functions.                      *)
LEMMA InnerSteps ==
  /\ \A f \in FunctionNames : Call(f) \in Steps1
  /\ \A field \in Fields : Put(field) \in Steps1
  /\ SetReturnArgs \in Steps1 /\ PushBack \in Steps1
  /\ \A tag \in Tags : Expect(X(tag)) \in Steps1 /\ Expect(Z(tag)) \in Steps1
BY Leaves, StepsGrow

LEMMA Loops ==
  /\ \A alts \in AltsOf(Steps0) : Star(alts) \in Steps1 /\ Optional(alts) \in Steps1
  /\ \A tag \in Tags, f \in FunctionNames :
       On(tag, <<Call(f)>>) \in AltsOf(Steps0) /\ Many(tag, f) \in Steps1
  /\ \A tag \in Tags, f \in FunctionNames, field \in Fields :
       On(tag, <<Call(f), Put(field)>>) \in AltsOf(Steps0)
  /\ \A T \in SUBSET Tokens, f \in FunctionNames : [x \in T |-> <<Call(f)>>] \in AltsOf(Steps0)
<1>1. \A alts \in AltsOf(Steps0) : Star(alts) \in Steps1 /\ Optional(alts) \in Steps1
  BY StepKinds DEF Steps1
<1>2. ASSUME NEW f \in FunctionNames
      PROVE  <<Call(f)>> \in Seq(Steps0)
  BY Leaves, OneStep
<1>3. ASSUME NEW tag \in Tags, NEW f \in FunctionNames
      PROVE  On(tag, <<Call(f)>>) \in AltsOf(Steps0)
  BY <1>2, Alternatives
<1>4. ASSUME NEW tag \in Tags, NEW f \in FunctionNames, NEW field \in Fields
      PROVE  On(tag, <<Call(f), Put(field)>>) \in AltsOf(Steps0)
  <2>1. Call(f) \in Steps0 /\ Put(field) \in Steps0
    BY Leaves
  <2>2. <<Call(f), Put(field)>> \in Seq(Steps0)
    BY <2>1
  <2> QED
    BY <2>2, Alternatives
<1>5. ASSUME NEW T \in SUBSET Tokens, NEW f \in FunctionNames
      PROVE  [x \in T |-> <<Call(f)>>] \in AltsOf(Steps0)
  BY <1>2, Alternatives
<1>6. \A tag \in Tags, f \in FunctionNames : Many(tag, f) \in Steps1
  BY <1>1, <1>3 DEF Many
<1> QED
  BY <1>1, <1>3, <1>4, <1>5, <1>6

Program == Seq(Steps2)

LEMMA Programs ==
  /\ \A alts \in AltsOf(Steps1) : <<Take(alts)>> \in Program /\ <<Choose(alts)>> \in Program
  /\ \A tag \in Tags, steps \in Seq(Steps1) : Element(tag, steps) \in Program
<1>1. \A s \in Steps2 : <<s>> \in Program
  BY OneStep DEF Program
<1>2. \A alts \in AltsOf(Steps1) : Take(alts) \in Steps2 /\ Choose(alts) \in Steps2
  BY StepKinds DEF Steps2
<1>3. \A tag \in Tags, steps \in Seq(Steps1) : Element(tag, steps) \in Program
  BY Elements, StepsGrow DEF Steps2, Program
<1> QED
  BY <1>1, <1>2, <1>3

(* The bodies of the functions.                                            *)
LEMMA Bodies ==
  /\ << >> \in Seq(Steps1)
  /\ \A s \in Steps1 : <<s>> \in Seq(Steps1)
  /\ \A s, u \in Steps1 : <<s, u>> \in Seq(Steps1)
  /\ \A s, u, w \in Steps1 : <<s, u, w>> \in Seq(Steps1)
OBVIOUS

(* The branches of the functions.                                          *)
LEMMA Branches ==
  /\ \A tag \in Tags, f \in FunctionNames : On(tag, <<Call(f)>>) \in AltsOf(Steps1)
  /\ \A tag \in Tags, f \in FunctionNames, field \in Fields :
       On(tag, <<Call(f), Put(field)>>) \in AltsOf(Steps1)
  /\ \A T \in SUBSET Tokens, f \in FunctionNames : [x \in T |-> <<Call(f)>>] \in AltsOf(Steps1)
  /\ \A T \in SUBSET Tokens : [x \in T |-> << >>] \in AltsOf(Steps1)
  /\ \A tag \in Tags, steps \in Seq(Steps1) :
       On(tag, steps) \in AltsOf(Steps1) /\ Within(tag, steps) \in AltsOf(Steps1)
  /\ \A branches \in SUBSET AltsOf(Steps1) : OneOf(branches) \in AltsOf(Steps1)
<1>1. AltsOf(Steps0) \subseteq AltsOf(Steps1)
  BY StepsGrow, AltsGrow
<1>2. \A T \in SUBSET Tokens : [x \in T |-> << >>] \in AltsOf(Steps1)
  BY Bodies, Alternatives
<1>3. \A tag \in Tags, steps \in Seq(Steps1) : On(tag, steps) \in AltsOf(Steps1)
  BY Alternatives
<1>4. \A tag \in Tags, steps \in Seq(Steps1) : Within(tag, steps) \in AltsOf(Steps1)
  BY Elements, StepsGrow
<1>5. \A branches \in SUBSET AltsOf(Steps1) : OneOf(branches) \in AltsOf(Steps1)
  BY Alternatives
<1> QED
  BY <1>1, <1>2, <1>3, <1>4, <1>5, Loops

LEMMA CallsWithin ==
  /\ \A tag \in Tags : Element(tag, << >>) \in Program
  /\ \A tag \in Tags, f \in FunctionNames : Element(tag, <<Call(f)>>) \in Program
  /\ \A tag \in Tags, f, g \in FunctionNames : Element(tag, <<Call(f), Call(g)>>) \in Program
  /\ \A tag, inner \in Tags, f \in FunctionNames : Element(tag, <<Many(inner, f)>>) \in Program
<1>1. \A f, g \in FunctionNames :
        <<Call(f)>> \in Seq(Steps1) /\ <<Call(f), Call(g)>> \in Seq(Steps1)
  BY InnerSteps, Bodies
<1>2. \A tag \in Tags, f \in FunctionNames : <<Many(tag, f)>> \in Seq(Steps1)
  BY Loops, Bodies
<1> QED
  BY <1>1, <1>2, Programs, Bodies

LEMMA MessageFunctions ==
  /\ cim \in Program /\ message \in Program
  /\ messageContent \in Program /\ simpleRspContent \in Program
  /\ exportIndication \in Program /\ exParamValue \in Program
<1>1. {"CIM", "MESSAGE", "SIMPLERSP", "SIMPLEEXPREQ", "METHODRESPONSE", "IMETHODRESPONSE",
       "EXPMETHODCALL", "EXPPARAMVALUE", "INSTANCE"} \subseteq Tags
  BY DEF Tags
<1>2. {"message", "messageContent", "simpleRspContent", "exportIndication", "exParamValue",
       "methodRespContent", "iMethodRespContent", "instance"} \subseteq FunctionNames
  BY DEF FunctionNames
<1>3. cim \in Program /\ message \in Program /\ exportIndication \in Program
  BY <1>1, <1>2, CallsWithin DEF cim, message, exportIndication
<1>4. messageContent \in Program
  <2>1. /\ Within("SIMPLERSP", <<Call("simpleRspContent")>>) \in AltsOf(Steps1)
        /\ Within("SIMPLEEXPREQ", <<Call("exportIndication")>>) \in AltsOf(Steps1)
    BY <1>1, <1>2, InnerSteps, Bodies, Branches
  <2>2. OneOf({Within("SIMPLERSP", <<Call("simpleRspContent")>>),
               Within("SIMPLEEXPREQ", <<Call("exportIndication")>>)}) \in AltsOf(Steps1)
    BY <2>1, Branches
  <2> QED
    BY <2>2, Programs DEF messageContent
<1>5. simpleRspContent \in Program
  <2>1. /\ Within("METHODRESPONSE", <<Call("methodRespContent"), SetReturnArgs>>) \in AltsOf(Steps1)
        /\ Within("IMETHODRESPONSE", <<Call("iMethodRespContent")>>) \in AltsOf(Steps1)
    BY <1>1, <1>2, InnerSteps, Bodies, Branches
  <2> QED
    BY <2>1, Branches, Programs DEF simpleRspContent
<1>6. exParamValue \in Program
  <2>1. On("INSTANCE", <<Call("instance"), Put("rvArray")>>) \in AltsOf(Steps0)
    BY <1>1, <1>2, Loops DEF Fields
  <2>2. <<Optional(On("INSTANCE", <<Call("instance"), Put("rvArray")>>))>> \in Seq(Steps1)
    BY <2>1, Loops, Bodies
  <2> QED
    BY <1>1, <2>2, Programs DEF exParamValue
<1> QED
  BY <1>3, <1>4, <1>5, <1>6

LEMMA MethodFunctions ==
  /\ start \in Program /\ methodRespContent \in Program /\ iMethodRespContent \in Program
  /\ error \in Program /\ returnValue \in Program /\ returnValueData \in Program
  /\ paramValue \in Program /\ paramValueData \in Program
<1>1. {"?xml", "ERROR", "RETURNVALUE", "PARAMVALUE", "METHODRESPONSE", "IRETURNVALUE", "VALUE",
       "VALUE.REFERENCE", "VALUE.ARRAY", "VALUE.REFARRAY"} \subseteq Tags
  BY DEF Tags
<1>2. {"cim", "error", "returnValue", "iReturnValue", "returnValueData", "paramValue",
       "paramValueData", "value", "valueReference", "valueArray", "valueRefArray"}
         \subseteq FunctionNames
  BY DEF FunctionNames
<1>3. start \in Program
  <2>1. start \in Seq(Steps1)
    BY <1>1, <1>2, InnerSteps, Bodies DEF start
  <2> QED
    BY <2>1, StepsGrow, SeqMonotonic DEF Program
<1>4. OutParams \in Steps1
  BY <1>1, <1>2, Loops DEF OutParams, Fields
<1>5. methodRespContent \in Program
  <2>1. On("ERROR", <<Call("error")>>) \in AltsOf(Steps1)
    BY <1>1, <1>2, Branches
  <2>2. On("RETURNVALUE", <<Call("returnValue"), OutParams>>) \in AltsOf(Steps1)
    BY <1>1, <1>2, <1>4, InnerSteps, Bodies, Branches
  <2>3. On("PARAMVALUE", <<OutParams>>) \in AltsOf(Steps1)
    BY <1>1, <1>4, Bodies, Branches
  <2>4. [x \in {Z("METHODRESPONSE")} |-> << >>] \in AltsOf(Steps1)
    BY <1>1, Branches DEF Z, Tokens
  <2> QED
    BY <2>1, <2>2, <2>3, <2>4, Branches, Programs DEF methodRespContent
<1>6. iMethodRespContent \in Program
  BY <1>1, <1>2, Branches, Programs DEF iMethodRespContent
<1>7. error \in Program
  BY <1>1, InnerSteps, Bodies, Programs DEF error, Fields
<1>8. returnValue \in Program
  BY <1>1, <1>2, InnerSteps, Bodies, Programs DEF returnValue, Fields
<1>9. OnReference \in AltsOf(Steps1) /\ OnArray \in AltsOf(Steps1) /\ OnRefArray \in AltsOf(Steps1)
  BY <1>1, <1>2, Branches DEF OnReference, OnArray, OnRefArray
<1>10. \A others \in SUBSET AltsOf(Steps1) : <<ValueOr(others)>> \in Program
  BY <1>1, <1>2, Branches, Programs DEF ValueOr
<1>11. returnValueData \in Program /\ paramValueData \in Program
  BY <1>9, <1>10 DEF returnValueData, paramValueData
<1>12. paramValue \in Program
  <2> DEFINE T == {X("VALUE"), X("VALUE.REFERENCE"), X("VALUE.ARRAY"), X("VALUE.REFARRAY")}
  <2>1. T \in SUBSET Tokens
    BY <1>1 DEF X, Tokens
  <2> HIDE DEF T
  <2>2. [tok \in T |-> <<Call("paramValueData")>>] \in AltsOf(Steps0)
    BY <1>2, <2>1, Loops
  <2>3. <<Optional([tok \in T |-> <<Call("paramValueData")>>])>> \in Seq(Steps1)
    BY <2>2, Loops, Bodies
  <2> QED
    BY <1>1, <2>3, Programs DEF paramValue, T
<1> QED
  BY <1>3, <1>5, <1>6, <1>7, <1>8, <1>11, <1>12

LEMMA Lists ==
  \A tag \in Tags, f \in FunctionNames : List(tag, f) \in AltsOf(Steps1)
<1> SUFFICES ASSUME NEW tag \in Tags, NEW f \in FunctionNames
             PROVE  List(tag, f) \in AltsOf(Steps1)
  OBVIOUS
<1>1. Star(On(tag, <<Call(f), Put("rvArray")>>)) \in Steps1
  BY Loops DEF Fields
<1>2. Call(f) \in Steps1 /\ Put("rvArray") \in Steps1
  BY InnerSteps DEF Fields
<1> QED
  BY <1>1, <1>2, Bodies, Branches DEF List

LEMMA IReturnFunctions ==
  /\ iReturnValue \in Program /\ iReturnValueContent \in Program
  /\ getPropertyRetValue \in Program /\ valueObjectWithPath \in Program
  /\ valueObjectWithPathData \in Program
  /\ classWithPath \in Program /\ instanceWithPath \in Program
<1>1. {"IRETURNVALUE", "CLASS", "CLASSNAME", "INSTANCE", "INSTANCENAME", "VALUE.NAMEDINSTANCE",
       "OBJECTPATH", "VALUE.OBJECTWITHPATH", "VALUE", "VALUE.ARRAY", "VALUE.REFERENCE",
       "CLASSPATH", "INSTANCEPATH"} \subseteq Tags
  BY DEF Tags
<1>2. {"iReturnValueContent", "class", "className", "instance", "instanceName", "objectPath",
       "valueNamedInstance", "valueObjectWithPath", "getPropertyRetValue", "value",
       "valueArray", "valueReference", "valueObjectWithPathData", "classWithPath",
       "instanceWithPath", "classPath", "instancePath"} \subseteq FunctionNames
  BY DEF FunctionNames
<1>3. iReturnValue \in Program /\ valueObjectWithPath \in Program
  BY <1>1, <1>2, CallsWithin DEF iReturnValue, valueObjectWithPath
<1>4. iReturnValueContent \in Program
  <2> DEFINE T == {X("VALUE"), X("VALUE.ARRAY"), X("VALUE.REFERENCE")}
  <2>1. T \in SUBSET Tokens /\ {Z("IRETURNVALUE")} \in SUBSET Tokens
    BY <1>1 DEF X, Z, Tokens
  <2> HIDE DEF T
  <2>2. /\ List("CLASS", "class") \in AltsOf(Steps1)
        /\ List("CLASSNAME", "className") \in AltsOf(Steps1)
        /\ List("INSTANCE", "instance") \in AltsOf(Steps1)
        /\ List("INSTANCENAME", "instanceName") \in AltsOf(Steps1)
        /\ List("VALUE.NAMEDINSTANCE", "valueNamedInstance") \in AltsOf(Steps1)
        /\ List("OBJECTPATH", "objectPath") \in AltsOf(Steps1)
    BY <1>1, <1>2, Lists
  <2>3. ListOfObjects \in AltsOf(Steps1)
    BY <1>1, <1>2, InnerSteps, Loops, Bodies, Branches DEF ListOfObjects
  <2>4. /\ [x \in T |-> <<Call("getPropertyRetValue")>>] \in AltsOf(Steps1)
        /\ [x \in {Z("IRETURNVALUE")} |-> << >>] \in AltsOf(Steps1)
    BY <1>2, <2>1, Branches
  <2> QED
    BY <2>2, <2>3, <2>4, Branches, Programs DEF iReturnValueContent, T
<1>5. getPropertyRetValue \in Program
  <2>1. /\ On("VALUE", <<Call("value"), Put("rvArray")>>) \in AltsOf(Steps1)
        /\ OnArray \in AltsOf(Steps1) /\ OnReference \in AltsOf(Steps1)
    BY <1>1, <1>2, Branches DEF OnArray, OnReference, Fields
  <2> QED
    BY <2>1, Branches, Programs DEF getPropertyRetValue
<1>6. valueObjectWithPathData \in Program
  <2>1. /\ On("CLASSPATH", <<Call("classWithPath")>>) \in AltsOf(Steps1)
        /\ On("INSTANCEPATH", <<Call("instanceWithPath"), Put("rvArray")>>) \in AltsOf(Steps1)
    BY <1>1, <1>2, Branches DEF Fields
  <2> QED
    BY <2>1, Branches, Programs DEF valueObjectWithPathData
<1>7. classWithPath \in Program /\ instanceWithPath \in Program
  <2>1. /\ <<Call("classPath"), Call("class")>> \in Seq(Steps1)
        /\ <<Call("instancePath"), Call("instance")>> \in Seq(Steps1)
    BY <1>2, InnerSteps, Bodies
  <2> QED
    BY <1>1, <2>1, Branches, Programs DEF classWithPath, instanceWithPath
<1> QED
  BY <1>3, <1>4, <1>5, <1>6, <1>7

LEMMA ClassFunctions ==
  /\ Qualifiers \in Steps1 /\ Properties \in Steps1
  /\ class \in Program /\ method \in Program
  /\ parameter \in Program /\ parameterReference \in Program
  /\ parameterRefArray \in Program /\ parameterArray \in Program
<1>1. {"QUALIFIER", "PROPERTY", "PROPERTY.ARRAY", "PROPERTY.REFERENCE", "CLASS", "METHOD",
       "PARAMETER", "PARAMETER.REFERENCE", "PARAMETER.ARRAY", "PARAMETER.REFARRAY"} \subseteq Tags
  BY DEF Tags
<1>2. {"qualifier", "genProperty", "method", "parameter", "parameterReference",
       "parameterArray", "parameterRefArray"} \subseteq FunctionNames
  BY DEF FunctionNames
<1>3. Qualifiers \in Steps1
  BY <1>1, <1>2, Loops DEF Qualifiers
<1>4. Properties \in Steps1
  <2>1. {X("PROPERTY"), X("PROPERTY.ARRAY"), X("PROPERTY.REFERENCE")} \in SUBSET Tokens
    BY <1>1 DEF X, Tokens
  <2> QED
    BY <1>2, <2>1, Loops DEF Properties
<1>5. class \in Program
  BY <1>1, <1>2, <1>3, <1>4, Loops, Bodies, Programs DEF class
<1>6. method \in Program
  <2>1. methodData \in AltsOf(Steps0)
    <3>1. /\ On("PARAMETER", <<Call("parameter")>>) \in AltsOf(Steps0)
          /\ On("PARAMETER.REFERENCE", <<Call("parameterReference")>>) \in AltsOf(Steps0)
          /\ On("PARAMETER.ARRAY", <<Call("parameterArray")>>) \in AltsOf(Steps0)
          /\ On("PARAMETER.REFARRAY", <<Call("parameterRefArray")>>) \in AltsOf(Steps0)
      BY <1>1, <1>2, Loops
    <3>2. \A branches \in SUBSET AltsOf(Steps0) : OneOf(branches) \in AltsOf(Steps0)
      BY Alternatives
    <3> QED
      BY <3>1, <3>2 DEF methodData
  <2> QED
    BY <1>1, <1>3, <2>1, Loops, Bodies, Programs DEF method
<1>7. parameter \in Program /\ parameterReference \in Program
  BY <1>1, <1>3, Bodies, Programs DEF parameter, parameterReference
<1>8. parameterRefArray \in Program /\ parameterArray \in Program
  BY <1>1, <1>3, Bodies, Programs DEF parameterRefArray, parameterArray
<1> QED
  BY <1>3, <1>4, <1>5, <1>6, <1>7, <1>8

LEMMA PathFunctions ==
  /\ objectPath \in Program /\ classPath \in Program /\ className \in Program
  /\ instancePath \in Program /\ localInstancePath \in Program /\ nameSpacePath \in Program
  /\ host \in Program /\ localNameSpacePath \in Program /\ nameSpace \in Program
<1>1. {"OBJECTPATH", "CLASSPATH", "CLASSNAME", "INSTANCEPATH", "LOCALINSTANCEPATH",
       "NAMESPACEPATH", "HOST", "LOCALNAMESPACEPATH", "NAMESPACE"} \subseteq Tags
  BY DEF Tags
<1>2. {"instancePath", "nameSpacePath", "className", "instanceName", "localNameSpacePath",
       "host", "nameSpace"} \subseteq FunctionNames
  BY DEF FunctionNames
<1>3. objectPath \in Program /\ className \in Program /\ host \in Program /\ nameSpace \in Program
  BY <1>1, <1>2, CallsWithin DEF objectPath, className, host, nameSpace
<1>4. classPath \in Program /\ instancePath \in Program /\ localInstancePath \in Program
  BY <1>1, <1>2, CallsWithin DEF classPath, instancePath, localInstancePath
<1>5. nameSpacePath \in Program /\ localNameSpacePath \in Program
  BY <1>1, <1>2, CallsWithin DEF nameSpacePath, localNameSpacePath
<1> QED
  BY <1>3, <1>4, <1>5

LEMMA InstanceFunctions ==
  /\ valueNamedInstance \in Program /\ instance \in Program /\ genProperty \in Program
  /\ qualifier \in Program /\ qualifierData \in Program
  /\ property \in Program /\ propertyArray \in Program /\ propertyReference \in Program
<1>1. {"VALUE.NAMEDINSTANCE", "INSTANCE", "PROPERTY", "PROPERTY.ARRAY", "PROPERTY.REFERENCE",
       "QUALIFIER", "VALUE", "VALUE.ARRAY", "VALUE.REFERENCE"} \subseteq Tags
  BY DEF Tags
<1>2. {"instanceName", "instance", "property", "propertyArray", "propertyReference",
       "qualifierData", "value", "valueArray", "valueReference"} \subseteq FunctionNames
  BY DEF FunctionNames
<1>3. valueNamedInstance \in Program
  BY <1>1, <1>2, CallsWithin DEF valueNamedInstance
<1>4. instance \in Program
  BY <1>1, ClassFunctions, Bodies, Programs DEF instance
<1>5. genProperty \in Program
  <2>1. /\ On("PROPERTY", <<Call("property")>>) \in AltsOf(Steps1)
        /\ On("PROPERTY.ARRAY", <<Call("propertyArray")>>) \in AltsOf(Steps1)
        /\ On("PROPERTY.REFERENCE", <<Call("propertyReference")>>) \in AltsOf(Steps1)
    BY <1>1, <1>2, Branches
  <2> QED
    BY <2>1, Branches, Programs DEF genProperty
<1>6. qualifier \in Program
  <2>1. {X("VALUE"), X("VALUE.ARRAY")} \in SUBSET Tokens
    BY <1>1 DEF X, Tokens
  <2>2. Optional([x \in {X("VALUE"), X("VALUE.ARRAY")} |-> <<Call("qualifierData")>>]) \in Steps1
    BY <1>2, <2>1, Loops
  <2> QED
    BY <1>1, <2>2, Bodies, Programs DEF qualifier
<1>7. qualifierData \in Program
  <2>1. On("VALUE", <<Call("value")>>) \in AltsOf(Steps1) /\ OnArray \in AltsOf(Steps1)
    BY <1>1, <1>2, Branches DEF OnArray
  <2> QED
    BY <2>1, Branches, Programs DEF qualifierData, ValueOr
<1>8. property \in Program /\ propertyArray \in Program /\ propertyReference \in Program
  <2>1. /\ Optional(On("VALUE", <<Call("value")>>)) \in Steps1
        /\ Optional(OnArray) \in Steps1 /\ Optional(OnReference) \in Steps1
    BY <1>1, <1>2, Loops DEF OnArray, OnReference
  <2> QED
    BY <1>1, <2>1, ClassFunctions, Bodies, Programs DEF property, propertyArray, propertyReference
<1> QED
  BY <1>3, <1>4, <1>5, <1>6, <1>7, <1>8

LEMMA ValueFunctions ==
  /\ instanceName \in Program /\ keyBinding \in Program /\ keyBindingContent \in Program
  /\ keyValue \in Program /\ value \in Program /\ valueData \in Program
  /\ valueArray \in Program /\ valueRefArray \in Program
  /\ valueReference \in Program /\ valueReferenceData \in Program
<1>1. {"INSTANCENAME", "KEYBINDING", "KEYVALUE", "VALUE", "![CDATA[", "VALUE.ARRAY",
       "VALUE.REFARRAY", "VALUE.REFERENCE", "INSTANCEPATH", "LOCALINSTANCEPATH"} \subseteq Tags
  BY DEF Tags
<1>2. {"keyBinding", "keyBindingContent", "keyValue", "valueReference", "valueData", "instance",
       "value", "valueReferenceData", "instancePath", "localInstancePath", "instanceName"}
         \subseteq FunctionNames
  BY DEF FunctionNames
<1>3. instanceName \in Program /\ keyBinding \in Program /\ keyValue \in Program /\ value \in Program
  BY <1>1, <1>2, CallsWithin DEF instanceName, keyBinding, keyValue, value
<1>4. valueArray \in Program /\ valueRefArray \in Program /\ valueReference \in Program
  BY <1>1, <1>2, CallsWithin DEF valueArray, valueRefArray, valueReference
<1>5. keyBindingContent \in Program
  <2>1. On("KEYVALUE", <<Call("keyValue")>>) \in AltsOf(Steps1) /\ OnReference \in AltsOf(Steps1)
    BY <1>1, <1>2, Branches DEF OnReference
  <2> QED
    BY <2>1, Branches, Programs DEF keyBindingContent
<1>6. valueData \in Program
  <2>1. [x \in {Z("VALUE")} |-> <<PushBack>>] \in AltsOf(Steps1)
    <3>1. {Z("VALUE")} \in SUBSET Tokens
      BY <1>1 DEF Z, Tokens
    <3> QED
      BY <3>1, InnerSteps, Bodies, Alternatives
  <2>2. Within("![CDATA[", <<Call("instance")>>) \in AltsOf(Steps1)
    BY <1>1, <1>2, InnerSteps, Bodies, Branches
  <2> QED
    BY <2>1, <2>2, Branches, Programs DEF valueData
<1>7. valueReferenceData \in Program
  <2>1. /\ On("INSTANCEPATH", <<Call("instancePath")>>) \in AltsOf(Steps1)
        /\ On("LOCALINSTANCEPATH", <<Call("localInstancePath")>>) \in AltsOf(Steps1)
        /\ On("INSTANCENAME", <<Call("instanceName")>>) \in AltsOf(Steps1)
    BY <1>1, <1>2, Branches
  <2> QED
    BY <2>1, Branches, Programs DEF valueReferenceData
<1> QED
  BY <1>3, <1>4, <1>5, <1>6, <1>7

(* Every function that a step can call is one of the grammar, and all that *)
(* a function does are steps.                                              *)
LEMMA GrammarOfSteps == \A f \in FunctionNames : Grammar[f] \in Program
BY MessageFunctions, MethodFunctions, IReturnFunctions, ClassFunctions, PathFunctions,
   InstanceFunctions, ValueFunctions DEF FunctionNames, Grammar

-----------------------------------------------------------------------------
(* The buffer.                                                             *)

LEMMA LeastOf ==
  ASSUME NEW T \in SUBSET Nat, T # {}
  PROVE  \E i \in T : \A j \in T : i <= j
<1>1. PICK m \in T : \A k \in T : <<k, m>> \notin OpToRel(<, Nat)
  BY WFMin, NatLessThanWellFounded, Zenon
<1>2. \A k \in T : ~(k < m)
  BY <1>1, Zenon DEF OpToRel
<1> QED
  BY <1>2

(* The lexer stops within the text or directly behind it.                  *)
BufferOf(b, t) ==
  /\ DOMAIN b = {"cur", "at", "etag", "nulledChar"}
  /\ b.cur \in 1..Len(text[t]) + 1
  /\ b.at \in Nat

LEMMA CommentsEnd ==
  ASSUME NEW t \in Threads, Len(text[t]) \in Nat, BufferOf(xmb[t], t)
  PROVE  SkipComments(t) \in 1..Len(text[t]) + 1
<1> DEFINE stops == {i \in xmb[t].cur..Len(text[t]) + 1 : PlaceAt(t, i).kind # "comment"}
<1>1. Len(text[t]) + 1 \in stops
  <2>1. PlaceAt(t, Len(text[t]) + 1).kind = "nothing"
    BY DEF PlaceAt
  <2> QED
    BY <2>1 DEF BufferOf
<1>2. stops \in SUBSET Nat
  BY DEF BufferOf
<1>3. PICK i \in stops : \A j \in stops : i <= j
  <2> HIDE DEF stops
  <2> QED BY <1>1, <1>2, LeastOf
<1>4. (CHOOSE k \in stops : \A j \in stops : k <= j) \in stops
  BY <1>3
<1>5. stops \subseteq 1..Len(text[t]) + 1
  BY DEF BufferOf
<1>6. (CHOOSE k \in stops : \A j \in stops : k <= j) \in 1..Len(text[t]) + 1
  BY <1>4, <1>5
<1> QED
  BY <1>6 DEF SkipComments, BufferOf

LEMMA LexedBuffer ==
  ASSUME NEW t \in Threads, Len(text[t]) \in Nat, BufferOf(xmb[t], t)
  PROVE  BufferOf(localLex(t).xmb, t)
<1> DEFINE b == xmb[t]
           n == SkipComments(t)
           after == [b EXCEPT !.cur = n + 1, !.at = n, !.nulledChar = FALSE]
<1>1. n \in 1..Len(text[t]) + 1
  BY CommentsEnd
<1>2. \A token, buffer : Lexed(token, buffer).xmb = buffer
  BY DEF Lexed
<1> HIDE DEF n
<1>3. ASSUME PlaceAt(t, n).kind # "nothing"
      PROVE  BufferOf(after, t)
  <2>1. n <= Len(text[t])
    BY <1>1, <1>3 DEF PlaceAt
  <2> QED
    BY <1>1, <2>1 DEF BufferOf
<1>4. ASSUME PlaceAt(t, n).kind = "start", ReadsContent(t, n)
      PROVE  BufferOf([after EXCEPT !.cur = n + 2, !.nulledChar = TRUE], t)
  <2>1. n + 1 <= Len(text[t])
    BY <1>1, <1>4 DEF ReadsContent, PlaceAt
  <2> QED
    BY <1>1, <2>1 DEF BufferOf
<1>5. ASSUME NEW tok, PlaceAt(t, n).kind # "nothing"
      PROVE  BufferOf([after EXCEPT !.etag = tok], t)
  BY <1>3, <1>5 DEF BufferOf
<1>6. BufferOf(b, t) /\ BufferOf([b EXCEPT !.etag = NoToken], t)
  BY DEF BufferOf
<1> HIDE DEF after
<1>7. BufferOf(sfccLex(t).xmb, t)
  <2>1. CASE PlaceAt(t, b.cur).kind \in {"nothing", "text"}
    <3>1. sfccLex(t) = Lexed(NoToken, b)
      BY <2>1 DEF sfccLex
    <3> QED
      BY <1>2, <1>6, <3>1
  <2>2. CASE PlaceAt(t, b.cur).kind \notin {"nothing", "text"} /\ b.etag # NoToken
    <3>1. sfccLex(t) = Lexed(b.etag, [b EXCEPT !.etag = NoToken])
      BY <2>2 DEF sfccLex
    <3> QED
      BY <1>2, <1>6, <3>1
  <2>3. CASE PlaceAt(t, b.cur).kind \notin {"nothing", "text"} /\ b.etag = NoToken
    <3> DEFINE place == PlaceAt(t, n)
    <3>1. sfccLex(t) =
            CASE place.kind = "start" /\ ReadsContent(t, n) ->
                   Lexed(X(place.tag), [after EXCEPT !.cur = n + 2, !.nulledChar = TRUE])
              [] place.kind = "start" /\ ~ ReadsContent(t, n) -> Lexed(X(place.tag), after)
              [] place.kind = "empty" ->
                   Lexed(X(place.tag), [after EXCEPT !.etag = EmptyTagEnd(place.tag)])
              [] place.kind = "end" -> Lexed(Z(place.tag), after)
              [] place.kind = "badAttr" -> Lexed(Throw, after)
              [] OTHER -> Lexed(NoToken, b)
      BY <2>3 DEF sfccLex, n, after
    <3> HIDE DEF place
    <3>2. CASE place.kind = "start" /\ ReadsContent(t, n)
      BY <1>2, <1>4, <3>1, <3>2 DEF place
    <3>3. CASE place.kind = "start" /\ ~ ReadsContent(t, n)
      BY <1>2, <1>3, <3>1, <3>3 DEF place
    <3>4. CASE place.kind = "empty"
      <4>1. sfccLex(t).xmb = [after EXCEPT !.etag = EmptyTagEnd(place.tag)]
        BY <1>2, <3>1, <3>4
      <4> QED
        BY <1>5, <3>4, <4>1 DEF place
    <3>5. CASE place.kind = "end"
      BY <1>2, <1>3, <3>1, <3>5 DEF place
    <3>6. CASE place.kind = "badAttr"
      BY <1>2, <1>3, <3>1, <3>6 DEF place
    <3>7. CASE place.kind \notin {"start", "empty", "end", "badAttr"}
      <4>1. sfccLex(t) = Lexed(NoToken, b)
        BY <3>1, <3>7
      <4> QED
        BY <1>2, <1>6, <4>1
    <3> QED
      BY <3>2, <3>3, <3>4, <3>5, <3>6, <3>7
  <2> QED
    BY <2>1, <2>2, <2>3
<1> QED
  BY <1>2, <1>6, <1>7 DEF localLex

-----------------------------------------------------------------------------
(* What the functions of a thread still have to do.                        *)

SameStep(s, u) == \A field \in {"op", "alts", "back", "again", "must", "arg"} : s[field] = u[field]

LEMMA BegunSteps ==
  ASSUME NEW S, NEW steps \in Seq(StepsOver(S)), NEW place \in Nat
  PROVE  /\ Begun(steps, place) \in Seq(StepsOver(S))
         /\ Len(Begun(steps, place)) = Len(steps)
         /\ \A i \in 1..Len(steps) : SameStep(Begun(steps, place)[i], steps[i])
<1>1. ASSUME NEW s \in StepsOver(S)
      PROVE  [s EXCEPT !.at = place] \in StepsOver(S) /\ SameStep([s EXCEPT !.at = place], s)
  BY DEF StepsOver, SameStep
<1>2. Len(steps) \in Nat /\ \A i \in 1..Len(steps) : steps[i] \in StepsOver(S)
  BY LenProperties
<1> DEFINE new == [i \in 1..Len(steps) |-> [steps[i] EXCEPT !.at = place]]
<1>3. new \in [1..Len(steps) -> StepsOver(S)]
  BY <1>1, <1>2
<1>4. \A i \in 1..Len(steps) : SameStep(new[i], steps[i])
  BY <1>1, <1>2
<1> HIDE DEF new
<1>5. new \in Seq(StepsOver(S)) /\ Len(new) = Len(steps)
  BY <1>2, <1>3
<1> QED
  BY <1>4, <1>5 DEF Begun, new

LEMMA TailKeepsLast ==
  ASSUME NEW S, NEW q \in Seq(S), Len(q) > 1, NEW first \in Seq(S)
  PROVE  LET new == first \o Tail(q)
         IN /\ new # << >> /\ new[Len(new)] = q[Len(q)]
            /\ Tail(q) # << >> /\ Tail(q)[Len(Tail(q))] = q[Len(q)]
<1>1. /\ Tail(q) \in Seq(S) /\ Len(Tail(q)) = Len(q) - 1 /\ Len(q) \in Nat
      /\ \A i \in 1..Len(Tail(q)) : Tail(q)[i] = q[i + 1]
  BY HeadTailProperties, LenProperties
<1> DEFINE rest == Tail(q)
           new == first \o rest
<1> HIDE DEF rest
<1>2. /\ new \in Seq(S) /\ Len(new) = Len(first) + Len(rest) /\ Len(first) \in Nat
      /\ \A i \in 1..Len(first) + Len(rest) :
           new[i] = IF i <= Len(first) THEN first[i] ELSE rest[i - Len(first)]
  BY <1>1, ConcatProperties, LenProperties DEF rest
<1> HIDE DEF new
<1>3. Len(rest) \in 1..Len(rest) /\ rest[Len(rest)] = q[Len(q)]
  BY <1>1 DEF rest
<1>4. Len(new) \in 1..Len(new) /\ new[Len(new)] = rest[Len(rest)]
  BY <1>1, <1>2, <1>3 DEF rest
<1>5. rest # << >> /\ new # << >>
  BY <1>3, <1>4, EmptySeq
<1> QED
  BY <1>3, <1>4, <1>5 DEF new, rest

LEMMA OnlyStep ==
  ASSUME NEW S, NEW q \in Seq(S), q # << >>, ~(Len(q) > 1)
  PROVE  Head(q) = q[Len(q)] /\ Tail(q) = << >>
<1>1. Len(q) = 1
  <2>1. Len(q) \in Nat \ {0}
    BY EmptySeq
  <2> QED
    BY <2>1
<1>2. Tail(q) \in Seq(S) /\ Len(Tail(q)) = 0
  BY <1>1, HeadTailProperties
<1>3. Tail(q) = << >>
  BY <1>2, EmptySeq
<1> QED
  BY <1>1, <1>3

(* The last thing that a scan does: start calls cim, and cim reads its end *)
(* tag.                                                                    *)
OnCIM == Within("CIM", <<Call("message")>>)
LastSteps == {Call("start"), Call("cim"), Take(OnCIM), Expect(Z("CIM"))}
Ends(s) == \E u \in LastSteps : SameStep(s, u)

Ending(q, pending) == IF q = << >> THEN ~ pending ELSE Ends(q[Len(q)])

ScanInv ==
  /\ proc \in {"running", "parseError", "Throw"}
  /\ dontLex \in BOOLEAN
  /\ text \in [Threads -> Texts \cup {<< >>}]
  /\ todo \in [Threads -> Program]
  /\ \A t \in Threads : pc[t] = "parse" => BufferOf(xmb[t], t)
  /\ Running => \A t \in Threads : pc[t] = "parse" => Ending(todo[t], dontLex)
  /\ NothingPending

LEMMA InitScanInv == Init => ScanInv
<1> SUFFICES ASSUME Init
             PROVE  ScanInv
  OBVIOUS
<1>1. << >> \in Program
  BY DEF Program
<1> QED
  BY <1>1 DEF Init, ScanInv, NothingPending

(* A step of t that leaves the mutex, the texts and the pcs.               *)
LEMMA ScanStep ==
  ASSUME HolderParses, ScanInv, NEW t \in Threads, scan_mutex = t,
         UNCHANGED <<scan_mutex, pc, text>>, proc' \in {"running", "parseError", "Throw"},
         dontLex' \in BOOLEAN,
         NEW q \in Program, todo' = [todo EXCEPT ![t] = q],
         \A u \in Threads \ {t} : xmb'[u] = xmb[u], BufferOf(xmb[t], t)',
         Running' => Ending(q, dontLex')
  PROVE  ScanInv'
<1>1. \A u \in Threads : pc[u] = "parse" <=> u = t
  BY DEF HolderParses
<1>2. todo' \in [Threads -> Program] /\ todo'[t] = q
  BY DEF ScanInv
<1>3. scan_mutex' # NoThread
  BY ScanAssumption
<1> QED
  BY <1>1, <1>2, <1>3 DEF ScanInv, NothingPending

LEMMA TextsAreSequences ==
  ASSUME ScanInv, NEW t \in Threads
  PROVE  Len(text[t]) \in Nat
<1>1. << >> \in Seq(Places)
  OBVIOUS
<1>2. text[t] \in Seq(Places)
  BY <1>1, ScanAssumption DEF ScanInv
<1> QED
  BY <1>2, LenProperties

(* The step that a thread is at.                                           *)
LEMMA TheStep ==
  ASSUME ScanInv, NEW t \in Threads, todo[t] # << >>
  PROVE  /\ todo[t] \in Program /\ Head(todo[t]) \in Steps2 /\ Tail(todo[t]) \in Program
         /\ Head(todo[t]).back \in BOOLEAN /\ Head(todo[t]).at \in Nat
         /\ \A tok \in DOMAIN Head(todo[t]).alts :
              Head(todo[t]).alts[tok] \in Seq(Steps1)
         /\ Head(todo[t]).op = "call" => Head(todo[t]).arg \in FunctionNames
<1>1. todo[t] \in Seq(Steps2)
  BY DEF ScanInv, Program
<1>2. Head(todo[t]) \in Steps2 /\ Tail(todo[t]) \in Seq(Steps2)
  BY <1>1, HeadTailProperties
<1> DEFINE s == Head(todo[t])
<1> HIDE DEF s
<1>3. /\ s.back \in BOOLEAN /\ s.at \in Nat /\ s.alts \in AltsOf(Steps1)
      /\ s.op = "call" => s.arg \in FunctionNames
  BY <1>2 DEF Steps2, StepsOver, s
<1>4. \A tok \in DOMAIN s.alts : s.alts[tok] \in Seq(Steps1)
  BY <1>3 DEF AltsOf
<1> QED
  BY <1>1, <1>2, <1>3, <1>4 DEF Program, s

(* A step that is not the last: what is put before the others, if it is    *)
(* anything, leaves the last one where it is.                              *)
LEMMA NotLast ==
  ASSUME NEW q \in Program, Len(q) > 1, NEW d \in BOOLEAN, Ending(q, d),
         NEW first \in Program, NEW e \in BOOLEAN
  PROVE  Ending(first \o Tail(q), e) /\ Ending(Tail(q), e)
<1>1. q # << >>
  BY EmptySeq
<1> QED
  BY <1>1, TailKeepsLast DEF Ending, Program

LEMMA LastIs ==
  ASSUME NEW q \in Program, q # << >>, ~(Len(q) > 1), NEW d, Ending(q, d)
  PROVE  Ends(Head(q)) /\ Tail(q) = << >>
BY OnlyStep DEF Ending, Program

LEMMA OneMore ==
  ASSUME NEW steps \in Program, steps # << >>, Ends(steps[Len(steps)]), NEW place \in Nat,
         NEW d \in BOOLEAN
  PROVE  Begun(steps, place) \in Program /\ Ending(Begun(steps, place), d)
<1>1. /\ Begun(steps, place) \in Program
      /\ Len(Begun(steps, place)) = Len(steps)
      /\ \A i \in 1..Len(steps) : SameStep(Begun(steps, place)[i], steps[i])
  BY BegunSteps DEF Program, Steps2
<1>2. Len(steps) \in Nat \ {0}
  BY EmptySeq DEF Program
<1>3. Begun(steps, place) # << >>
  BY <1>1, <1>2, EmptySeq
<1>4. SameStep(Begun(steps, place)[Len(steps)], steps[Len(steps)])
  BY <1>1, <1>2
<1>5. Ends(Begun(steps, place)[Len(steps)])
  BY <1>4 DEF Ends, SameStep
<1> QED
  BY <1>1, <1>3, <1>5 DEF Ending

\* No two of the last steps are of one kind, and each is followed by another.
LEMMA LastStepKinds ==
  ASSUME NEW s, Ends(s)
  PROVE  /\ s.op \in {"call", "read"}
         /\ s.op = "call" => /\ Grammar[s.arg] # << >>
                              /\ Ends(Grammar[s.arg][Len(Grammar[s.arg])])
         /\ s.op = "read" => /\ s.must = TRUE /\ s.again = FALSE /\ s.back = FALSE
                              /\ \A tok \in DOMAIN s.alts :
                                   s.alts[tok] = << >> \/ Ends(s.alts[tok][Len(s.alts[tok])])
<1>1. \A u \in LastSteps : Ends(u)
  BY DEF Ends, SameStep
<1>2. PICK u \in LastSteps : SameStep(s, u)
  BY DEF Ends
<1>3. CASE u = Call("start")
  <2>1. s.op = "call" /\ s.arg = "start"
    BY <1>2, <1>3 DEF SameStep, Call, Step
  <2>2. Grammar["start"] = <<Expect(X("?xml")), Expect(Z("?xml")), Call("cim")>>
    BY DEF Grammar, start
  <2>3. Ends(Call("cim"))
    BY <1>1 DEF LastSteps
  <2> QED
    BY <2>1, <2>2, <2>3
<1>4. CASE u = Call("cim")
  <2>1. s.op = "call" /\ s.arg = "cim"
    BY <1>2, <1>4 DEF SameStep, Call, Step
  <2>2. Grammar["cim"] = <<Take(OnCIM)>>
    BY DEF Grammar, cim, Element, OnCIM
  <2>3. Ends(Take(OnCIM))
    BY <1>1 DEF LastSteps
  <2> QED
    BY <2>1, <2>2, <2>3
<1>5. CASE u = Take(OnCIM)
  <2>1. /\ s.op = "read" /\ s.must = TRUE /\ s.again = FALSE /\ s.back = FALSE
        /\ s.alts = OnCIM
    BY <1>2, <1>5 DEF SameStep, Take, Step
  <2>2. \A tok \in DOMAIN OnCIM : OnCIM[tok] = Append(<<Call("message")>>, Expect(Z("CIM")))
    BY DEF OnCIM, Within, On
  <2>3. \A a, b : LET steps == Append(<<a>>, b) IN steps[Len(steps)] = b
    <3> SUFFICES ASSUME NEW a, NEW b
                 PROVE  LET steps == Append(<<a>>, b) IN steps[Len(steps)] = b
      OBVIOUS
    <3>1. <<a>> \in Seq({a, b}) /\ Len(<<a>>) = 1
      OBVIOUS
    <3>2. b \in {a, b}
      OBVIOUS
    <3> QED
      BY <3>1, <3>2, AppendProperties
  <2>4. Ends(Expect(Z("CIM")))
    BY <1>1 DEF LastSteps
  <2> QED
    BY <2>1, <2>2, <2>3, <2>4
<1>6. CASE u = Expect(Z("CIM"))
  <2>1. /\ s.op = "read" /\ s.must = TRUE /\ s.again = FALSE /\ s.back = FALSE
        /\ \A tok \in DOMAIN s.alts : s.alts[tok] = << >>
    BY <1>2, <1>6 DEF SameStep, Expect, Take, Step
  <2> QED
    BY <2>1
<1> QED
  BY <1>2, <1>3, <1>4, <1>5, <1>6 DEF LastSteps

LEMMA ReadKeepsInv ==
  ASSUME HolderParses, ScanInv, NEW t \in Threads, Read(t)
  PROVE  ScanInv'
<1> DEFINE q == todo[t]
           s == Head(todo[t])
           rest == Tail(todo[t])
           found == localLex(t)
           first == Begun(s.alts[found.tok], found.xmb.at) \o (IF s.again THEN <<s>> ELSE << >>)
<1>1. /\ Running /\ pc[t] = "parse" /\ q # << >> /\ s.op = "read"
      /\ UNCHANGED <<scan_mutex, pc, text>>
      /\ xmb' = [xmb EXCEPT ![t] = found.xmb]
      /\ dontLex' = s.back
      /\ \/ /\ found.tok \in DOMAIN s.alts
            /\ todo' = [todo EXCEPT ![t] = first \o rest] /\ UNCHANGED proc
         \/ /\ ~ s.must
            /\ todo' = [todo EXCEPT ![t] = rest] /\ UNCHANGED proc
         \/ proc' = "Throw" /\ UNCHANGED todo
         \/ proc' = "parseError" /\ UNCHANGED todo
  BY DEF Read, Next_step
<1>2. /\ q \in Program /\ s \in Steps2 /\ rest \in Program /\ s.back \in BOOLEAN
      /\ \A tok \in DOMAIN s.alts : s.alts[tok] \in Seq(Steps1)
  BY <1>1, TheStep
<1>3. scan_mutex = t /\ DOMAIN xmb = Threads
  BY <1>1 DEF HolderParses
<1>4. BufferOf(xmb[t], t)' /\ found.xmb.at \in Nat
  <2>1. BufferOf(found.xmb, t)
    BY <1>1, TextsAreSequences, LexedBuffer DEF ScanInv
  <2> QED
    BY <1>1, <1>3, <2>1 DEF BufferOf
<1>5. \A u \in Threads \ {t} : xmb'[u] = xmb[u]
  BY <1>1, <1>3
<1>6. Ending(q, dontLex) /\ dontLex \in BOOLEAN /\ proc \in {"running", "parseError", "Throw"}
  BY <1>1 DEF ScanInv
<1> HIDE DEF s, rest, found, first
<1>7. ASSUME found.tok \in DOMAIN s.alts
      PROVE  first \in Program
  <2>1. s.alts[found.tok] \in Seq(StepsOver(Steps0))
    BY <1>2, <1>7 DEF Steps1
  <2>2. Begun(s.alts[found.tok], found.xmb.at) \in Seq(Steps1)
    BY <1>4, <2>1, BegunSteps DEF Steps1
  <2>3. Begun(s.alts[found.tok], found.xmb.at) \in Program
    BY <2>2, StepsGrow, SeqMonotonic DEF Program
  <2>4. (IF s.again THEN <<s>> ELSE << >>) \in Program
    BY <1>2, OneStep, EmptySeq DEF Program
  <2> QED
    BY <2>3, <2>4, ConcatProperties DEF Program, first
<1>8. CASE found.tok \in DOMAIN s.alts /\ todo' = [todo EXCEPT ![t] = first \o rest] /\ UNCHANGED proc
  <2>1. first \o rest \in Program
    BY <1>2, <1>7, <1>8, ConcatProperties DEF Program
  <2>2. Ending(first \o rest, dontLex')
    <3>1. CASE Len(q) > 1
      BY <1>1, <1>2, <1>6, <1>7, <1>8, <3>1, NotLast DEF rest
    <3>2. CASE ~(Len(q) > 1)
      <4>1. Ends(s) /\ rest = << >>
        BY <1>1, <1>2, <1>6, <3>2, LastIs DEF s, rest
      <4>2. /\ s.again = FALSE /\ s.back = FALSE
            /\ s.alts[found.tok] = << >> \/ Ends(s.alts[found.tok][Len(s.alts[found.tok])])
        BY <1>1, <1>8, <4>1, LastStepKinds
      <4> DEFINE new == Begun(s.alts[found.tok], found.xmb.at)
      <4>3. s.alts[found.tok] \in Program
        BY <1>2, <1>8, StepsGrow, SeqMonotonic DEF Program
      <4>4. new \in Program
        BY <1>4, <4>3, BegunSteps DEF Program, Steps2
      <4>5. first \o rest = new
        BY <4>1, <4>2, <4>4, ConcatEmptySeq DEF first, Program
      <4>6. CASE s.alts[found.tok] = << >>
        <5>1. new = << >>
          BY <4>6 DEF Begun
        <5> QED
          BY <1>1, <4>2, <4>5, <5>1 DEF Ending
      <4>7. CASE s.alts[found.tok] # << >>
        <5>1. Ending(new, dontLex')
          BY <1>1, <1>2, <1>4, <4>2, <4>3, <4>7, OneMore
        <5> QED
          BY <4>5, <5>1
      <4> QED
        BY <4>6, <4>7
    <3> QED
      BY <3>1, <3>2
  <2> QED
    BY <1>1, <1>2, <1>3, <1>4, <1>5, <1>6, <1>8, <2>1, <2>2, ScanStep
<1>9. CASE ~ s.must /\ todo' = [todo EXCEPT ![t] = rest] /\ UNCHANGED proc
  <2>1. Len(q) > 1
    BY <1>1, <1>2, <1>6, <1>9, LastIs, LastStepKinds DEF s
  <2>2. Ending(rest, dontLex')
    BY <1>1, <1>2, <1>6, <2>1, NotLast DEF rest
  <2> QED
    BY <1>1, <1>2, <1>3, <1>4, <1>5, <1>6, <1>9, <2>2, ScanStep
<1>10. CASE proc' \in {"Throw", "parseError"} /\ UNCHANGED todo
  <2>1. todo' = [todo EXCEPT ![t] = q]
    BY <1>10 DEF ScanInv
  <2>2. ~ Running'
    BY <1>10 DEF Running
  <2> QED
    BY <1>1, <1>2, <1>3, <1>4, <1>5, <1>10, <2>1, <2>2, ScanStep
<1> QED
  BY <1>1, <1>8, <1>9, <1>10

LEMMA CallKeepsInv ==
  ASSUME HolderParses, ScanInv, NEW t \in Threads, CallFunction(t)
  PROVE  ScanInv'
<1> DEFINE q == todo[t]
           s == Head(todo[t])
           rest == Tail(todo[t])
           body == Begun(Grammar[s.arg], s.at)
<1>1. /\ Running /\ pc[t] = "parse" /\ q # << >> /\ s.op = "call"
      /\ todo' = [todo EXCEPT ![t] = body \o rest]
      /\ UNCHANGED <<proc, scan_mutex, dontLex, pc, text, xmb>>
  BY DEF CallFunction, Next_step
<1>2. /\ q \in Program /\ rest \in Program /\ s.at \in Nat /\ s.arg \in FunctionNames
  BY <1>1, TheStep
<1>3. /\ scan_mutex = t /\ BufferOf(xmb[t], t)' /\ Ending(q, dontLex) /\ dontLex \in BOOLEAN
      /\ proc \in {"running", "parseError", "Throw"}
  BY <1>1 DEF HolderParses, ScanInv, BufferOf
<1> HIDE DEF s, rest, body
<1>4. Grammar[s.arg] \in Program
  BY <1>2, GrammarOfSteps
<1>5. body \in Program
  BY <1>2, <1>4, BegunSteps DEF body, Program, Steps2
<1>6. body \o rest \in Program
  BY <1>2, <1>5, ConcatProperties DEF Program
<1>7. Ending(body \o rest, dontLex)
  <2>1. CASE Len(q) > 1
    BY <1>2, <1>3, <1>5, <2>1, NotLast DEF rest
  <2>2. CASE ~(Len(q) > 1)
    <3>1. Ends(s) /\ rest = << >>
      BY <1>1, <1>2, <1>3, <2>2, LastIs DEF s, rest
    <3>2. Grammar[s.arg] # << >> /\ Ends(Grammar[s.arg][Len(Grammar[s.arg])])
      BY <1>1, <3>1, LastStepKinds
    <3>3. Ending(body, dontLex)
      BY <1>2, <1>3, <1>4, <3>2, OneMore DEF body
    <3>4. body \o rest = body
      BY <1>5, <3>1, ConcatEmptySeq DEF Program
    <3> QED
      BY <3>3, <3>4
  <2> QED
    BY <2>1, <2>2
<1> QED
  BY <1>1, <1>3, <1>6, <1>7, ScanStep

(* The steps that only move on: a token is pushed back, or a result stored.*)
LEMMA MovesOnKeepsInv ==
  ASSUME HolderParses, ScanInv, NEW t \in Threads,
         SetDontLex(t) \/ Store(t) \/ setReturnArgs(t)
  PROVE  ScanInv'
<1> DEFINE q == todo[t]
           s == Head(todo[t])
           rest == Tail(todo[t])
<1>1. /\ Running /\ pc[t] = "parse" /\ q # << >> /\ s.op \in {"pushBack", "put", "setReturnArgs"}
      /\ todo' = [todo EXCEPT ![t] = rest]
      /\ dontLex' = TRUE \/ dontLex' = dontLex
      /\ UNCHANGED <<proc, scan_mutex, pc, text, xmb>>
  BY DEF SetDontLex, Store, setReturnArgs, Next_step
<1>2. q \in Program /\ rest \in Program
  BY <1>1, TheStep
<1>3. /\ scan_mutex = t /\ BufferOf(xmb[t], t)' /\ Ending(q, dontLex) /\ dontLex \in BOOLEAN
      /\ dontLex' \in BOOLEAN /\ proc \in {"running", "parseError", "Throw"}
  BY <1>1 DEF HolderParses, ScanInv, BufferOf
<1> HIDE DEF s, rest
<1>4. Len(q) > 1
  BY <1>1, <1>2, <1>3, LastIs, LastStepKinds DEF s
<1>5. Ending(rest, dontLex')
  BY <1>2, <1>3, <1>4, NotLast DEF rest
<1> QED
  BY <1>1, <1>2, <1>3, <1>5, ScanStep

LEMMA CallScanKeepsInv ==
  ASSUME HolderParses, ScanInv, NEW t \in Threads, NEW txt \in Texts,
         Call_scanCimXmlResponse(t, txt)
  PROVE  ScanInv'
<1>1. /\ pc[t] = "idle" /\ pc' = [pc EXCEPT ![t] = "lock"] /\ text' = [text EXCEPT ![t] = txt]
      /\ UNCHANGED <<proc, scan_mutex, dontLex, xmb, todo>>
  BY DEF Call_scanCimXmlResponse
<1>2. text' \in [Threads -> Texts \cup {<< >>}]
  BY <1>1 DEF ScanInv
<1>3. \A u \in Threads : pc'[u] = "parse" => pc[u] = "parse" /\ text'[u] = text[u]
  BY <1>1 DEF HolderParses, ScanInv
<1> QED
  BY <1>1, <1>2, <1>3 DEF ScanInv, BufferOf, Running, NothingPending

LEMMA LockKeepsInv ==
  ASSUME HolderParses, ScanInv, NEW t \in Threads, Lock(t)
  PROVE  ScanInv'
<1>1. /\ Running /\ scan_mutex = NoThread /\ scan_mutex' = t
      /\ pc' = [pc EXCEPT ![t] = "parse"] /\ xmb' = [xmb EXCEPT ![t] = NewXmb]
      /\ todo' = [todo EXCEPT ![t] = <<Call("start")>>]
      /\ UNCHANGED <<proc, dontLex, text>>
  BY DEF Lock
<1>2. \A u \in Threads : pc'[u] = "parse" <=> u = t
  BY <1>1, ScanAssumption DEF HolderParses
<1>3. <<Call("start")>> \in Program
  <2>1. "start" \in FunctionNames
    BY DEF FunctionNames
  <2>2. Call("start") \in Steps2
    BY <2>1, InnerSteps, StepsGrow
  <2> QED
    BY <2>2, OneStep DEF Program
<1>4. Ending(<<Call("start")>>, dontLex)
  <2>1. Ends(Call("start"))
    BY DEF Ends, SameStep, LastSteps
  <2> QED
    BY <2>1 DEF Ending
<1>5. BufferOf(xmb[t], t)'
  <2>1. Len(text[t]) \in Nat
    BY TextsAreSequences
  <2> QED
    BY <1>1, <2>1 DEF HolderParses, BufferOf, NewXmb
<1>6. todo' \in [Threads -> Program] /\ todo'[t] = <<Call("start")>>
  BY <1>1, <1>3 DEF ScanInv
<1> QED
  BY <1>1, <1>2, <1>4, <1>5, <1>6, ScanAssumption DEF ScanInv, NothingPending

LEMMA UnlockKeepsInv ==
  ASSUME HolderParses, ScanInv, NEW t \in Threads, Unlock(t)
  PROVE  ScanInv'
<1>1. /\ Running /\ pc[t] = "parse" /\ todo[t] = << >> /\ pc' = [pc EXCEPT ![t] = "done"]
      /\ UNCHANGED <<proc, dontLex, text, xmb, todo>>
  BY DEF Unlock
<1>2. ~ dontLex
  BY <1>1 DEF ScanInv, Ending
<1>3. \A u \in Threads : pc'[u] # "parse"
  BY <1>1 DEF HolderParses
<1> QED
  BY <1>1, <1>2, <1>3 DEF ScanInv, NothingPending

LEMMA ScanInvStep == HolderParses /\ ScanInv /\ [Next]_vars => ScanInv'
<1> SUFFICES ASSUME HolderParses, ScanInv, [Next]_vars
             PROVE  ScanInv'
  OBVIOUS
<1>1. ASSUME NEW t \in Threads, NEW txt \in Texts, Call_scanCimXmlResponse(t, txt)
      PROVE  ScanInv'
  BY <1>1, CallScanKeepsInv
<1>2. ASSUME NEW t \in Threads, Lock(t)
      PROVE  ScanInv'
  BY <1>2, LockKeepsInv
<1>3. ASSUME NEW t \in Threads, Read(t)
      PROVE  ScanInv'
  BY <1>3, ReadKeepsInv
<1>4. ASSUME NEW t \in Threads, CallFunction(t)
      PROVE  ScanInv'
  BY <1>4, CallKeepsInv
<1>5. ASSUME NEW t \in Threads, SetDontLex(t) \/ Store(t) \/ setReturnArgs(t)
      PROVE  ScanInv'
  BY <1>5, MovesOnKeepsInv
<1>6. ASSUME NEW t \in Threads, Unlock(t)
      PROVE  ScanInv'
  BY <1>6, UnlockKeepsInv
<1>7. CASE UNCHANGED vars
  BY <1>7 DEF vars, ScanInv, NothingPending, Running, BufferOf
<1> QED
  BY <1>1, <1>2, <1>3, <1>4, <1>5, <1>6, <1>7 DEF Next, Scan

-----------------------------------------------------------------------------
(* The theorems.                                                           *)

(* What a thread owes to the grammar, and where it is in its text.         *)
OwesSteps ==
  /\ todo \in [Threads -> Program]
  /\ \A t \in Threads : pc[t] = "parse" => xmb[t].cur \in 1..Len(text[t]) + 1

(* Whatever the threads read and in whatever order, the process runs or    *)
(* has ended in parseError or Throw, and a thread is between the lock and  *)
(* the unlock of scanCimXmlResponse exactly while it holds scan_mutex.     *)
(* What it has left to do there are steps of the parsing functions of      *)
(* grammar.c, with their alternatives at every level, and the lexer never  *)
(* moves past the end of its text (cimXmlParser.c:1270-1311).              *)
THEOREM ScanTypes == Spec => [](TypeOK /\ OwesSteps)
<1>1. Init => HolderParses /\ ScanInv
  BY HolderInit, InitScanInv
<1>2. HolderParses /\ ScanInv /\ [Next]_vars => (HolderParses /\ ScanInv)'
  BY HolderStep, ScanInvStep
<1>3. HolderParses /\ ScanInv => TypeOK /\ OwesSteps
  BY DEF HolderParses, ScanInv, TypeOK, OwesSteps, BufferOf
<1> QED
  BY <1>1, <1>2, <1>3, PTL DEF Spec

(* Whenever scan_mutex is free no token is pushed back: the last thing any *)
(* scan does is to consume the end tag of CIM, although the functions that *)
(* it called set dontLex wherever they looked ahead (grammar.c:38-78).     *)
THEOREM NothingIsLeftOver == Spec => []NothingPending
<1>1. Init => HolderParses /\ ScanInv
  BY HolderInit, InitScanInv
<1>2. HolderParses /\ ScanInv /\ [Next]_vars => (HolderParses /\ ScanInv)'
  BY HolderStep, ScanInvStep
<1>3. HolderParses /\ ScanInv => NothingPending
  BY DEF ScanInv
<1> QED
  BY <1>1, <1>2, <1>3, PTL DEF Spec
=============================================================================
