-------------------------- MODULE ResponseGrammar --------------------------
(***************************************************************************)
(* The grammar of CIM-XML responses (backend/cimxml/grammar.c): one        *)
(* definition for each parsing function, named as in the source.           *)
(*                                                                         *)
(* A function's definition is the sequence of the steps it does:           *)
(*   read       - ct = localLex(); the step's alternatives say what the    *)
(*                function does on each token.  "back" steps set dontLex,  *)
(*                so the token is read again; "again" steps are the head   *)
(*                of a do-while; on any other token a "must" step calls    *)
(*                parseError and one without goes on;                      *)
(*   call       - a call of another parsing function;                      *)
(*   pushBack   - dontLex = 1;                                             *)
(*   put, setReturnArgs - the result is stored in the response header,     *)
(*                for the element that begins at place "at" of the text.   *)
(* XTOK_... is X(tag) and ZTOK_... is Z(tag), by the tag's XML name.       *)
(***************************************************************************)
EXTENDS Sequences, Naturals

X(tag) == <<"XTOK", tag>>
Z(tag) == <<"ZTOK", tag>>
NoToken == <<"0", "">>

----------------------------------------------------------------------------
(* The steps of a parsing function.                                        *)

Step(op, alts, back, again, must, arg) ==
  [op |-> op, alts |-> alts, back |-> back, again |-> again, must |-> must, arg |-> arg, at |-> 0]

NoAlts == [tok \in {} |-> << >>]

Call(f)       == Step("call", NoAlts, FALSE, FALSE, FALSE, f)
Put(field)    == Step("put", NoAlts, FALSE, FALSE, FALSE, field)
SetReturnArgs == Step("setReturnArgs", NoAlts, FALSE, FALSE, FALSE, "")
PushBack      == Step("pushBack", NoAlts, FALSE, FALSE, FALSE, "")

(* if(ct == ...) {...} else parseError: the token is consumed.             *)
Take(alts) == Step("read", alts, FALSE, FALSE, TRUE, "")

(* The same with dontLex = 1: the function called reads the token again.   *)
Choose(alts) == Step("read", alts, TRUE, FALSE, TRUE, "")

(* ct = localLex(); dontLex = 1; if(ct == ...) {...}                       *)
Optional(alts) == Step("read", alts, TRUE, FALSE, FALSE, "")

(* As Star, the dontLex = 1 after the loop forgotten.                      *)
Star_NoPushBack(alts) == Step("read", alts, FALSE, TRUE, FALSE, "")

(* ct = localLex(); dontLex = 1; if(ct == ...) do {...} while(ct == ...)   *)
Star(alts) == Step("read", alts, TRUE, TRUE, FALSE, "")

On(tag, steps)   == [tok \in {X(tag)} |-> steps]
Expect(tok)      == Take([x \in {tok} |-> << >>])
Within(tag, steps) == On(tag, Append(steps, Expect(Z(tag))))
Element(tag, steps) == <<Take(Within(tag, steps))>>

(* The branches of an if ... else if ..., no two of them for one token.    *)
OneOf(branches) ==
  [tok \in UNION {DOMAIN b : b \in branches} |-> (CHOOSE b \in branches : tok \in DOMAIN b)[tok]]

(* The loops over one kind of element, the body being one function.        *)
Many(tag, f)  == Star(On(tag, <<Call(f)>>))

----------------------------------------------------------------------------
(* The message around the response.                                        *)

start == <<Expect(X("?xml")), Expect(Z("?xml")), Call("cim")>>
(* As cim, its end tag looked at as the loops look ahead.                  *)
cim_LookAhead ==
  <<Take(On("CIM", <<Call("message"), Choose([x \in {Z("CIM")} |-> << >>])>>))>>

cim == Element("CIM", <<Call("message")>>)
message == Element("MESSAGE", <<Call("messageContent")>>)

messageContent ==
  <<Take(OneOf({Within("SIMPLERSP", <<Call("simpleRspContent")>>),
                Within("SIMPLEEXPREQ", <<Call("exportIndication")>>)}))>>

simpleRspContent ==
  <<Take(OneOf({Within("METHODRESPONSE", <<Call("methodRespContent"), SetReturnArgs>>),
                Within("IMETHODRESPONSE", <<Call("iMethodRespContent")>>)}))>>

(* XTOK_EXPORTINDICATION and XTOK_EP_INSTANCE are the start tags of        *)
(* EXPMETHODCALL and EXPPARAMVALUE.                                        *)
exportIndication == Element("EXPMETHODCALL", <<Call("exParamValue")>>)

exParamValue ==
  Element("EXPPARAMVALUE", <<Optional(On("INSTANCE", <<Call("instance"), Put("rvArray")>>))>>)

(* An extrinsic method's answer: an error, or a return value and the out   *)
(* parameters.                                                             *)
OutParams == Star(On("PARAMVALUE", <<Call("paramValue"), Put("values")>>))

methodRespContent ==
  <<Choose(OneOf({On("ERROR", <<Call("error")>>),
                  On("RETURNVALUE", <<Call("returnValue"), OutParams>>),
                  On("PARAMVALUE", <<OutParams>>),
                  [x \in {Z("METHODRESPONSE")} |-> << >>]}))>>

iMethodRespContent ==
  <<Choose(OneOf({On("ERROR", <<Call("error")>>),
                  On("IRETURNVALUE", <<Call("iReturnValue")>>)}))>>

error == Element("ERROR", <<Put("error")>>)

(* As returnValue, its end tag forgotten.                                  *)
returnValue_NoEnd == <<Take(On("RETURNVALUE", <<Call("returnValueData"), Put("rvArray")>>))>>

returnValue == Element("RETURNVALUE", <<Call("returnValueData"), Put("rvArray")>>)

ValueOr(others) == Choose(OneOf({On("VALUE", <<Call("value")>>)} \cup others))
OnReference     == On("VALUE.REFERENCE", <<Call("valueReference")>>)
OnArray         == On("VALUE.ARRAY", <<Call("valueArray")>>)
OnRefArray      == On("VALUE.REFARRAY", <<Call("valueRefArray")>>)

returnValueData == <<ValueOr({OnReference})>>

paramValue ==
  Element("PARAMVALUE",
    <<Optional([tok \in {X("VALUE"), X("VALUE.REFERENCE"), X("VALUE.ARRAY"), X("VALUE.REFARRAY")}
                  |-> <<Call("paramValueData")>>])>>)

paramValueData == <<ValueOr({OnReference, OnArray, OnRefArray})>>

----------------------------------------------------------------------------
(* An intrinsic operation's answer: a list of one kind of element, or one  *)
(* property value.                                                         *)

iReturnValue == Element("IRETURNVALUE", <<Call("iReturnValueContent")>>)

(* A list whose every element becomes one entry of rvArray.                *)
List(tag, f) ==
  On(tag, <<Call(f), Put("rvArray"), Star(On(tag, <<Call(f), Put("rvArray")>>))>>)

(* valueObjectWithPathData fills rvArray itself.                           *)
ListOfObjects ==
  On("VALUE.OBJECTWITHPATH",
     <<Call("valueObjectWithPath"), Many("VALUE.OBJECTWITHPATH", "valueObjectWithPath")>>)

iReturnValueContent ==
  <<Choose(OneOf({List("CLASS", "class"),
                  List("CLASSNAME", "className"),
                  List("INSTANCE", "instance"),
                  List("INSTANCENAME", "instanceName"),
                  List("VALUE.NAMEDINSTANCE", "valueNamedInstance"),
                  List("OBJECTPATH", "objectPath"),
                  ListOfObjects,
                  [x \in {X("VALUE"), X("VALUE.ARRAY"), X("VALUE.REFERENCE")}
                     |-> <<Call("getPropertyRetValue")>>],
                  [x \in {Z("IRETURNVALUE")} |-> << >>]}))>>

(* Only a scalar VALUE is stored.                                          *)
getPropertyRetValue ==
  <<Choose(OneOf({On("VALUE", <<Call("value"), Put("rvArray")>>), OnArray, OnReference}))>>

valueObjectWithPath == Element("VALUE.OBJECTWITHPATH", <<Call("valueObjectWithPathData")>>)

(* Only an instance is stored.                                             *)
valueObjectWithPathData ==
  <<Choose(OneOf({On("CLASSPATH", <<Call("classWithPath")>>),
                  On("INSTANCEPATH", <<Call("instanceWithPath"), Put("rvArray")>>)}))>>

classWithPath    == <<Choose(On("CLASSPATH", <<Call("classPath"), Call("class")>>))>>
instanceWithPath == <<Choose(On("INSTANCEPATH", <<Call("instancePath"), Call("instance")>>))>>

----------------------------------------------------------------------------
(* Classes, methods and their parameters.                                  *)

Qualifiers == Many("QUALIFIER", "qualifier")

(* As Properties, a loop that reads nothing of a reference.                *)
Properties_NoReference ==
  Star(OneOf({[x \in {X("PROPERTY"), X("PROPERTY.ARRAY")} |-> <<Call("genProperty")>>],
              [x \in {X("PROPERTY.REFERENCE")} |-> << >>]}))

Properties ==
  Star([x \in {X("PROPERTY"), X("PROPERTY.ARRAY"), X("PROPERTY.REFERENCE")}
          |-> <<Call("genProperty")>>])

class == Element("CLASS", <<Qualifiers, Properties, Many("METHOD", "method")>>)

(* methodData reads no token: it goes by the ct of the loop in method.     *)
methodData ==
  OneOf({On("PARAMETER", <<Call("parameter")>>),
         On("PARAMETER.REFERENCE", <<Call("parameterReference")>>),
         On("PARAMETER.ARRAY", <<Call("parameterArray")>>),
         On("PARAMETER.REFARRAY", <<Call("parameterRefArray")>>)})

method == Element("METHOD", <<Qualifiers, Star(methodData)>>)

parameter          == Element("PARAMETER", <<Qualifiers>>)
parameterReference == Element("PARAMETER.REFERENCE", <<Qualifiers>>)
parameterRefArray  == Element("PARAMETER.REFARRAY", <<Qualifiers>>)
parameterArray     == Element("PARAMETER.ARRAY", <<Qualifiers>>)

----------------------------------------------------------------------------
(* Paths.                                                                  *)

objectPath   == Element("OBJECTPATH", <<Call("instancePath")>>)
classPath    == Element("CLASSPATH", <<Call("nameSpacePath"), Call("className")>>)
className    == Element("CLASSNAME", << >>)
instancePath == Element("INSTANCEPATH", <<Call("nameSpacePath"), Call("instanceName")>>)
localInstancePath ==
  Element("LOCALINSTANCEPATH", <<Call("localNameSpacePath"), Call("instanceName")>>)
nameSpacePath == Element("NAMESPACEPATH", <<Call("host"), Call("localNameSpacePath")>>)
host          == Element("HOST", << >>)
localNameSpacePath == Element("LOCALNAMESPACEPATH", <<Many("NAMESPACE", "nameSpace")>>)
nameSpace     == Element("NAMESPACE", << >>)

----------------------------------------------------------------------------
(* Instances, their properties and qualifiers.                             *)

valueNamedInstance == Element("VALUE.NAMEDINSTANCE", <<Call("instanceName"), Call("instance")>>)
instance           == Element("INSTANCE", <<Qualifiers, Properties>>)

genProperty ==
  <<Choose(OneOf({On("PROPERTY", <<Call("property")>>),
                  On("PROPERTY.ARRAY", <<Call("propertyArray")>>),
                  On("PROPERTY.REFERENCE", <<Call("propertyReference")>>)}))>>

qualifier ==
  Element("QUALIFIER",
    <<Optional([x \in {X("VALUE"), X("VALUE.ARRAY")} |-> <<Call("qualifierData")>>])>>)
qualifierData == <<ValueOr({OnArray})>>

property ==
  Element("PROPERTY", <<Qualifiers, Optional(On("VALUE", <<Call("value")>>))>>)
propertyArray     == Element("PROPERTY.ARRAY", <<Qualifiers, Optional(OnArray)>>)
propertyReference == Element("PROPERTY.REFERENCE", <<Qualifiers, Optional(OnReference)>>)

----------------------------------------------------------------------------
(* Keys and values.                                                        *)

instanceName == Element("INSTANCENAME", <<Many("KEYBINDING", "keyBinding")>>)
keyBinding   == Element("KEYBINDING", <<Call("keyBindingContent")>>)
keyBindingContent == <<Choose(OneOf({On("KEYVALUE", <<Call("keyValue")>>), OnReference}))>>
keyValue     == Element("KEYVALUE", << >>)

value == Element("VALUE", <<Call("valueData")>>)

(* The text of a VALUE is read by the lexer; only an embedded instance has *)
(* tokens of its own.                                                      *)
valueData ==
  <<Take(OneOf({[x \in {Z("VALUE")} |-> <<PushBack>>],
                Within("![CDATA[", <<Call("instance")>>)}))>>

valueArray     == Element("VALUE.ARRAY", <<Many("VALUE", "value")>>)
valueRefArray  == Element("VALUE.REFARRAY", <<Many("VALUE.REFERENCE", "valueReference")>>)
valueReference == Element("VALUE.REFERENCE", <<Call("valueReferenceData")>>)

valueReferenceData ==
  <<Choose(OneOf({On("INSTANCEPATH", <<Call("instancePath")>>),
                  On("LOCALINSTANCEPATH", <<Call("localInstancePath")>>),
                  On("INSTANCENAME", <<Call("instanceName")>>)}))>>

----------------------------------------------------------------------------
(* The functions a step can call, by name.                                 *)
Grammar ==
  [ start |-> start, cim |-> cim, message |-> message, messageContent |-> messageContent,
    simpleRspContent |-> simpleRspContent, exportIndication |-> exportIndication,
    exParamValue |-> exParamValue, methodRespContent |-> methodRespContent,
    iMethodRespContent |-> iMethodRespContent, error |-> error, returnValue |-> returnValue,
    returnValueData |-> returnValueData, paramValue |-> paramValue,
    paramValueData |-> paramValueData, iReturnValue |-> iReturnValue,
    iReturnValueContent |-> iReturnValueContent, getPropertyRetValue |-> getPropertyRetValue,
    valueObjectWithPath |-> valueObjectWithPath,
    valueObjectWithPathData |-> valueObjectWithPathData, classWithPath |-> classWithPath,
    instanceWithPath |-> instanceWithPath, class |-> class, method |-> method,
    parameter |-> parameter, parameterReference |-> parameterReference,
    parameterRefArray |-> parameterRefArray, parameterArray |-> parameterArray,
    objectPath |-> objectPath, classPath |-> classPath, className |-> className,
    instancePath |-> instancePath, localInstancePath |-> localInstancePath,
    nameSpacePath |-> nameSpacePath, host |-> host, localNameSpacePath |-> localNameSpacePath,
    nameSpace |-> nameSpace, valueNamedInstance |-> valueNamedInstance, instance |-> instance,
    genProperty |-> genProperty, qualifier |-> qualifier, qualifierData |-> qualifierData,
    property |-> property, propertyArray |-> propertyArray,
    propertyReference |-> propertyReference, instanceName |-> instanceName,
    keyBinding |-> keyBinding, keyBindingContent |-> keyBindingContent, keyValue |-> keyValue,
    value |-> value, valueData |-> valueData, valueArray |-> valueArray,
    valueRefArray |-> valueRefArray, valueReference |-> valueReference,
    valueReferenceData |-> valueReferenceData ]
=============================================================================
