--------------------------- MODULE MCResponseScan ---------------------------
(* Instances of ResponseScan for TLC: responses of every kind, and texts   *)
(* with one tag lost or doubled.                                           *)
EXTENDS ResponseScan, FiniteSetsExt

CONSTANTS t1, t2

P(kind, tag) == <<[kind |-> kind, tag |-> tag]>>
El(tag, inner) == P("start", tag) \o inner \o P("end", tag)
Em(tag)   == P("empty", tag)
Chars     == P("text", "")
Comment   == P("comment", "")

Response(inner)  == Em("?xml") \o El("CIM", El("MESSAGE", El("SIMPLERSP", inner)))
Intrinsic(inner) == Response(El("IMETHODRESPONSE", El("IRETURNVALUE", inner)))
Extrinsic(inner) == Response(El("METHODRESPONSE", inner))
Export(inner) ==
  Em("?xml") \o El("CIM", El("MESSAGE", El("SIMPLEEXPREQ", El("EXPMETHODCALL", El("EXPPARAMVALUE", inner)))))

Value     == El("VALUE", Chars)
Values    == El("VALUE.ARRAY", Value \o Em("VALUE"))
Key       == El("KEYBINDING", El("KEYVALUE", Chars))
Name      == El("INSTANCENAME", Key)
NsPath    == El("NAMESPACEPATH", El("HOST", Chars) \o El("LOCALNAMESPACEPATH", Em("NAMESPACE") \o Em("NAMESPACE")))
Path      == El("INSTANCEPATH", NsPath \o Name)
LocalPath == El("LOCALINSTANCEPATH", El("LOCALNAMESPACEPATH", << >>) \o Name)
ClassPath == El("CLASSPATH", NsPath \o Em("CLASSNAME"))
Ref(p)    == El("VALUE.REFERENCE", p)
Qual      == El("QUALIFIER", Value)
QualA     == El("QUALIFIER", Values) \o Em("QUALIFIER")
Prop      == El("PROPERTY", Qual \o Value)
PropNull  == Em("PROPERTY")
PropA     == El("PROPERTY.ARRAY", Qual \o Values)
PropR     == El("PROPERTY.REFERENCE", Qual \o Ref(Name))
Inst      == El("INSTANCE", Prop)
InstAll   == El("INSTANCE", QualA \o Prop \o PropNull \o PropA \o PropR)
Embedded  == El("VALUE", El("![CDATA[", Inst))
Method    == El("METHOD", Qual \o Em("PARAMETER") \o El("PARAMETER", Qual) \o El("PARAMETER.ARRAY", Qual)
                            \o El("PARAMETER.REFERENCE", Qual) \o El("PARAMETER.REFARRAY", Qual))
Class     == El("CLASS", Qual \o Prop \o PropA \o Method)
KeyRef    == El("INSTANCENAME", Key \o El("KEYBINDING", Ref(LocalPath)))
Named     == El("VALUE.NAMEDINSTANCE", KeyRef \o Inst)
WithPath  == El("VALUE.OBJECTWITHPATH", Path \o Inst)
ClassWithPath == El("VALUE.OBJECTWITHPATH", ClassPath \o Em("CLASS"))

TwoInstances == Intrinsic(Inst \o Em("INSTANCE"))
TwoNames     == Intrinsic(Name \o Em("INSTANCENAME"))
OutArgs      == Extrinsic(El("RETURNVALUE", Value) \o El("PARAMVALUE", Value) \o Em("PARAMVALUE"))
Indication   == Export(El("INSTANCE", Prop \o El("PROPERTY", Embedded)))

ValidTexts ==
  { TwoInstances, TwoNames, OutArgs, Indication, Export(<< >>),
    Intrinsic(<< >>), Intrinsic(Comment \o Em("CLASSNAME") \o El("CLASSNAME", << >>)),
    Intrinsic(Class \o Em("CLASS")), Intrinsic(InstAll), Intrinsic(Named \o Named),
    Intrinsic(El("OBJECTPATH", Path) \o El("OBJECTPATH", Path)),
    Intrinsic(WithPath \o ClassWithPath \o WithPath),
    Intrinsic(Value), Intrinsic(Values), Intrinsic(Ref(Path)),
    Response(El("IMETHODRESPONSE", Em("ERROR"))),
    Extrinsic(<< >>), Extrinsic(El("ERROR", << >>)), Extrinsic(El("RETURNVALUE", Ref(Path))),
    Extrinsic(El("PARAMVALUE", Values) \o El("PARAMVALUE", Ref(Name))
                \o El("PARAMVALUE", El("VALUE.REFARRAY", Ref(Path) \o Ref(Name)))) }

Without(s, i) == SubSeq(s, 1, i - 1) \o SubSeq(s, i + 1, Len(s))
Doubled(s, i) == SubSeq(s, 1, i) \o SubSeq(s, i, Len(s))
Cut(s, n)     == SubSeq(s, 1, n)

BrokenTexts ==
  UNION {{Without(s, i), Doubled(s, i)} : <<s, i>> \in
           {<<s, i>> \in {TwoInstances, OutArgs, Indication} \X (1..40) : i <= Len(s)}} \cup
  { Extrinsic(El("PARAMVALUE", Em("VALUE.REFARRAY"))), Intrinsic(Em("VALUE.OBJECTWITHPATH")),
    Intrinsic(El("VALUE", Chars \o Comment)), Intrinsic(El("INSTANCE", Chars)),
    Intrinsic(P("unknown", "")), Intrinsic(P("badAttr", "")), P("unknown", ""),
    Cut(TwoNames, 9), TwoNames \o Em("CIM"), TwoNames \o Chars, Intrinsic(Name \o Inst) }

AllTexts == ValidTexts \cup BrokenTexts
FewTexts == {TwoInstances, TwoNames, OutArgs, Indication, Intrinsic(<< >>), Intrinsic(Named),
             Extrinsic(El("ERROR", << >>)), Intrinsic(P("unknown", "")), Cut(TwoNames, 9)}

(* A second thread has a response only while all are among a few.          *)
FewTogether ==
  LET busy == {t \in Threads : pc[t] # "idle"}
  IN Cardinality(busy) > 1 => \A t \in busy : text[t] \in FewTexts

MCNext == Next /\ FewTogether'
(* Responses whose result the grammar reads and does not store: a property *)
(* that is an array or a reference, and a class with its path (grammar.c:  *)
(* 529-536, 565-569).                                                      *)
ArrayValue == Intrinsic(Values)
RefValue   == Intrinsic(Ref(Path))
ValuesNotStored == {ArrayValue, RefValue, Intrinsic(WithPath \o ClassWithPath \o WithPath)}

PropertyValues == {Intrinsic(Value), ArrayValue, RefValue}

Asked(txt) == IF txt \in ValuesNotStored THEN << >> ELSE txt

(* The threads that scan one of ValuesNotStored do not count as asking;    *)
(* what these texts lose is GetPropertyReturnsValue's to show.             *)
Service == INSTANCE ScanService WITH
  Readable <- ValidTexts,
  asked <- [t \in Threads |-> Asked(text[t])],
  answer <- [t \in Threads |->
               IF pc[t] = "done" /\ Asked(text[t]) # << >>
               THEN <<[rvArray |-> respHdr[t].rvArray, outArgs |-> respHdr[t].outArgs,
                       error |-> respHdr[t].error]>>
               ELSE << >>],
  ended <- ~ Running

(* "When successful the CMCIClientFT.getProperty() function returns a      *)
(* CMPIData object with the instance property value"                       *)
(* (man/man3/CMCIClientFT.getProperty.3:27-29): of a response that carries *)
(* a property's value and no error, the value is stored for the caller.    *)
GetPropertyReturnsValue ==
  \A t \in Threads : pc[t] = "done" =>
    \A i \in 1..Len(text[t]) :
      Service!IsPropertyValue(text[t], i) => \E k \in DOMAIN respHdr[t].rvArray : respHdr[t].rvArray[k] = i
=============================================================================
