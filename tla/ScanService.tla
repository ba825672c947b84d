---------------------------- MODULE ScanService ----------------------------
(***************************************************************************)
(* What a caller of scanCimXmlResponse may rely on: its answer holds the   *)
(* elements of its own text, in document order, whatever other threads     *)
(* scan; and the process ends only when some thread was given a text that  *)
(* is not one of Readable.                                                 *)
(*                                                                         *)
(* The contents of a text are defined by the nesting of its tags alone.    *)
(***************************************************************************)
EXTENDS TagNesting

CONSTANTS
  Threads,
  Texts,
  Readable    \* the texts that are answered whatever happens

VARIABLES
  asked,      \* the text each thread wants scanned, << >> for none
  answer,     \* what the thread was given, NoAnswer before
  ended       \* the process is gone

serviceVars == <<asked, answer, ended>>

NoAnswer == << >>

Opens(txt, i) == txt[i].kind \in {"start", "empty"}

(* The value of a property: getProperty's answer.                          *)
IsPropertyValue(txt, i) ==
  /\ Opens(txt, i)
  /\ txt[i].tag \in {"VALUE", "VALUE.ARRAY", "VALUE.REFERENCE"}
  /\ Parent(txt, i) = "IRETURNVALUE"

Listed == {"CLASS", "CLASSNAME", "INSTANCE", "INSTANCENAME", "VALUE.NAMEDINSTANCE", "OBJECTPATH"}

(* An object with its path, known by the path: an instance or a class.     *)
IsObjectWithPath(txt, i) ==
  /\ Opens(txt, i)
  /\ txt[i].tag \in {"INSTANCEPATH", "CLASSPATH"}
  /\ Parent(txt, i) = "VALUE.OBJECTWITHPATH"

(* What a response returns: a property's value, the elements directly      *)
(* within IRETURNVALUE and EXPPARAMVALUE, the objects with a path, and     *)
(* RETURNVALUE.                                                            *)
IsReturned(txt, i) ==
  \/ IsPropertyValue(txt, i)
  \/ IsObjectWithPath(txt, i)
  \/ /\ Opens(txt, i)
     /\ \/ txt[i].tag \in Listed /\ Parent(txt, i) \in {"IRETURNVALUE", "EXPPARAMVALUE"}
        \/ txt[i].tag = "RETURNVALUE"

IsOutArg(txt, i) == Opens(txt, i) /\ txt[i].tag = "PARAMVALUE"
IsError(txt, i)  == Opens(txt, i) /\ txt[i].tag = "ERROR"

Places(txt, Is(_, _)) == SelectSeq([i \in 1..Len(txt) |-> i], LAMBDA i : Is(txt, i))

Contents(txt) ==
  [ rvArray |-> Places(txt, IsReturned),
    outArgs |-> Places(txt, IsOutArg),
    error   |-> Places(txt, IsError) ]

Ask(t, txt) ==
  /\ ~ ended /\ asked[t] = << >>
  /\ asked' = [asked EXCEPT ![t] = txt]
  /\ UNCHANGED <<answer, ended>>

Answer(t) ==
  /\ ~ ended /\ asked[t] # << >> /\ answer[t] = NoAnswer
  /\ answer' = [answer EXCEPT ![t] = <<Contents(asked[t])>>]
  /\ UNCHANGED <<asked, ended>>

End ==
  /\ ~ ended
  /\ \E t \in Threads : asked[t] # << >> /\ answer[t] = NoAnswer /\ asked[t] \notin Readable
  /\ ended' = TRUE
  /\ UNCHANGED <<asked, answer>>

ServiceInit ==
  /\ asked = [t \in Threads |-> << >>]
  /\ answer = [t \in Threads |-> NoAnswer]
  /\ ended = FALSE

ServiceNext ==
  \/ \E t \in Threads : (\E txt \in Texts : Ask(t, txt)) \/ Answer(t)
  \/ End

Service == ServiceInit /\ [][ServiceNext]_serviceVars
=============================================================================
