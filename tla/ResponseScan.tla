---------------------------- MODULE ResponseScan ----------------------------
(***************************************************************************)
(* The scanner of CIM-XML responses: scanCimXmlResponse and the lexer      *)
(* (backend/cimxml/cimXmlParser.c) driving the grammar of ResponseGrammar. *)
(*                                                                         *)
(* Client threads and listener threads scan at any time, each its own      *)
(* text.  The parsing functions keep their look-ahead in the process-wide  *)
(* ct and dontLex, so scan_mutex is held over a whole scan.  Anything the  *)
(* grammar or the lexer does not expect ends the process.                  *)
(*                                                                         *)
(* A text is a sequence of what nextTag can stop at: a start, end or empty *)
(* tag, character data, a comment, a tag the lexer does not know, a tag    *)
(* with an attribute its table does not list.                              *)
(***************************************************************************)
EXTENDS ResponseGrammar, TagNesting

CONSTANTS
  Threads,    \* the threads that scan a response
  Texts,      \* the responses they may have to scan
  NoThread    \* nobody holds the mutex

Kinds == {"start", "end", "empty", "text", "comment", "unknown", "badAttr"}
Places == [kind : Kinds, tag : STRING]

ASSUME ScanAssumption ==
  /\ NoThread \notin Threads
  /\ Texts \subseteq Seq(Places)

VARIABLES
  proc,        \* "running", or the call that ended the process
  scan_mutex,  \* the holder of the mutex
  ct,          \* the token last read
  dontLex,     \* TRUE: localLex returns ct again
  pc,          \* "idle", "lock", "parse" or "done", per thread
  text,        \* the response the thread scans
  xmb,         \* its XmlBuffer: the next place, and the end tag of an empty tag
  todo,        \* the steps the thread's parsing functions still have to do
  respHdr      \* what the scan has stored, as places of the elements stored

vars == <<proc, scan_mutex, ct, dontLex, pc, text, xmb, todo, respHdr>>

(* A token that stands for the call of Throw in attrsOk.                   *)
Throw == <<"Throw", "">>

NoHdr  == [rvArray |-> << >>, values |-> << >>, outArgs |-> << >>, error |-> << >>]
NewXmb == [cur |-> 1, at |-> 0, etag |-> NoToken, nulledChar |-> FALSE]

----------------------------------------------------------------------------
(* The lexer.                                                              *)

PlaceAt(t, n) == IF n <= Len(text[t]) THEN text[t][n] ELSE [kind |-> "nothing", tag |-> ""]

(* Comments are skipped, except directly after character data: getContent  *)
(* has put a NUL where their "<" was.                                      *)
SkipComments(t) ==
  LET stops == {i \in xmb[t].cur..Len(text[t]) + 1 : PlaceAt(t, i).kind # "comment"}
  IN IF xmb[t].nulledChar THEN xmb[t].cur
     ELSE CHOOSE i \in stops : \A j \in stops : i <= j

(* The end tag procX gives for an empty tag: two of them pass another one. *)
EmptyTagEnd(tag) ==
  CASE tag = "VALUE.REFARRAY" -> Z("VALUE.ARRAY")
    [] tag = "VALUE.OBJECTWITHPATH" -> X("VALUE.OBJECTWITHPATH")
    [] OTHER -> Z(tag)

(* procHost, procKeyValue and procValue read the character data that       *)
(* follows their start tag.                                                *)
ReadsContent(t, n) ==
  /\ PlaceAt(t, n).tag \in {"HOST", "KEYVALUE", "VALUE"}
  /\ PlaceAt(t, n + 1).kind = "text"

Lexed(token, buffer) == [tok |-> token, xmb |-> buffer]

(* sfccLex: the token and the buffer after it.                             *)
sfccLex(t) ==
  LET b == xmb[t]
      n == SkipComments(t)
      place == PlaceAt(t, n)
      after == [b EXCEPT !.cur = n + 1, !.at = n, !.nulledChar = FALSE]
  IN CASE PlaceAt(t, b.cur).kind \in {"nothing", "text"} -> Lexed(NoToken, b)
       [] PlaceAt(t, b.cur).kind \notin {"nothing", "text"} /\ b.etag # NoToken ->
            Lexed(b.etag, [b EXCEPT !.etag = NoToken])
       [] OTHER ->
            CASE place.kind = "start" /\ ReadsContent(t, n) ->
                   Lexed(X(place.tag), [after EXCEPT !.cur = n + 2, !.nulledChar = TRUE])
              [] place.kind = "start" /\ ~ ReadsContent(t, n) -> Lexed(X(place.tag), after)
              [] place.kind = "empty" ->
                   Lexed(X(place.tag), [after EXCEPT !.etag = EmptyTagEnd(place.tag)])
              [] place.kind = "end" -> Lexed(Z(place.tag), after)
              [] place.kind = "badAttr" -> Lexed(Throw, after)
              [] OTHER -> Lexed(NoToken, b)

localLex(t) == IF dontLex THEN Lexed(ct, xmb[t]) ELSE sfccLex(t)

----------------------------------------------------------------------------
(* A scan.                                                                 *)

Running == proc = "running"

(* A thread has a response: scanCimXmlResponse is called.                  *)
Call_scanCimXmlResponse(t, txt) ==
  /\ Running /\ pc[t] = "idle"
  /\ pc' = [pc EXCEPT ![t] = "lock"]
  /\ text' = [text EXCEPT ![t] = txt]
  /\ UNCHANGED <<proc, scan_mutex, ct, dontLex, xmb, todo, respHdr>>

(* As Lock, without the mutex.                                             *)
Lock_NoMutex(t) ==
  /\ Running /\ pc[t] = "lock"
  /\ scan_mutex' = t
  /\ pc' = [pc EXCEPT ![t] = "parse"]
  /\ xmb' = [xmb EXCEPT ![t] = NewXmb]
  /\ respHdr' = [respHdr EXCEPT ![t] = NoHdr]
  /\ todo' = [todo EXCEPT ![t] = <<Call("start")>>]
  /\ UNCHANGED <<proc, ct, dontLex, text>>

Lock(t) ==
  /\ Running /\ pc[t] = "lock" /\ scan_mutex = NoThread
  /\ scan_mutex' = t
  /\ pc' = [pc EXCEPT ![t] = "parse"]
  /\ xmb' = [xmb EXCEPT ![t] = NewXmb]
  /\ respHdr' = [respHdr EXCEPT ![t] = NoHdr]
  /\ todo' = [todo EXCEPT ![t] = <<Call("start")>>]
  /\ UNCHANGED <<proc, ct, dontLex, text>>

Next_step(t, op) == Running /\ pc[t] = "parse" /\ todo[t] # << >> /\ Head(todo[t]).op = op

(* The steps of an alternative, for the element whose start tag was read.  *)
Begun(steps, place) == [i \in 1..Len(steps) |-> [steps[i] EXCEPT !.at = place]]

(* One localLex and the branch its token selects.                          *)
Read(t) ==
  /\ Next_step(t, "read")
  /\ LET step  == Head(todo[t])
         rest  == Tail(todo[t])
         found == localLex(t)
     IN /\ ct' = found.tok
        /\ xmb' = [xmb EXCEPT ![t] = found.xmb]
        /\ dontLex' = step.back
        /\ \/ /\ found.tok \in DOMAIN step.alts
              /\ todo' = [todo EXCEPT ![t] =
                            Begun(step.alts[found.tok], found.xmb.at)
                              \o (IF step.again THEN <<step>> ELSE << >>) \o rest]
              /\ UNCHANGED proc
           \/ /\ found.tok \notin DOMAIN step.alts /\ found.tok # Throw /\ ~ step.must
              /\ todo' = [todo EXCEPT ![t] = rest]
              /\ UNCHANGED proc
           \/ /\ found.tok = Throw
              /\ proc' = "Throw"
              /\ UNCHANGED todo
           \/ /\ found.tok \notin DOMAIN step.alts /\ found.tok # Throw /\ step.must
              /\ proc' = "parseError"
              /\ UNCHANGED todo
  /\ UNCHANGED <<scan_mutex, pc, text, respHdr>>

CallFunction(t) ==
  /\ Next_step(t, "call")
  /\ todo' = [todo EXCEPT ![t] = Begun(Grammar[Head(todo[t]).arg], Head(todo[t]).at) \o Tail(todo[t])]
  /\ UNCHANGED <<proc, scan_mutex, ct, dontLex, pc, text, xmb, respHdr>>

SetDontLex(t) ==
  /\ Next_step(t, "pushBack")
  /\ dontLex' = TRUE
  /\ todo' = [todo EXCEPT ![t] = Tail(@)]
  /\ UNCHANGED <<proc, scan_mutex, ct, pc, text, xmb, respHdr>>

(* simpleArrayAdd, addParamValue and setError.                             *)
Store(t) ==
  /\ Next_step(t, "put")
  /\ respHdr' = [respHdr EXCEPT ![t][Head(todo[t]).arg] = Append(@, Head(todo[t]).at)]
  /\ todo' = [todo EXCEPT ![t] = Tail(@)]
  /\ UNCHANGED <<proc, scan_mutex, ct, dontLex, pc, text, xmb>>

setReturnArgs(t) ==
  /\ Next_step(t, "setReturnArgs")
  /\ respHdr' = [respHdr EXCEPT ![t].outArgs = respHdr[t].values]
  /\ todo' = [todo EXCEPT ![t] = Tail(@)]
  /\ UNCHANGED <<proc, scan_mutex, ct, dontLex, pc, text, xmb>>

(* startParsing has returned: the buffer is released and the mutex given   *)
(* back.                                                                   *)
Unlock(t) ==
  /\ Running /\ pc[t] = "parse" /\ todo[t] = << >>
  /\ scan_mutex' = NoThread
  /\ pc' = [pc EXCEPT ![t] = "done"]
  /\ UNCHANGED <<proc, ct, dontLex, text, xmb, todo, respHdr>>

----------------------------------------------------------------------------
Scan(t) == Read(t) \/ CallFunction(t) \/ SetDontLex(t) \/ Store(t) \/ setReturnArgs(t) \/ Unlock(t)

Init ==
  /\ proc = "running" /\ scan_mutex = NoThread /\ ct = NoToken /\ dontLex = FALSE
  /\ pc = [t \in Threads |-> "idle"]
  /\ text = [t \in Threads |-> << >>]
  /\ xmb = [t \in Threads |-> NewXmb]
  /\ todo = [t \in Threads |-> << >>]
  /\ respHdr = [t \in Threads |-> NoHdr]

Next ==
  \E t \in Threads :
    \/ \E txt \in Texts : Call_scanCimXmlResponse(t, txt)
    \/ Lock(t)
    \/ Scan(t)

(* A thread in a scan runs on; nothing is assumed of who gets the mutex.   *)
Spec == Init /\ [][Next]_vars /\ \A t \in Threads : WF_vars(Scan(t))

----------------------------------------------------------------------------
(* Properties.                                                             *)

(* The types of the variables; the mutex and the pc agree on who parses.   *)
TypeOK ==
  /\ proc \in {"running", "parseError", "Throw"}
  /\ scan_mutex \in Threads \cup {NoThread}
  /\ dontLex \in BOOLEAN
  /\ pc \in [Threads -> {"idle", "lock", "parse", "done"}]
  /\ \A t \in Threads : pc[t] = "parse" <=> scan_mutex = t
  /\ text \in [Threads -> Texts \cup {<< >>}]

(* The look-ahead changes only for the holder of the mutex, and while a    *)
(* thread reads, stores or returns, no other gets on in its own text: ct   *)
(* and dontLex are static, and every function of the grammar uses them     *)
(* (grammar.c:27-28).                                                      *)
OnlyTheHolderReads ==
  [][/\ <<ct, dontLex>>' # <<ct, dontLex>> => scan_mutex \in Threads /\ scan_mutex' = scan_mutex
     /\ \A t \in Threads \ {scan_mutex'} :
          xmb'[t] = xmb[t] /\ todo'[t] = todo[t] /\ respHdr'[t] = respHdr[t]]_vars

(* A scan leaves nothing for the next one: dontLex is 0 whenever no thread *)
(* is in scanCimXmlResponse.  It is static and nothing resets it, so a     *)
(* token left over would be the first token of the next response           *)
(* (grammar.c:27-28, 38-49).                                               *)
NothingPending == Running /\ scan_mutex = NoThread => ~ dontLex

(* Whatever was read of a response that gave an answer is a nest of        *)
(* matching tags: no function forgets its end tag or takes the one of      *)
(* another element, and an empty tag counts as both.                       *)
AcceptsOnlyNested ==
  \A t \in Threads : pc[t] = "done" => WellNested(SubSeq(text[t], 1, xmb[t].cur - 1))

(* No text keeps a scan going for ever, the mutex held: every loop of the  *)
(* grammar consumes a token in each round.                                 *)
ScanTerminates == \A t \in Threads : (scan_mutex = t) ~> (scan_mutex # t \/ ~ Running)
=============================================================================
