------------------------ MODULE MCIndicationListener ------------------------
(* Instances of IndicationListener for TLC: two listeners on two ports,    *)
(* and one request for each way through handleConnection.                  *)
EXTENDS IndicationListener, TLC

CONSTANTS l1, l2, p1, p2

TwoPorts == (l1 :> p1) @@ (l2 :> p2)
OnePort  == l1 :> p1

Good == [arrives |-> "blank", line |-> "post", headers |-> <<"length">>,
         body |-> "full", xml |-> "instance"]

AllRequests ==
  {Good} \cup
  {[Good EXCEPT !.arrives = a] : a \in {"limit", "silent", "eof", "stall"}} \cup
  {[Good EXCEPT !.line = k, !.headers = h] : k \in {"other", "noProtocol"},
     h \in {<< >>, <<"length">>, <<"badHost", "length">>}} \cup
  {[Good EXCEPT !.headers = h] :
     h \in {<< >>, <<"length", "badHost", "expect">>, <<"expect", "length", "expect">>,
            <<"length", "negativeLength">>, <<"length", "length">>}} \cup
  {[Good EXCEPT !.body = b] : b \in {"short", "over"}} \cup
  {[Good EXCEPT !.xml = x] : x \in {"noInstance", "error", "unparsable"}}

OnlyGood == {Good}

(* Of two connections at a time one has no more to it than a correct post  *)
(* has: what else can come is met by each thread alone.                    *)
OneOfNote ==
  \A s, t \in Threads :
    s # t /\ conn[s].req \in Requests /\ conn[t].req \in Requests =>
      Good \in {conn[s].req, conn[t].req}

MCNext == Next /\ OneOfNote'
MCSpec == Init /\ [][MCNext]_vars /\ Fairness
=============================================================================
