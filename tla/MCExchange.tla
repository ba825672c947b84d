----------------------------- MODULE MCExchange -----------------------------
(* The two halves of an exchange, checked together: the time that a        *)
(* response may take to come (TransferTimeout), and its scan               *)
(* (ResponseScan).  They share no state, so a behaviour is one of a single *)
(* part, as in MCClient.                                                   *)
EXTENDS MCResponseScan, MCTransferTimeout

VARIABLE part

ExchangeInit ==
  /\ Init /\ TimeoutInit
  /\ part \in {"transfer", "scan"}
  \* A part that rests has one initial state.
  /\ part = "scan" => callback = "doubles" /\ clock = 1

ExchangeNext ==
  /\ UNCHANGED part
  /\ \/ part = "transfer" /\ TimeoutNext /\ UNCHANGED vars
     \/ part = "scan" /\ MCNext /\ UNCHANGED timeoutVars

(* The fairness of the parts, see TimeoutFairSpec and Spec.                *)
ExchangeSpec ==
  /\ ExchangeInit /\ [][ExchangeNext]_<<part, vars, timeoutVars>>
  /\ WF_timeoutVars(part = "transfer" /\ checkProgress)
  /\ WF_timeoutVars(part = "transfer" /\ Tick)
  /\ \A t \in Threads : WF_vars(part = "scan" /\ Scan(t))

(* Every answer holds the contents of its own text, in document order, and *)
(* the process ends only for a text that is no response: Service of        *)
(* ScanService, looked at where the scan steps.                            *)
AnswersItsOwnText ==
  /\ Service!ServiceInit
  /\ [][part = "scan" =>
          (Service!serviceVars' = Service!serviceVars \/ Service!ServiceNext)]_<<part, vars>>

=============================================================================
