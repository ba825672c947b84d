-------------------------- MODULE TransferTimeout --------------------------
(***************************************************************************)
(* The time limit of one HTTP exchange of the CIM-XML client: the control  *)
(* record that genRequest resets and the progress callback checkProgress,  *)
(* which libcurl calls while curl_easy_perform runs and whose result 1     *)
(* aborts the transfer.                                                    *)
(*                                                                         *)
(* The callback reads the wall clock, which an administrator or NTP may    *)
(* set at any time, so clock moves apart from the time that really passes. *)
(* What the code can not know is kept in history variables.                *)
(***************************************************************************)
EXTENDS Integers

CONSTANTS
  CIMSERVER_TIMEOUT,       \* 600 seconds in client.c
  MAX_PLAUSIBLE_PROGRESS,  \* 30 seconds
  MAX_PROGRESS_FIXUPS,     \* 10
  Callbacks,    \* how the callback may be installed: "doubles" is how it
                \* reads its arguments; as XFERINFOFUNCTION it gets
                \* "integers", and compares whatever the registers hold
  Settings,     \* the values the clock may be set to
  Lengths,      \* the values of a Content-Length header
  MaxGap,       \* bound: seconds between two calls of the callback
  MaxElapsed,   \* bound: seconds that pass while the callback may take the
                \* transfer for complete
  MaxSet,       \* bound: times the clock is set during one transfer
  MaxBody       \* bound: pieces of body that are received

ASSUME LimitsAssumption ==
  /\ CIMSERVER_TIMEOUT \in Nat \ {0}
  /\ MAX_PLAUSIBLE_PROGRESS \in Nat
  /\ MAX_PROGRESS_FIXUPS \in Nat
  /\ Callbacks \subseteq {"doubles", "integers"}

\* 0 is the code's mark of "not called yet", never a time of the clock.
ASSUME ClockAssumption == Settings \subseteq Nat \ {0}

ASSUME BoundsAssumption ==
  /\ Lengths \subseteq Nat
  /\ MaxGap \in Nat /\ MaxElapsed \in Nat /\ MaxSet \in Nat /\ MaxBody \in Nat

VARIABLES
  clock,            \* time(NULL)
  mTimestampStart,  \* _TimeoutControl: when counting began, 0 if not yet
  mTimestampLast,   \* _TimeoutControl: the clock at the last call
  mFixups,          \* _TimeoutControl: times counting began anew
  total, actual,    \* libcurl's download counters, total 0 while unknown
  callback,         \* the one of Callbacks this program was built with
  transfer,         \* "running", "aborted" by the callback, or "ended"
  elapsed,          \* seconds that really passed in this transfer
  gap,              \* seconds that really passed since the last call
  unseen,           \* seconds that really passed since a call last looked at
                    \* the clock
  setUnseen,        \* times the clock was set since that look
  settings,         \* times the clock was set in this transfer
  slack,            \* what these may have hidden from the callback
  upsets            \* looks that came late or after the clock was set

timeoutControl == <<mTimestampStart, mTimestampLast, mFixups>>
libcurl == <<total, actual, callback>>
history == <<elapsed, gap, unseen, setUnseen, settings, slack, upsets>>
timeoutVars == <<clock, timeoutControl, libcurl, transfer, history>>

\* The types of the variables, and how far the fixups are counted: one more
\* than are allowed, for the first call is one, and the next call aborts.
TimeoutTypes ==
  /\ clock \in Nat \ {0}
  /\ mTimestampStart \in Nat /\ mTimestampLast \in Nat
  /\ mFixups \in 0 .. MAX_PROGRESS_FIXUPS + 1
  /\ total \in Nat /\ actual \in Nat /\ callback \in Callbacks
  /\ transfer \in {"running", "aborted", "ended"}
  /\ elapsed \in Nat /\ gap \in Nat /\ unseen \in Nat /\ settings \in Nat
  /\ slack \in Nat /\ upsets \in Nat /\ setUnseen \in Nat

\* Mutant: the fixups of earlier transfers keep counting.
NewTransfer_KeepsFixups ==
  /\ mTimestampStart' = 0 /\ mTimestampLast' = 0 /\ mFixups' = mFixups
  /\ total' = 0 /\ actual' = 0 /\ UNCHANGED callback
  /\ transfer' = "running"
  /\ elapsed' = 0 /\ gap' = 0 /\ unseen' = 0 /\ setUnseen' = 0
  /\ settings' = 0 /\ slack' = 0 /\ upsets' = 0

\* genRequest resets the control and curl_easy_perform begins.
NewTransfer ==
  /\ mTimestampStart' = 0 /\ mTimestampLast' = 0 /\ mFixups' = 0
  /\ total' = 0 /\ actual' = 0 /\ UNCHANGED callback
  /\ transfer' = "running"
  /\ elapsed' = 0 /\ gap' = 0 /\ unseen' = 0 /\ setUnseen' = 0
  /\ settings' = 0 /\ slack' = 0 /\ upsets' = 0

TimeoutInit ==
  /\ clock \in Settings
  /\ mTimestampStart = 0 /\ mTimestampLast = 0 /\ mFixups = 0
  /\ total = 0 /\ actual = 0 /\ callback \in Callbacks
  /\ transfer = "ended"
  /\ elapsed = 0 /\ gap = 0 /\ unseen = 0 /\ setUnseen = 0
  /\ settings = 0 /\ slack = 0 /\ upsets = 0

\* Any time may have passed since the previous transfer.
genRequest ==
  /\ transfer # "running"
  /\ NewTransfer
  /\ clock' \in Settings

----------------------------------------------------------------------------
(* The world: time, the clock, and the server.                             *)

\* Mutant: a body longer than announced, or of unknown length, is complete.
SeesEverythingReceived_OrMore == IF callback = "doubles" THEN {total <= actual} ELSE BOOLEAN

\* "if (total == actual)" of checkProgress, with the arguments as the build
\* passes them.
SeesEverythingReceived == IF callback = "doubles" THEN {total = actual} ELSE BOOLEAN

\* libcurl calls at least once a second.
Tick ==
  /\ transfer = "running"
  /\ gap < MaxGap
  /\ TRUE \in SeesEverythingReceived => elapsed < MaxElapsed
  /\ clock' = clock + 1
  /\ elapsed' = elapsed + 1
  /\ gap' = gap + 1
  /\ unseen' = unseen + 1
  /\ UNCHANGED <<timeoutControl, libcurl, transfer, setUnseen, settings, slack, upsets>>

\* A setting the callback does not see hides at most what it finds plausible.
SetClock ==
  /\ transfer = "running"
  /\ settings < MaxSet
  /\ clock' \in Settings
  /\ setUnseen' = setUnseen + 1
  /\ settings' = settings + 1
  /\ slack' = slack + MAX_PLAUSIBLE_PROGRESS
  /\ UNCHANGED <<timeoutControl, libcurl, transfer, elapsed, gap, unseen, upsets>>

ReceiveHeader ==
  /\ transfer = "running" /\ actual = 0 /\ total = 0
  /\ total' \in Lengths
  /\ UNCHANGED <<clock, timeoutControl, actual, callback, transfer, history>>

ReceiveBody ==
  /\ transfer = "running" /\ actual < MaxBody
  /\ total = 0 \/ actual < total
  /\ actual' = actual + 1
  /\ UNCHANGED <<clock, timeoutControl, total, callback, transfer, history>>

\* The server has sent everything, or the connection breaks.
EndTransfer ==
  /\ transfer = "running"
  /\ transfer' = "ended"
  /\ UNCHANGED <<clock, timeoutControl, libcurl, history>>

----------------------------------------------------------------------------
(* checkProgress(), one disjunct per return statement.                     *)

\* Mutant: one fixup more is allowed.
TooManyFixups_Late == mFixups > MAX_PROGRESS_FIXUPS + 1

TooManyFixups == mFixups > MAX_PROGRESS_FIXUPS

NeedsFixup ==
  \/ mTimestampStart = 0
  \/ mTimestampLast > clock
  \/ clock - mTimestampLast > MAX_PLAUSIBLE_PROGRESS

TimeLeft == clock - mTimestampStart < CIMSERVER_TIMEOUT

\* What the history records of a look at the clock.
Looked ==
  /\ unseen' = 0 /\ setUnseen' = 0
  /\ upsets' = IF setUnseen > 0 \/ unseen > MAX_PLAUSIBLE_PROGRESS THEN upsets + 1 ELSE upsets
  /\ UNCHANGED <<elapsed, settings, slack, transfer>>

\* return 0: nothing is looked at, not even the clock.
EverythingReceived ==
  /\ TRUE \in SeesEverythingReceived
  /\ UNCHANGED <<timeoutControl, transfer, elapsed, unseen, setUnseen, settings, slack, upsets>>

Fixup ==
  /\ FALSE \in SeesEverythingReceived
  /\ ~TooManyFixups /\ NeedsFixup
  /\ mFixups' = mFixups + 1
  /\ mTimestampStart' = clock
  /\ mTimestampLast' = clock
  /\ Looked

InTime ==
  /\ FALSE \in SeesEverythingReceived
  /\ ~TooManyFixups /\ ~NeedsFixup
  /\ TimeLeft
  /\ mTimestampLast' = clock
  /\ Looked
  /\ UNCHANGED <<mTimestampStart, mFixups>>

\* return 1, which makes libcurl end with CURLE_ABORTED_BY_CALLBACK.
Abort ==
  /\ FALSE \in SeesEverythingReceived
  /\ TooManyFixups \/ (~NeedsFixup /\ ~TimeLeft)
  /\ transfer' = "aborted"
  /\ UNCHANGED <<timeoutControl, elapsed, unseen, setUnseen, settings, slack, upsets>>

checkProgress ==
  /\ transfer = "running"
  /\ EverythingReceived \/ Fixup \/ InTime \/ Abort
  /\ gap' = 0
  /\ UNCHANGED <<clock, libcurl>>

TimeoutNext ==
  \/ genRequest \/ Tick \/ SetClock
  \/ ReceiveHeader \/ ReceiveBody \/ EndTransfer
  \/ checkProgress

TimeoutSpec == TimeoutInit /\ [][TimeoutNext]_timeoutVars

\* libcurl calls the callback again and again and time passes.  Nothing is
\* assumed of the server; the clock is set MaxSet times in a transfer at most,
\* for one who keeps setting it back by what has passed makes time stand still.
TimeoutFairSpec == TimeoutSpec /\ WF_timeoutVars(checkProgress) /\ WF_timeoutVars(Tick)

----------------------------------------------------------------------------
(* Properties.                                                             *)

\* A transfer is aborted only when its time is really up, but for what the
\* settings of the clock may have hidden, or when the callback has been upset
\* more often than MAX_PROGRESS_FIXUPS allows: setting the clock to any value
\* does not by itself end a transfer (NEWS: "Fixed incorrect timeout assertion
\* when system clock changes"), nor does what an earlier transfer left behind.
AbortJustified ==
  transfer = "aborted" =>
    \/ elapsed + slack >= CIMSERVER_TIMEOUT
    \/ upsets >= MAX_PROGRESS_FIXUPS

\* A transfer that has begun to receive its body ends, whatever the server and
\* the clock do: counting can begin anew only MAX_PROGRESS_FIXUPS + 1 times.
\* (Before the first byte it need not: see TenMinutesMaxPerOperation; nor if
\* what the callback compares is not what libcurl passes.)
StalledTransferEnds ==
  (callback = "doubles" /\ transfer = "running" /\ actual > 0 /\ actual # total)
    ~> (transfer # "running" \/ actual = total)

\* client.c, line 55: "10 minutes max per operation".  With a clock nobody
\* sets and calls that come in time no transfer should run longer.  It does
\* while the server sends nothing: total and actual are both 0 then, which
\* checkProgress takes for "we received everything".
TenMinutesMaxPerOperation ==
  settings = 0 /\ upsets = 0 => elapsed <= CIMSERVER_TIMEOUT + MaxGap

============================================================================
