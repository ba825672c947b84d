---------------------------- MODULE Client_Proofs ----------------------------
(***************************************************************************)
(* TLAPS proofs about the client and what it stands on.                    *)
(*                                                                         *)
(* ConnectionControl, for any schemes and any finite set of threads: who   *)
(* holds the mutex does not wait for it, what is shared goes with the last *)
(* client, and stays until then.                                           *)
(*                                                                         *)
(* UtilStringBuffer, for any width of an int, any sizes a buffer is made   *)
(* with and any lengths of what is appended: nothing is written behind the *)
(* block, and the loop that enlarges it gets on.                           *)
(*                                                                         *)
(* TransferTimeout, for any limits, clocks and lengths: no transfer is     *)
(* aborted before its time.                                                *)
(*                                                                         *)
(* UtilList as the part of MCSpec, for any lists, addresses and values: the*)
(* elements of a list hang together, whatever its cursor was on, and a     *)
(* program sees of it a sequence with a cursor, see ListCursor.            *)
(*                                                                         *)
(* ClientOperation as the part of MCSpec: what ClientOperation_Proofs      *)
(* proves of the operations on a connection.                               *)
(***************************************************************************)
EXTENDS ClientTables_Proofs, TransferTimeout

----------------------------------------------------------------------------
(* ConnectionControl.                                                      *)

\* Where a thread holds the mutex.
Section == {"environment", "client", "free", "count", "forget"}
Places == Section \cup {"idle", "connect", "release", "status", "message"}

ControlTypes ==
  /\ ccCount \in Nat
  /\ ccEnv \in Installed \cup {NULL}
  /\ loads \in [Installed -> Nat]
  /\ table \in [Installed -> {"backend", "cmciRelease"}]
  /\ pc \in [Threads -> Places]
  /\ asked \in [Threads -> Schemes \cup {NULL}]
  /\ failed \in [Threads -> BOOLEAN]
  /\ client \in [Threads -> Installed \cup {NULL}]
  /\ own \in {NULL, {}} \cup {{s} : s \in Installed}
  /\ wanted \in SUBSET Schemes

\* The mutex keeps two threads from being inside at once.
MutualExclusion == \A t \in Threads : pc[t] \in Section => ccMux = t

\* A thread that is about to connect its client has been counted, and one
\* that forgets the environment was the last.
CountedInside ==
  \A t \in Threads :
    /\ pc[t] = "client" => ccCount > 0
    /\ pc[t] = "forget" => ccCount = 0

\* What is left of an environment between the release of the last client and
\* the next connection.
NothingLeft ==
  ccCount = 0 /\ (\A t \in Threads : pc[t] # "forget") => ccEnv = NULL /\ ccRelease = NULL

Shared(s) == IF ccCount > 0 /\ ccEnv = s THEN 1 ELSE 0
OfTheProgram(s) == IF own # NULL /\ s \in own THEN 1 ELSE 0

\* A library is open once for the environment that is counted, and once for the
\* program's own.
OpenOnce ==
  /\ ccCount > 0 => ccEnv \in Installed /\ ~freed
  /\ \A s \in Installed : loads[s] = Shared(s) + OfTheProgram(s)

ControlInv == ControlTypes /\ MutualExclusion /\ CountedInside /\ NothingLeft /\ OpenOnce

LEMMA ControlInvInit == Init => ControlInv
  BY NullAssumption
     DEF Init, ControlInv, ControlTypes, Section, Places, MutualExclusion, CountedInside,
         NothingLeft, OpenOnce, Shared, OfTheProgram

----------------------------------------------------------------------------
(* A step that leaves the count, the environment and the libraries alone   *)
(* and brings one thread from a place to another keeps the invariant, if   *)
(* the thread enters the section by the mutex or leaves it with it.        *)

Move(t, place) ==
  /\ Goto(t, place)
  /\ UNCHANGED <<control, library, program>>
  /\ pc[t] # "forget" /\ place # "forget"
  /\ place = "client" => ccCount > 0
  /\ \/ Lock(t)
     \/ Unlock(t) /\ pc[t] \in Section /\ place \notin Section
     \/ UNCHANGED ccMux /\ (place \in Section => pc[t] \in Section)

\* The types of what a thread keeps for itself.
LocalTypes ==
  /\ asked \in [Threads -> Schemes \cup {NULL}]
  /\ failed \in [Threads -> BOOLEAN]
  /\ client \in [Threads -> Installed \cup {NULL}]

LEMMA MoveKeepsInv ==
  ASSUME ControlInv, NEW t \in Threads, NEW place \in Places, Move(t, place), LocalTypes'
  PROVE  ControlInv'
<1> USE DEF ControlInv, Move, Goto, control, library, program
<1>1. ControlTypes'
  BY DEF ControlTypes, LocalTypes
<1>2. MutualExclusion'
  BY NullAssumption DEF ControlTypes, MutualExclusion, Lock, Unlock
<1>3. CountedInside'
  BY DEF ControlTypes, CountedInside
<1>4. NothingLeft'
  BY DEF ControlTypes, NothingLeft
<1>5. OpenOnce'
  BY DEF OpenOnce, Shared, OfTheProgram
<1> QED
  BY <1>1, <1>2, <1>3, <1>4, <1>5

\* A thread inside the section is the only one there.
LEMMA Alone ==
  ASSUME ControlInv, NEW t \in Threads, pc[t] \in Section,
         NEW u \in Threads, pc[u] \in Section
  PROVE  u = t
BY DEF ControlInv, MutualExclusion

LEMMA ConnectKeepsInv ==
  ASSUME ControlInv, NEW t \in Threads, Connect(t)
  PROVE  ControlInv'
<1> USE DEF Section
<1>1. ASSUME NEW s \in wanted, cmciConnect(t, s)
      PROVE  ControlInv'
  <2>1. LocalTypes'
    BY <1>1 DEF cmciConnect, ControlInv, ControlTypes, LocalTypes
  <2>2. Move(t, "connect")
    BY <1>1 DEF cmciConnect, Move
  <2> QED
    BY <2>1, <2>2, MoveKeepsInv DEF Places
<1>2. CASE ConnectLocks(t)
  <2>1. LocalTypes' /\ Move(t, "environment")
    BY <1>2 DEF ConnectLocks, Move, locals, ControlInv, ControlTypes, LocalTypes
  <2> QED
    BY <2>1, MoveKeepsInv DEF Places
<1>3. CASE TakeEnvironment(t)
  <2>1. \A u \in Threads : pc[u] # "forget"
    BY <1>3, Alone DEF TakeEnvironment
  <2>2. /\ ccCount > 0 /\ ccCount' = ccCount + 1
        /\ pc[t] = "environment" /\ pc' = [pc EXCEPT ![t] = "client"]
        /\ UNCHANGED <<ccMux, ccEnv, ccRelease, freed, loads, table, asked, failed, client, own,
                       wanted>>
    BY <1>3 DEF TakeEnvironment, Goto, library, locals, program
  <2>3. ControlTypes' /\ MutualExclusion'
    BY <2>2 DEF ControlInv, ControlTypes, Places, MutualExclusion
  <2>4. CountedInside' /\ NothingLeft' /\ OpenOnce'
    BY <2>1, <2>2
       DEF ControlInv, ControlTypes, CountedInside, NothingLeft, OpenOnce, Shared, OfTheProgram
  <2> QED
    BY <2>3, <2>4 DEF ControlInv
<1>4. CASE NewCIMCEnv(t)
  <2>1. \A u \in Threads : u # t => pc[u] \notin Section
    BY <1>4, Alone DEF NewCIMCEnv
  <2>2. /\ ccCount = 0 /\ ccCount' = 1 /\ freed' = FALSE
        /\ asked[t] \in Installed /\ ccEnv' = asked[t]
        /\ pc[t] = "environment" /\ pc' = [pc EXCEPT ![t] = "client"]
        /\ UNCHANGED <<ccMux, ccRelease, asked, failed, client, own, wanted>>
    BY <1>4 DEF NewCIMCEnv, Goto, locals, program
  <2>3. loads' = [loads EXCEPT ![asked[t]] = @ + 1]
    BY <1>4 DEF NewCIMCEnv, Opened
  <2>4. table' \in [Installed -> {"backend", "cmciRelease"}]
    BY <1>4 DEF NewCIMCEnv, Opened, ControlInv, ControlTypes
  <2>5. ControlTypes'
    <3>1. loads' \in [Installed -> Nat]
      BY <2>2, <2>3 DEF ControlInv, ControlTypes
    <3> QED
      BY <2>2, <2>4, <3>1 DEF ControlInv, ControlTypes, Places
  <2>6. MutualExclusion' /\ CountedInside'
    BY <2>1, <2>2 DEF ControlInv, ControlTypes, MutualExclusion, CountedInside
  <2>7. OpenOnce'
    <3>1. \A s \in Installed : Shared(s) = 0 /\ Shared(s)' = IF s = asked[t] THEN 1 ELSE 0
      BY <2>2 DEF Shared
    <3>2. \A s \in Installed : OfTheProgram(s)' = OfTheProgram(s) /\ OfTheProgram(s) \in Nat
      BY <2>2 DEF OfTheProgram
    <3> QED
      BY <2>2, <2>3, <3>1, <3>2 DEF ControlInv, ControlTypes, OpenOnce
  <2>8. NothingLeft'
    BY <2>2 DEF NothingLeft
  <2> QED
    BY <2>5, <2>6, <2>7, <2>8 DEF ControlInv
<1>5. CASE NewCIMCEnvFails(t)
  <2>1. \A u \in Threads : u # t => pc[u] \notin Section
    BY <1>5, Alone DEF NewCIMCEnvFails
  <2>2. /\ ccCount = 0 /\ ccEnv' = NULL /\ failed' = [failed EXCEPT ![t] = TRUE]
        /\ pc[t] = "environment" /\ pc' = [pc EXCEPT ![t] = "release"]
        /\ UNCHANGED <<ccCount, ccRelease, freed, loads, table, asked, client, own, wanted>>
    BY <1>5 DEF NewCIMCEnvFails, Goto, library, program
  <2>3. ControlTypes'
    BY <2>2 DEF ControlInv, ControlTypes, Places
  <2>4. MutualExclusion' /\ CountedInside' /\ NothingLeft'
    BY <2>1, <2>2 DEF ControlInv, ControlTypes, MutualExclusion, CountedInside, NothingLeft
  <2>5. OpenOnce'
    BY <2>2 DEF ControlInv, OpenOnce, Shared, OfTheProgram
  <2> QED
    BY <2>3, <2>4, <2>5 DEF ControlInv
<1>6. CASE Connect2(t)
  <2>1. \A u \in Threads : u # t => pc[u] \notin Section
    BY <1>6, Alone DEF Connect2
  <2>2. ccCount > 0 /\ ccEnv \in Installed
    BY <1>6 DEF Connect2, ControlInv, CountedInside, OpenOnce
  <2>3. /\ pc[t] = "client" /\ pc' = [pc EXCEPT ![t] = "idle"]
        /\ table' = [table EXCEPT ![ccEnv] = "cmciRelease"]
        /\ client' = [client EXCEPT ![t] = ccEnv]
        /\ UNCHANGED <<ccCount, ccEnv, freed, loads, asked, failed, own, wanted>>
    BY <1>6 DEF Connect2, Goto, locals, program
  <2>4. ControlTypes'
    BY <2>2, <2>3 DEF ControlInv, ControlTypes, Places
  <2>5. MutualExclusion' /\ CountedInside' /\ NothingLeft'
    BY <2>1, <2>2, <2>3 DEF ControlInv, ControlTypes, MutualExclusion, CountedInside, NothingLeft
  <2>6. OpenOnce'
    BY <2>3 DEF ControlInv, OpenOnce, Shared, OfTheProgram
  <2> QED
    BY <2>4, <2>5, <2>6 DEF ControlInv
<1>7. CASE Connect2Refuses(t)
  <2>1. LocalTypes' /\ Move(t, "release")
    BY <1>7 DEF Connect2Refuses, AfterRefusal, Move, ControlInv, ControlTypes, LocalTypes
  <2> QED
    BY <2>1, MoveKeepsInv DEF Places
<1>8. CASE Status(t)
  <2>1. PICK place \in {"message", "idle"} : Move(t, place)
    BY <1>8 DEF Status, Move
  <2>2. LocalTypes'
    BY <1>8 DEF Status, locals, ControlInv, ControlTypes, LocalTypes
  <2> QED
    BY <2>1, <2>2, MoveKeepsInv DEF Places
<1>9. CASE Message(t)
  <2>1. LocalTypes' /\ Move(t, "idle")
    BY <1>9 DEF Message, Move, locals, ControlInv, ControlTypes, LocalTypes
  <2> QED
    BY <2>1, MoveKeepsInv DEF Places
<1> QED
  BY <1>1, <1>2, <1>3, <1>4, <1>5, <1>6, <1>7, <1>8, <1>9 DEF Connect

LEMMA ReleaseKeepsInv ==
  ASSUME ControlInv, NEW t \in Threads, Release(t)
  PROVE  ControlInv'
<1> USE DEF Section
<1>1. CASE CMRelease(t)
  <2>1. LocalTypes'
    BY <1>1 DEF CMRelease, ControlInv, ControlTypes, LocalTypes
  <2>2. CASE Goto(t, "release")
    <3>1. Move(t, "release")
      BY <1>1, <2>2 DEF CMRelease, Move
    <3> QED
      BY <2>1, <3>1, MoveKeepsInv DEF Places
  <2>3. CASE UNCHANGED pc
    <3>1. UNCHANGED <<ccMux, control, library, pc, program>>
      BY <1>1, <2>3 DEF CMRelease
    <3> QED
      BY <2>1, <3>1
         DEF control, library, program, LocalTypes, ControlInv, ControlTypes, MutualExclusion,
             CountedInside, NothingLeft, OpenOnce, Shared, OfTheProgram
  <2> QED
    BY <1>1, <2>2, <2>3 DEF CMRelease
<1>2. CASE ReleaseLocks(t)
  <2>1. PICK place \in {"count", "free"} : Move(t, place)
    BY <1>2 DEF ReleaseLocks, Move
  <2>2. LocalTypes'
    BY <1>2 DEF ReleaseLocks, locals, ControlInv, ControlTypes, LocalTypes
  <2> QED
    BY <2>1, <2>2, MoveKeepsInv DEF Places
<1>3. CASE ReleaseClient(t)
  <2>1. LocalTypes' /\ Move(t, "count")
    BY <1>3 DEF ReleaseClient, Move, locals, ControlInv, ControlTypes, LocalTypes
  <2> QED
    BY <2>1, MoveKeepsInv DEF Places
<1>4. CASE ReleasesItself(t)
  <2>1. LocalTypes' /\ Move(t, "release")
    BY <1>4 DEF ReleasesItself, Move, locals, ControlInv, ControlTypes, LocalTypes
  <2> QED
    BY <2>1, MoveKeepsInv DEF Places
<1>5. CASE NothingNoted(t)
  BY <1>5
     DEF NothingNoted, control, library, locals, program, ControlInv, ControlTypes,
         MutualExclusion, CountedInside, NothingLeft, OpenOnce, Shared, OfTheProgram
<1>6. CASE Uncount(t)
  <2>1. \A u \in Threads : u # t => pc[u] \notin Section
    BY <1>6, Alone DEF Uncount
  <2>2. PICK place \in {"status", "idle"} : pc' = [pc EXCEPT ![t] = place]
    BY <1>6 DEF Uncount, Goto, Left
  <2>3. /\ ccCount' \in Nat
        /\ ccCount' > 0 <=> ccCount > 0
        /\ pc[t] = "count"
        /\ UNCHANGED <<ccEnv, ccRelease, freed, loads, table, asked, failed, client, own, wanted>>
    BY <1>6 DEF Uncount, library, locals, program, ControlInv, ControlTypes
  <2>4. ControlTypes' /\ MutualExclusion' /\ CountedInside'
    BY <2>1, <2>2, <2>3 DEF ControlInv, ControlTypes, Places, MutualExclusion, CountedInside
  <2>5. NothingLeft'
    BY <2>1, <2>2, <2>3 DEF ControlInv, ControlTypes, NothingLeft
  <2>6. OpenOnce'
    BY <2>3 DEF ControlInv, OpenOnce, Shared, OfTheProgram
  <2> QED
    BY <2>4, <2>5, <2>6 DEF ControlInv
<1>7. CASE ReleaseCIMCEnv(t)
  <2>1. \A u \in Threads : u # t => pc[u] \notin Section
    BY <1>7, Alone DEF ReleaseCIMCEnv
  <2>2. /\ ccCount = 1 /\ ccCount' = 0 /\ ccEnv \in Installed
        /\ pc[t] = "count" /\ pc' = [pc EXCEPT ![t] = "forget"]
        /\ loads' = [loads EXCEPT ![ccEnv] = @ - 1]
        /\ UNCHANGED <<ccMux, ccEnv, ccRelease, table, asked, failed, client, own, wanted>>
    BY <1>7 DEF ReleaseCIMCEnv, Closed, Goto, locals, program, ControlInv, OpenOnce
  <2>3. \A s \in Installed : Shared(s) = (IF s = ccEnv THEN 1 ELSE 0) /\ Shared(s)' = 0
    BY <2>2 DEF Shared
  <2>4. \A s \in Installed : OfTheProgram(s)' = OfTheProgram(s) /\ OfTheProgram(s) \in Nat
    BY <2>2 DEF OfTheProgram
  <2>5. /\ loads' \in [Installed -> Nat]
        /\ \A s \in Installed : loads'[s] = Shared(s)' + OfTheProgram(s)'
    BY <2>2, <2>3, <2>4 DEF ControlInv, ControlTypes, OpenOnce
  <2>6. ControlTypes' /\ OpenOnce'
    BY <2>2, <2>5 DEF ControlInv, ControlTypes, Places, OpenOnce
  <2>7. MutualExclusion' /\ CountedInside' /\ NothingLeft'
    BY <2>1, <2>2 DEF ControlInv, ControlTypes, MutualExclusion, CountedInside, NothingLeft
  <2> QED
    BY <2>6, <2>7 DEF ControlInv
<1>8. CASE ForgetEnvironment(t)
  <2>1. \A u \in Threads : u # t => pc[u] \notin Section
    BY <1>8, Alone DEF ForgetEnvironment
  <2>2. PICK place \in {"status", "idle"} : pc' = [pc EXCEPT ![t] = place]
    BY <1>8 DEF ForgetEnvironment, Goto, Left
  <2>3. /\ ccCount = 0 /\ ccCount' = 0 /\ ccEnv' = NULL /\ ccRelease' = NULL
        /\ UNCHANGED <<freed, loads, table, asked, failed, client, own, wanted>>
    BY <1>8 DEF ForgetEnvironment, library, locals, program, ControlInv, CountedInside
  <2>4. ControlTypes' /\ MutualExclusion'
    BY <2>1, <2>2, <2>3 DEF ControlInv, ControlTypes, Places, MutualExclusion
  <2>5. CountedInside' /\ NothingLeft' /\ OpenOnce'
    BY <2>1, <2>2, <2>3
       DEF ControlInv, ControlTypes, CountedInside, NothingLeft, OpenOnce, Shared, OfTheProgram
  <2> QED
    BY <2>4, <2>5 DEF ControlInv
<1> QED
  BY <1>1, <1>2, <1>3, <1>4, <1>5, <1>6, <1>7, <1>8 DEF Release

\* The program's own environment adds one to the library it opens.
LEMMA OwnKeepsInv ==
  ASSUME ControlInv, NEW s \in Installed, own # NULL,
         OwnEnvironment(s) \/ ReleaseOwnEnvironment(s)
  PROVE  ControlInv'
<1>1. UNCHANGED <<ccMux, ccCount, ccEnv, ccRelease, freed, pc, asked, failed, client, wanted>>
  BY DEF OwnEnvironment, ReleaseOwnEnvironment, control, locals
<1>2. table' \in [Installed -> {"backend", "cmciRelease"}]
  BY DEF OwnEnvironment, ReleaseOwnEnvironment, Opened, Closed, ControlInv, ControlTypes
<1>3. \A r \in Installed : Shared(r)' = Shared(r) /\ Shared(r) \in Nat
  BY <1>1 DEF Shared
<1>4. own' \in {{}} \cup {{r} : r \in Installed}
  BY DEF OwnEnvironment, ReleaseOwnEnvironment
<1>5. /\ loads' \in [Installed -> Nat]
      /\ \A r \in Installed : loads'[r] = Shared(r)' + OfTheProgram(r)'
  <2>1. CASE OwnEnvironment(s)
    <3>1. \A r \in Installed : OfTheProgram(r) = 0 /\ OfTheProgram(r)' = IF r = s THEN 1 ELSE 0
      BY <1>4, <2>1, NullAssumption DEF OwnEnvironment, OfTheProgram
    <3>2. loads' = [loads EXCEPT ![s] = @ + 1]
      BY <2>1 DEF OwnEnvironment, Opened
    <3> QED
      BY <1>3, <3>1, <3>2 DEF ControlInv, ControlTypes, OpenOnce
  <2>2. CASE ReleaseOwnEnvironment(s)
    <3>1. own = {s}
      BY <2>2 DEF ReleaseOwnEnvironment, ControlInv, ControlTypes
    <3>2. loads' = [loads EXCEPT ![s] = @ - 1] /\ own' = {}
      BY <2>2 DEF ReleaseOwnEnvironment, Closed
    <3>3. \A r \in Installed : OfTheProgram(r)' = 0 /\ OfTheProgram(r) = IF r = s THEN 1 ELSE 0
      BY <3>1, <3>2 DEF OfTheProgram
    <3> QED
      BY <1>3, <3>2, <3>3 DEF ControlInv, ControlTypes, OpenOnce
  <2> QED
    BY <2>1, <2>2
<1>6. ControlTypes' /\ OpenOnce'
  BY <1>1, <1>2, <1>4, <1>5 DEF ControlInv, ControlTypes, OpenOnce
<1>7. MutualExclusion' /\ CountedInside' /\ NothingLeft'
  BY <1>1 DEF ControlInv, MutualExclusion, CountedInside, NothingLeft
<1> QED
  BY <1>6, <1>7 DEF ControlInv

LEMMA ControlInvStep == ControlInv /\ [Next]_vars => ControlInv'
<1> SUFFICES ASSUME ControlInv, [Next]_vars
             PROVE  ControlInv'
  OBVIOUS
<1>1. CASE UNCHANGED vars
  BY <1>1
     DEF vars, control, library, locals, program, ControlInv, ControlTypes, MutualExclusion,
         CountedInside, NothingLeft, OpenOnce, Shared, OfTheProgram
<1> QED
  BY <1>1, ConnectKeepsInv, ReleaseKeepsInv, OwnKeepsInv DEF Next


----------------------------------------------------------------------------
(* The noted function.                                                     *)

\* In a program without an environment of its own the table of the library is
\* fresh until the function in it is noted.
NotedInv ==
  own = NULL =>
    /\ ccRelease \in {NULL, "backend"}
    /\ ccCount > 0 /\ ccRelease = NULL => table[ccEnv] = "backend"

LEMMA NotedInvStep == ControlInv /\ NotedInv /\ [Next]_vars => NotedInv'
<1> SUFFICES ASSUME ControlInv, NotedInv, [Next]_vars, own' = NULL
             PROVE  NotedInv'
  BY DEF NotedInv
<1> USE DEF NotedInv
<1>1. ASSUME NEW t \in Threads, NewCIMCEnv(t)
      PROVE  NotedInv'
  <2>1. \A u \in Threads : pc[u] # "forget"
    BY <1>1, Alone DEF NewCIMCEnv, Section
  <2>2. own = NULL /\ ccRelease = NULL /\ ccCount = 0
    BY <1>1, <2>1 DEF NewCIMCEnv, program, ControlInv, NothingLeft
  <2>3. asked[t] \in Installed /\ ccEnv' = asked[t] /\ ccRelease' = NULL
    BY <1>1, <2>2 DEF NewCIMCEnv
  <2>4. loads[asked[t]] = 0
    BY <2>2, <2>3 DEF ControlInv, OpenOnce, Shared, OfTheProgram
  <2>5. table' = [table EXCEPT ![asked[t]] = "backend"]
    BY <1>1, <2>4 DEF NewCIMCEnv, Opened
  <2> QED
    BY <2>2, <2>3, <2>5 DEF ControlInv, ControlTypes
<1>2. ASSUME NEW t \in Threads, Connect2(t)
      PROVE  NotedInv'
  <2>1. own = NULL /\ ccCount > 0
    BY <1>2 DEF Connect2, program, ControlInv, CountedInside
  <2> QED
    BY <1>2, <2>1, NullAssumption DEF Connect2, Noted
<1>3. ASSUME NEW t \in Threads, Uncount(t)
      PROVE  NotedInv'
  BY <1>3 DEF Uncount, library, program, ControlInv, ControlTypes
<1>4. ASSUME NEW t \in Threads, ReleaseCIMCEnv(t)
      PROVE  NotedInv'
  BY <1>4 DEF ReleaseCIMCEnv, program
<1>5. ASSUME NEW t \in Threads, ForgetEnvironment(t)
      PROVE  NotedInv'
  BY <1>5 DEF ForgetEnvironment, program, ControlInv, CountedInside
<1>6. ASSUME NEW t \in Threads,
             \/ \E s \in wanted : cmciConnect(t, s)
             \/ ConnectLocks(t) \/ TakeEnvironment(t) \/ NewCIMCEnvFails(t)
             \/ Connect2Refuses(t) \/ Status(t) \/ Message(t)
             \/ CMRelease(t) \/ ReleaseLocks(t) \/ ReleaseClient(t)
             \/ ReleasesItself(t) \/ NothingNoted(t)
      PROVE  NotedInv'
  <2>1. /\ UNCHANGED <<ccRelease, table, own>>
        /\ ccCount' > 0 => ccCount > 0 /\ ccEnv' = ccEnv
    BY <1>6
       DEF cmciConnect, ConnectLocks, TakeEnvironment, NewCIMCEnvFails, Connect2Refuses, Status,
           Message, CMRelease, ReleaseLocks, ReleaseClient, ReleasesItself, NothingNoted,
           control, library, program
  <2> QED
    BY <2>1
<1>7. ASSUME NEW s \in Installed, OwnEnvironment(s) \/ ReleaseOwnEnvironment(s)
      PROVE  FALSE
  BY <1>7, NullAssumption DEF OwnEnvironment, ReleaseOwnEnvironment
<1>8. CASE UNCHANGED vars
  BY <1>8 DEF vars, control, library, program
<1> QED
  BY <1>1, <1>2, <1>3, <1>4, <1>5, <1>6, <1>7, <1>8 DEF Next, Connect, Release

\* The function noted for the release of a client is the backend's, never
\* cmciRelease itself, which would wait for the mutex its caller holds
\* (sfcclient.c, lines 46-64 and 113-115).
THEOREM ReleaseNeverWaitsForItself == Spec => []ReleaseIsTheBackends
<1>1. Init => ControlInv /\ NotedInv
  BY ControlInvInit DEF Init, NotedInv
<1>2. ControlInv /\ NotedInv /\ [Next]_vars => (ControlInv /\ NotedInv)'
  BY ControlInvStep, NotedInvStep
<1>3. ControlInv /\ NotedInv => ReleaseIsTheBackends
  BY NullAssumption DEF NotedInv, ReleaseIsTheBackends
<1> QED
  BY <1>1, <1>2, <1>3, PTL DEF Spec

----------------------------------------------------------------------------
(* The count.                                                              *)

\* Who has a client, is about to get one, or will take a count back.
Counted ==
  {t \in Threads :
     \/ client[t] # NULL
     \/ pc[t] \in {"client", "count"}
     \/ pc[t] = "release" /\ failed[t]}

\* Where a thread has a client.
ClientPlaces ==
  \A t \in Threads :
    /\ pc[t] \in {"connect", "environment", "client", "count"} => client[t] = NULL
    /\ pc[t] = "release" /\ failed[t] => client[t] = NULL
    /\ pc[t] = "release" /\ ~failed[t] => client[t] # NULL
    /\ pc[t] = "free" => client[t] # NULL /\ ~failed[t]

\* How a step changes who is counted.
Keeps == Counted' = Counted /\ ccCount' = ccCount
Adds(t) ==
  /\ t \notin Counted /\ Counted' = Counted \cup {t}
  /\ \/ ccCount' = ccCount + 1
     \/ pc[t] = "environment" /\ asked[t] \notin Installed /\ ccCount' = ccCount
Takes(t) ==
  /\ t \in Counted /\ Counted' = Counted \ {t}
  /\ ccCount' = IF ccCount > 0 THEN ccCount - 1 ELSE 0

LEMMA CountStep ==
  ASSUME ControlInv, ClientPlaces, NEW t \in Threads, Connect(t) \/ Release(t)
  PROVE  ClientPlaces' /\ (Keeps \/ Adds(t) \/ Takes(t))
<1> USE DEF ControlInv, ControlTypes, Goto, control, library, program, locals
<1>1. ASSUME NEW s \in wanted, cmciConnect(t, s)
      PROVE  ClientPlaces' /\ Keeps
  BY <1>1 DEF cmciConnect, ClientPlaces, Keeps, Counted
<1>2. CASE ConnectLocks(t)
  BY <1>2 DEF ConnectLocks, ClientPlaces, Keeps, Counted
<1>3. CASE TakeEnvironment(t)
  BY <1>3 DEF TakeEnvironment, ClientPlaces, Adds, Counted
<1>4. CASE NewCIMCEnv(t)
  BY <1>4 DEF NewCIMCEnv, ClientPlaces, Adds, Counted
<1>5. CASE NewCIMCEnvFails(t)
  BY <1>5 DEF NewCIMCEnvFails, ClientPlaces, Adds, Counted
<1>6. CASE Connect2(t)
  <2>1. ccEnv \in Installed
    BY <1>6 DEF Connect2, CountedInside, OpenOnce
  <2> QED
    BY <1>6, <2>1, NullAssumption DEF Connect2, ClientPlaces, Keeps, Counted
<1>7. CASE Connect2Refuses(t)
  BY <1>7 DEF Connect2Refuses, AfterRefusal, ClientPlaces, Keeps, Counted
<1>8. CASE Status(t)
  BY <1>8 DEF Status, ClientPlaces, Keeps, Counted
<1>9. CASE Message(t)
  BY <1>9 DEF Message, ClientPlaces, Keeps, Counted
<1>10. CASE CMRelease(t)
  BY <1>10 DEF CMRelease, ClientPlaces, Keeps, Counted
<1>11. CASE ReleaseLocks(t)
  BY <1>11 DEF ReleaseLocks, ClientPlaces, Keeps, Counted
<1>12. CASE ReleaseClient(t)
  BY <1>12 DEF ReleaseClient, ClientPlaces, Keeps, Counted
<1>13. CASE ReleasesItself(t)
  BY <1>13 DEF ReleasesItself, ClientPlaces, Keeps, Counted
<1>14. CASE NothingNoted(t)
  BY <1>14 DEF NothingNoted, ClientPlaces, Keeps, Counted
<1>15. CASE Uncount(t)
  BY <1>15 DEF Uncount, Left, ClientPlaces, Takes, Counted
<1>16. CASE ReleaseCIMCEnv(t)
  BY <1>16 DEF ReleaseCIMCEnv, ClientPlaces, Takes, Counted
<1>17. CASE ForgetEnvironment(t)
  BY <1>17 DEF ForgetEnvironment, Left, CountedInside, ClientPlaces, Keeps, Counted
<1> QED
  BY <1>1, <1>2, <1>3, <1>4, <1>5, <1>6, <1>7, <1>8, <1>9, <1>10, <1>11, <1>12, <1>13, <1>14,
     <1>15, <1>16, <1>17 DEF Connect, Release

\* A step of the program's own environment, or none, counts nobody.
LEMMA OtherStep ==
  ASSUME ClientPlaces,
         \/ \E s \in Installed : OwnEnvironment(s) \/ ReleaseOwnEnvironment(s)
         \/ UNCHANGED vars
  PROVE  ClientPlaces' /\ Keeps
BY DEF OwnEnvironment, ReleaseOwnEnvironment, vars, control, locals, ClientPlaces, Keeps, Counted

LEMMA CountedFinite == IsFiniteSet(Counted) /\ IsFiniteSet(Counted')
<1>1. Counted \in SUBSET Threads /\ Counted' \in SUBSET Threads
  BY DEF Counted
<1> QED
  BY <1>1, FS_Subset, ThreadsAssumption

\* No more are counted than there are.  There may be fewer: a connection that
\* failed before it was counted takes back a count as well.
CountInv == ControlInv /\ ClientPlaces /\ ccCount <= Cardinality(Counted)

LEMMA CountInvInit == Init => CountInv
<1> SUFFICES ASSUME Init
             PROVE  CountInv
  OBVIOUS
<1>1. ControlInv
  BY ControlInvInit
<1>2. ClientPlaces /\ Counted = {} /\ ccCount = 0
  BY DEF Init, ClientPlaces, Counted
<1> QED
  BY <1>1, <1>2, FS_EmptySet DEF CountInv

LEMMA CountInvStep == CountInv /\ [Next]_vars => CountInv'
<1> SUFFICES ASSUME CountInv, [Next]_vars
             PROVE  CountInv'
  OBVIOUS
<1>1. ControlInv'
  BY ControlInvStep DEF CountInv
<1>2. ccCount \in Nat /\ Cardinality(Counted) \in Nat
  BY CountedFinite, FS_CardinalityType DEF CountInv, ControlInv, ControlTypes
<1>3. CASE Keeps /\ ClientPlaces'
  BY <1>1, <1>3 DEF CountInv, Keeps
<1>4. ASSUME NEW t \in Threads, Adds(t), ClientPlaces'
      PROVE  CountInv'
  <2>1. Cardinality(Counted') = Cardinality(Counted) + 1
    BY <1>4, CountedFinite, FS_AddElement DEF Adds
  <2> QED
    BY <1>1, <1>2, <1>4, <2>1 DEF CountInv, Adds
<1>5. ASSUME NEW t \in Threads, Takes(t), ClientPlaces'
      PROVE  CountInv'
  <2>1. Cardinality(Counted') = Cardinality(Counted) - 1
    BY <1>5, CountedFinite, FS_RemoveElement DEF Takes
  <2>2. Cardinality(Counted') \in Nat
    BY CountedFinite, FS_CardinalityType
  <2> QED
    BY <1>1, <1>2, <1>5, <2>1, <2>2 DEF CountInv, Takes
<1> QED
  BY <1>3, <1>4, <1>5, CountStep, OtherStep DEF CountInv, Next

\* What is shared goes with the last client (sfcclient.c, lines 53-62, and
\* cimcclient.c, lines 97-113): however many connections failed on the way, no
\* environment is kept, and no library is open but the program's own.
THEOREM NothingIsKept == Spec => []NothingKept
<1>1. CountInv => NothingKept
  <2> SUFFICES ASSUME CountInv
               PROVE  NothingKept
    OBVIOUS
  <2> USE DEF CountInv, ControlInv
  <2>1. ASSUME Calling = {}, Clients = {}
        PROVE  ccEnv = NULL /\ ccCount = 0
    <3>1. \A t \in Threads : pc[t] = "idle" /\ client[t] = NULL
      BY <2>1 DEF Calling, Clients
    <3>2. Counted = {}
      BY <3>1 DEF Counted
    <3>3. ccCount = 0
      BY <3>2, FS_EmptySet DEF ControlTypes
    <3> QED
      BY <3>1, <3>3 DEF NothingLeft
  <2>2. ASSUME ccMux = NULL, NEW s \in Installed
        PROVE  loads[s] = Cardinality({e \in {ccEnv} : e = s}) +
                          (IF own = NULL THEN 0 ELSE Cardinality(own \cap {s}))
    <3>1. ccCount = 0 => ccEnv = NULL
      BY <2>2, NullAssumption DEF MutualExclusion, NothingLeft, Section
    <3>2. Shared(s) = Cardinality({e \in {ccEnv} : e = s})
      <4>1. CASE ccEnv = s
        <5>1. {e \in {ccEnv} : e = s} = {s}
          BY <4>1
        <5>2. Shared(s) = 1
          BY <3>1, <4>1, NullAssumption DEF Shared, ControlTypes
        <5> QED
          BY <5>1, <5>2, FS_Singleton
      <4>2. CASE ccEnv # s
        <5>1. {e \in {ccEnv} : e = s} = {}
          BY <4>2
        <5> QED
          BY <4>2, <5>1, FS_EmptySet DEF Shared
      <4> QED
        BY <4>1, <4>2
    <3>3. OfTheProgram(s) = IF own = NULL THEN 0 ELSE Cardinality(own \cap {s})
      <4>1. CASE own # NULL /\ s \in own
        <5>1. own \cap {s} = {s}
          BY <4>1
        <5> QED
          BY <4>1, <5>1, FS_Singleton DEF OfTheProgram
      <4>2. CASE own # NULL /\ s \notin own
        <5>1. own \cap {s} = {}
          BY <4>2
        <5> QED
          BY <4>2, <5>1, FS_EmptySet DEF OfTheProgram
      <4> QED
        BY <4>1, <4>2 DEF OfTheProgram
    <3> QED
      BY <3>2, <3>3 DEF OpenOnce
  <2> QED
    BY <2>1, <2>2 DEF NothingKept
<1> QED
  BY <1>1, CountInvInit, CountInvStep, PTL DEF Spec

\* In a program that asks only for what is installed everybody who is counted
\* is, and a client is one of the environment that is shared.
KeepInv ==
  wanted \subseteq Installed =>
    /\ \A t \in Threads : pc[t] \in {"connect", "environment"} => asked[t] \in wanted
    /\ ccCount = Cardinality(Counted)
    /\ lost = {}
    /\ \A t \in Threads : client[t] # NULL => client[t] = ccEnv /\ ccRelease # NULL

\* While somebody has a client the environment is counted.
LEMMA ClientIsCounted ==
  ASSUME CountInv, KeepInv, wanted \subseteq Installed, NEW t \in Threads, client[t] # NULL
  PROVE  ccCount > 0
<1>1. Counted # {}
  BY DEF Counted
<1> QED
  BY <1>1, CountedFinite, FS_EmptySet DEF KeepInv, CountInv, ControlInv, ControlTypes

LEMMA KeepCountStep ==
  ASSUME CountInv, KeepInv, [Next]_vars, wanted \subseteq Installed
  PROVE  ccCount' = Cardinality(Counted')
<1> USE DEF CountInv, KeepInv
<1>1. ccCount \in Nat
  BY DEF ControlInv, ControlTypes
<1>2. CASE Keeps
  BY <1>2 DEF Keeps
<1>3. ASSUME NEW t \in Threads, Adds(t)
      PROVE  ccCount' = Cardinality(Counted')
  <2>1. Cardinality(Counted') = Cardinality(Counted) + 1
    BY <1>3, CountedFinite, FS_AddElement DEF Adds
  <2> QED
    BY <1>3, <2>1 DEF Adds
<1>4. ASSUME NEW t \in Threads, Takes(t)
      PROVE  ccCount' = Cardinality(Counted')
  <2>1. Cardinality(Counted') = Cardinality(Counted) - 1
    BY <1>4, CountedFinite, FS_RemoveElement DEF Takes
  <2>2. Cardinality(Counted') \in Nat
    BY CountedFinite, FS_CardinalityType
  <2> QED
    BY <1>1, <1>4, <2>1, <2>2 DEF Takes
<1> QED
  BY <1>2, <1>3, <1>4, CountStep, OtherStep DEF Next

LEMMA KeepInvStep == CountInv /\ KeepInv /\ [Next]_vars => KeepInv'
<1> SUFFICES ASSUME CountInv, KeepInv, [Next]_vars, wanted' \subseteq Installed
             PROVE  KeepInv'
  BY DEF KeepInv
<1>1. wanted' = wanted
  BY DEF Next, Connect, Release, cmciConnect, ConnectLocks, TakeEnvironment, NewCIMCEnv,
         NewCIMCEnvFails, Connect2, Connect2Refuses, Status, Message, CMRelease, ReleaseLocks,
         ReleaseClient, ReleasesItself, NothingNoted, Uncount, ReleaseCIMCEnv,
         ForgetEnvironment, OwnEnvironment, ReleaseOwnEnvironment, program, vars
<1>2. ccCount' = Cardinality(Counted')
  BY <1>1, KeepCountStep
<1> DEFINE
  Asked == \A t \in Threads : pc[t] \in {"connect", "environment"} => asked[t] \in wanted
  Theirs == \A t \in Threads : client[t] # NULL => client[t] = ccEnv /\ ccRelease # NULL
<1> SUFFICES Asked' /\ lost' = {} /\ Theirs'
  BY <1>2 DEF KeepInv
<1>3. Asked /\ lost = {} /\ Theirs
  BY <1>1 DEF KeepInv
<1>4. \A t \in Threads : client[t] # NULL => ccCount > 0
  BY <1>1, ClientIsCounted
<1>5. ControlInv
  BY DEF CountInv
<1> USE <1>1, <1>3, <1>5 DEF ControlInv, ControlTypes, Goto, control, library, program, locals
<1>6. ASSUME NEW t \in Threads, NEW s \in wanted, cmciConnect(t, s)
      PROVE  Asked' /\ lost' = {} /\ Theirs'
  BY <1>6 DEF cmciConnect
<1>7. ASSUME NEW t \in Threads,
             \/ ConnectLocks(t) \/ TakeEnvironment(t) \/ Connect2Refuses(t)
             \/ Status(t) \/ Message(t) \/ ReleaseLocks(t) \/ ReleasesItself(t)
             \/ NothingNoted(t)
      PROVE  Asked' /\ lost' = {} /\ Theirs'
  <2>1. /\ UNCHANGED <<ccEnv, ccRelease, asked, client, lost>>
        /\ \A u \in Threads : pc'[u] \in {"connect", "environment"} =>
                                pc[u] \in {"connect", "environment"}
    BY <1>7
       DEF ConnectLocks, TakeEnvironment, Connect2Refuses, AfterRefusal, Status, Message,
           ReleaseLocks, ReleasesItself, NothingNoted
  <2> QED
    BY <2>1
<1>8. ASSUME NEW t \in Threads, NewCIMCEnv(t)
      PROVE  Asked' /\ lost' = {} /\ Theirs'
  BY <1>4, <1>8 DEF NewCIMCEnv
<1>9. ASSUME NEW t \in Threads, NewCIMCEnvFails(t)
      PROVE  FALSE
  BY <1>9 DEF NewCIMCEnvFails
<1>10. ASSUME NEW t \in Threads, Connect2(t)
       PROVE  Asked' /\ lost' = {} /\ Theirs'
  <2>1. ccEnv \in Installed
    BY <1>10 DEF Connect2, CountedInside, OpenOnce
  <2>2. ccRelease' # NULL
    BY <1>10, <2>1, NullAssumption DEF Connect2, Noted
  <2> QED
    BY <1>10, <2>1, <2>2 DEF Connect2
<1>11. ASSUME NEW t \in Threads, CMRelease(t)
       PROVE  Asked' /\ lost' = {} /\ Theirs'
  BY <1>11 DEF CMRelease
<1>12. ASSUME NEW t \in Threads, ReleaseClient(t)
       PROVE  Asked' /\ lost' = {} /\ Theirs'
  BY <1>12 DEF ReleaseClient
<1>13. ASSUME NEW t \in Threads, Uncount(t)
       PROVE  Asked' /\ lost' = {} /\ Theirs'
  BY <1>13 DEF Uncount, Left
<1>14. ASSUME NEW t \in Threads, ReleaseCIMCEnv(t)
       PROVE  Asked' /\ lost' = {} /\ Theirs'
  <2>1. PICK x : Counted = {x}
    BY <1>14, CountedFinite, FS_Singleton DEF ReleaseCIMCEnv, KeepInv
  <2>2. t \in Counted /\ client[t] = NULL
    BY <1>14 DEF ReleaseCIMCEnv, Counted, CountInv, ClientPlaces
  <2>3. \A u \in Threads : client[u] = NULL
    BY <2>1, <2>2 DEF Counted
  <2>4. ccEnv \in Installed
    BY <1>14 DEF ReleaseCIMCEnv, OpenOnce
  <2> QED
    BY <1>14, <2>3, <2>4, NullAssumption DEF ReleaseCIMCEnv, Closed
<1>15. ASSUME NEW t \in Threads, ForgetEnvironment(t)
       PROVE  Asked' /\ lost' = {} /\ Theirs'
  <2>1. \A u \in Threads : client[u] = NULL
    BY <1>4, <1>15 DEF ForgetEnvironment, CountedInside
  <2> QED
    BY <1>15, <2>1 DEF ForgetEnvironment, Left
<1>16. ASSUME NEW s \in Installed, OwnEnvironment(s)
       PROVE  Asked' /\ lost' = {} /\ Theirs'
  BY <1>16 DEF OwnEnvironment
<1>17. ASSUME NEW s \in Installed, own # NULL, ReleaseOwnEnvironment(s)
       PROVE  Asked' /\ lost' = {} /\ Theirs'
  <2>1. {t \in Threads : client[t] = s} = {} \/ loads[s] = 2
    <3>1. SUFFICES ASSUME NEW t \in Threads, client[t] = s
                   PROVE  loads[s] = 2
      OBVIOUS
    <3>2. ccCount > 0 /\ ccEnv = s
      BY <1>4, <3>1, NullAssumption
    <3> QED
      BY <1>17, <3>2 DEF ReleaseOwnEnvironment, OpenOnce, Shared, OfTheProgram
  <2>2. lost' = {}
    BY <1>17, <2>1 DEF ReleaseOwnEnvironment, Closed
  <2> QED
    BY <1>17, <2>2 DEF ReleaseOwnEnvironment
<1>18. CASE UNCHANGED vars
  BY <1>18 DEF vars
<1> QED
  BY <1>6, <1>7, <1>8, <1>9, <1>10, <1>11, <1>12, <1>13, <1>14, <1>15, <1>16, <1>17, <1>18
     DEF Next, Connect, Release

\* A client keeps its environment and its library until it is released, whoever
\* else connects, fails to or releases (sfcclient.c, lines 84-122 and 49-62).
THEOREM ClientsAreKept == Spec => []ClientsKeepEnvironment
<1>1. Init => CountInv /\ KeepInv
  <2> SUFFICES ASSUME Init
               PROVE  KeepInv
    BY CountInvInit
  <2>1. Counted = {}
    BY DEF Init, Counted
  <2> QED
    BY <2>1, FS_EmptySet DEF Init, KeepInv
<1>2. CountInv /\ KeepInv /\ [Next]_vars => (CountInv /\ KeepInv)'
  BY CountInvStep, KeepInvStep
<1>3. CountInv /\ KeepInv => ClientsKeepEnvironment
  <2> SUFFICES ASSUME CountInv, KeepInv, wanted \subseteq Installed
               PROVE  /\ lost = {}
                      /\ Clients # {} => ccEnv # NULL /\ ccRelease # NULL /\ ~freed
                      /\ ccCount >= Cardinality(Clients)
    BY DEF ClientsKeepEnvironment
  <2>1. Clients \in SUBSET Counted
    BY DEF Clients, Counted
  <2>2. Cardinality(Clients) <= Cardinality(Counted)
    BY <2>1, CountedFinite, FS_Subset
  <2>3. ASSUME Clients # {}
        PROVE  ccEnv # NULL /\ ccRelease # NULL /\ ~freed
    <3>1. PICK t \in Threads : client[t] # NULL
      BY <2>3 DEF Clients
    <3>2. ccCount > 0
      BY <3>1, ClientIsCounted
    <3> QED
      BY <3>1, <3>2, NullAssumption DEF KeepInv, CountInv, ControlInv, OpenOnce
  <2>4. Cardinality(Clients) \in Nat /\ ccCount \in Nat
    BY <2>1, CountedFinite, FS_Subset, FS_CardinalityType DEF CountInv, ControlInv, ControlTypes
  <2> QED
    BY <2>2, <2>3, <2>4 DEF KeepInv
<1> QED
  BY <1>1, <1>2, <1>3, PTL DEF Spec

----------------------------------------------------------------------------
(* UtilStringBuffer.                                                       *)

\* The types; the text fits an int, with what is being appended.
BufferTypes ==
  /\ at \in {"none", "idle", "grow", "copy", "crash", "torn"}
  /\ max \in Int /\ room \in Int
  /\ len \in Nat /\ sl \in Nat
  /\ strlen \in 0..len /\ nul \in 0..sl
  /\ max <= IntMax /\ len <= IntMax
  /\ at \in {"grow", "copy"} => len + sl + 1 <= IntMax

\* The block is never smaller than max, a clone's included: strdup() gives it
\* one byte more.  So an append that finds room in max finds it in the block.
MaxInBlock == at \in {"idle", "copy"} => 0 <= max /\ max <= room

\* While the text is short enough doubling never leaves the positive numbers.
MaxPositive == at = "grow" /\ 2 * (len + sl + 1) <= IntMax => max > 0

\* TextInBlock and LoopAdvances strengthened to an inductive invariant.
BufferInv == BufferTypes /\ MaxInBlock /\ MaxPositive /\ TextInBlock

\* int arithmetic stays in an int, and is exact where it does not overflow.
LEMMA WrapBound ==
  ASSUME NEW n \in Int, n <= IntMax
  PROVE  /\ Wrap(2 * n) \in Int
         /\ Wrap(2 * n) <= IntMax
         /\ 0 < n /\ 2 * n <= IntMax => Wrap(2 * n) = 2 * n
  BY BufferAssumption DEF Wrap

LEMMA BufferInvInit == BufferInit => BufferInv
  BY BufferAssumption DEF BufferInit, BufferInv, BufferTypes, MaxInBlock, MaxPositive, TextInBlock

\* One step per action.
LEMMA BufferInvStep == BufferInv /\ [BufferNext]_bufferVars => BufferInv'
<1> SUFFICES ASSUME BufferInv, [BufferNext]_bufferVars
             PROVE  BufferInv'
  OBVIOUS
<1> USE BufferAssumption DEF BufferInv
<1>1. ASSUME NEW s \in Sizes, newStringBuffer(s)
      PROVE  BufferInv'
  <2>1. s \in 0..IntMax
    OBVIOUS
  <2> QED
    BY <1>1, <2>1
       DEF newStringBuffer, BufferTypes, MaxInBlock, MaxPositive, TextInBlock
<1>2. ASSUME NEW n \in Appended, NEW z \in {0, n}, sbft_appendChars(n, z)
      PROVE  BufferInv'
  <2>1. n \in Nat /\ z \in 0..n
    OBVIOUS
  <2>2. BufferTypes'
    BY <1>2, <2>1 DEF sbft_appendChars, BufferTypes
  <2>3. CASE n + len + 1 >= max
    BY <1>2, <2>1, <2>2, <2>3
       DEF sbft_appendChars, BufferTypes, MaxInBlock, MaxPositive, TextInBlock
  <2>4. CASE n + len + 1 < max
    BY <1>2, <2>1, <2>2, <2>4
       DEF sbft_appendChars, BufferTypes, MaxInBlock, MaxPositive, TextInBlock
  <2> QED
    BY <2>1, <2>3, <2>4 DEF BufferTypes
<1>3. CASE Grow
  <2>1. CASE sl + len + 1 >= max
    <3>1. /\ max' = Wrap(2 * max)
          /\ at = "grow" /\ at' = "grow"
          /\ UNCHANGED <<len, room, strlen, sl, nul>>
      BY <1>3, <2>1 DEF Grow
    <3>2. /\ max' \in Int
          /\ max' <= IntMax
          /\ 0 < max /\ 2 * max <= IntMax => max' = 2 * max
      BY <3>1, WrapBound DEF BufferTypes
    <3>3. MaxPositive'
      BY <2>1, <3>1, <3>2 DEF BufferTypes, MaxPositive
    <3> QED
      BY <3>1, <3>2, <3>3 DEF BufferTypes, MaxInBlock, TextInBlock
  <2>2. CASE sl + len + 1 < max
    BY <1>3, <2>2 DEF Grow, BufferTypes, MaxInBlock, MaxPositive, TextInBlock
  <2> QED
    BY <2>1, <2>2 DEF BufferTypes
<1>4. CASE Copy
  BY <1>4 DEF Copy, BufferTypes, MaxInBlock, MaxPositive, TextInBlock
<1>5. CASE sbft_clone
  BY <1>5 DEF sbft_clone, BufferTypes, MaxInBlock, MaxPositive, TextInBlock
<1>6. CASE sbft_reset
  BY <1>6 DEF sbft_reset, BufferTypes, MaxInBlock, MaxPositive, TextInBlock
<1>7. CASE sbft_release
  BY <1>7 DEF sbft_release, BufferTypes, MaxInBlock, MaxPositive, TextInBlock
<1>8. CASE UNCHANGED bufferVars
  BY <1>8 DEF bufferVars, BufferTypes, MaxInBlock, MaxPositive, TextInBlock
<1> QED
  BY <1>1, <1>2, <1>3, <1>4, <1>5, <1>6, <1>7, <1>8 DEF BufferNext

\* Nothing is written behind the block (utilStringBuffer.c, lines 61-94): the
\* text at rest, and the text about to be copied, end inside it.
THEOREM TextStaysInBlock == BufferSpec => []TextInBlock
<1>1. BufferInv => TextInBlock
  BY DEF BufferInv
<1> QED
  BY <1>1, BufferInvInit, BufferInvStep, PTL DEF BufferSpec

\* The loop of appendChars and appendBlock gets on for every text of at most half
\* of what an int can count.
THEOREM LoopGetsOn == BufferSpec => []LoopAdvances
<1>1. BufferInv => LoopAdvances
  <2> SUFFICES ASSUME BufferInv, at = "grow", sl + len + 1 >= max,
                      2 * (sl + len + 1) <= IntMax
               PROVE  Wrap(2 * max) > max
    BY DEF LoopAdvances
  <2>1. max \in Int /\ len \in Nat /\ sl \in Nat /\ max <= IntMax /\ max > 0
    BY DEF BufferInv, BufferTypes, MaxPositive
  <2>2. Wrap(2 * max) = 2 * max
    BY <2>1, WrapBound, BufferAssumption
  <2> QED
    BY <2>1, <2>2
<1> QED
  BY <1>1, BufferInvInit, BufferInvStep, PTL DEF BufferSpec

----------------------------------------------------------------------------
(* TransferTimeout.                                                        *)

\* Every transfer begins with a control record that has counted nothing.
LEMMA TimeoutTypesInit == TimeoutInit => TimeoutTypes
BY LimitsAssumption, ClockAssumption DEF TimeoutInit, TimeoutTypes

\* Counting begins at the first look at the clock and no later look is earlier.
StartBeforeLast ==
  /\ mTimestampStart <= mTimestampLast
  /\ mTimestampStart = 0 => mFixups = 0

\* Every fixup but the first goes back to a look that was upset.
FixupsUpset == mFixups <= upsets + 1

\* While the clock was not set, it shows what has passed since the last look,
\* and no more than what has passed in all, what the settings may have hidden
\* included.  Once it was set it may show anything, but the setting has been
\* charged to slack already.
ClockUnset ==
  mTimestampStart # 0 /\ setUnseen = 0 =>
    /\ clock - mTimestampLast = unseen
    /\ clock - mTimestampStart <= elapsed + slack

ClockSet ==
  mTimestampStart # 0 /\ setUnseen > 0 =>
    mTimestampLast - mTimestampStart + MAX_PLAUSIBLE_PROGRESS <= elapsed + slack

\* AbortJustified strengthened to an inductive invariant.
TimeInv ==
  /\ TimeoutTypes
  /\ StartBeforeLast
  /\ FixupsUpset
  /\ ClockUnset
  /\ ClockSet
  /\ AbortJustified

LEMMA TimeInvInit == TimeoutInit => TimeInv
BY TimeoutTypesInit, LimitsAssumption
   DEF TimeoutInit, TimeInv, StartBeforeLast, FixupsUpset, ClockUnset, ClockSet,
       AbortJustified

\* One step per action; checkProgress is split by its return statements.
LEMMA TimeInvStep == TimeInv /\ [TimeoutNext]_timeoutVars => TimeInv'
<1> SUFFICES ASSUME TimeInv, [TimeoutNext]_timeoutVars
             PROVE  TimeInv'
  OBVIOUS
<1> USE LimitsAssumption DEF TimeInv
<1>1. CASE genRequest
  BY <1>1, ClockAssumption
     DEF genRequest, NewTransfer, TimeoutTypes, StartBeforeLast, FixupsUpset,
         ClockUnset, ClockSet, AbortJustified
<1>2. CASE Tick
  BY <1>2 DEF Tick, timeoutControl, libcurl, TimeoutTypes, StartBeforeLast, FixupsUpset,
              ClockUnset, ClockSet, AbortJustified
<1>3. CASE SetClock
  <2> USE <1>3 DEF SetClock, timeoutControl, libcurl
  <2>1. TimeoutTypes' /\ StartBeforeLast' /\ FixupsUpset' /\ AbortJustified'
    BY ClockAssumption DEF TimeoutTypes, StartBeforeLast, FixupsUpset, AbortJustified
  <2>2. ClockUnset'
    BY DEF TimeoutTypes, ClockUnset
  <2>3. ClockSet'
    BY DEF TimeoutTypes, ClockUnset, ClockSet
  <2> QED
    BY <2>1, <2>2, <2>3
<1>4. CASE ReceiveHeader \/ ReceiveBody \/ EndTransfer \/ UNCHANGED timeoutVars
  <2>1. UNCHANGED <<clock, timeoutControl, history>>
    BY <1>4 DEF ReceiveHeader, ReceiveBody, EndTransfer, timeoutVars, history
  <2>2. /\ total' \in Nat /\ actual' \in Nat /\ callback' \in Callbacks
        /\ transfer' \in {"running", "ended", transfer}
    <3>1. CASE ReceiveHeader
      BY <3>1, BoundsAssumption DEF ReceiveHeader, TimeoutTypes
    <3>2. CASE ReceiveBody
      BY <3>2 DEF ReceiveBody, TimeoutTypes
    <3>3. CASE EndTransfer \/ UNCHANGED timeoutVars
      BY <3>3 DEF EndTransfer, timeoutVars, libcurl, TimeoutTypes
    <3> QED
      BY <1>4, <3>1, <3>2, <3>3
  <2>3. TimeoutTypes' /\ AbortJustified'
    BY <2>1, <2>2 DEF timeoutControl, history, TimeoutTypes, AbortJustified
  <2> QED
    BY <2>1, <2>3 DEF timeoutControl, history, StartBeforeLast, FixupsUpset,
                      ClockUnset, ClockSet
<1>5. CASE checkProgress /\ EverythingReceived
  BY <1>5 DEF checkProgress, EverythingReceived, timeoutControl, libcurl, TimeoutTypes,
              StartBeforeLast, FixupsUpset, ClockUnset, ClockSet, AbortJustified
<1>6. CASE checkProgress /\ Fixup
  <2> USE <1>6 DEF checkProgress, Fixup, Looked, TooManyFixups, libcurl
  <2>1. TimeoutTypes' /\ StartBeforeLast'
    BY DEF TimeoutTypes, StartBeforeLast
  <2>2. FixupsUpset'
    <3>1. CASE mTimestampStart = 0
      BY <3>1 DEF TimeoutTypes, StartBeforeLast, FixupsUpset
    <3>2. CASE mTimestampStart # 0
      \* Only a clock that was set, or a late look, can need another fixup.
      <4>1. setUnseen > 0 \/ unseen > MAX_PLAUSIBLE_PROGRESS
        BY <3>2 DEF NeedsFixup, TimeoutTypes, ClockUnset
      <4> QED
        BY <4>1 DEF TimeoutTypes, FixupsUpset
    <3> QED
      BY <3>1, <3>2
  <2>3. ClockUnset' /\ ClockSet' /\ AbortJustified'
    BY DEF TimeoutTypes, ClockUnset, ClockSet, AbortJustified
  <2> QED
    BY <2>1, <2>2, <2>3
<1>7. CASE checkProgress /\ InTime
  <2> USE <1>7 DEF checkProgress, InTime, Looked, NeedsFixup, libcurl
  <2>1. TimeoutTypes' /\ StartBeforeLast' /\ FixupsUpset' /\ AbortJustified'
    BY DEF TimeoutTypes, StartBeforeLast, FixupsUpset, AbortJustified
  <2>2. clock - mTimestampStart <= elapsed + slack
    BY DEF TimeoutTypes, ClockUnset, ClockSet
  <2> QED
    BY <2>1, <2>2 DEF TimeoutTypes, ClockUnset, ClockSet
<1>8. CASE checkProgress /\ Abort
  <2> USE <1>8 DEF checkProgress, Abort, timeoutControl, libcurl
  <2>1. TimeoutTypes' /\ StartBeforeLast' /\ FixupsUpset' /\ ClockUnset' /\ ClockSet'
    BY DEF TimeoutTypes, StartBeforeLast, FixupsUpset, ClockUnset, ClockSet
  <2>2. ASSUME TooManyFixups PROVE AbortJustified'
    BY <2>2 DEF TooManyFixups, TimeoutTypes, FixupsUpset, AbortJustified
  <2>3. ASSUME ~NeedsFixup, ~TimeLeft PROVE AbortJustified'
    <3>1. clock - mTimestampStart <= elapsed + slack
      BY <2>3 DEF NeedsFixup, TimeoutTypes, ClockUnset, ClockSet
    <3> QED
      BY <2>3, <3>1 DEF TimeLeft, TimeoutTypes, AbortJustified
  <2>4. AbortJustified'
    BY <2>2, <2>3
  <2> QED
    BY <2>1, <2>4
<1> QED
  BY <1>1, <1>2, <1>3, <1>4, <1>5, <1>6, <1>7, <1>8 DEF TimeoutNext, checkProgress

\* The control record stays within its types, and no more fixups are counted
\* than one beyond those that are allowed.
THEOREM TimeoutTypeCorrect == TimeoutSpec => []TimeoutTypes
<1>1. TimeInv => TimeoutTypes
  BY DEF TimeInv
<1> QED
  BY <1>1, TimeInvInit, TimeInvStep, PTL DEF TimeoutSpec

\* checkProgress (client.c): a transfer is aborted only when its time is up or
\* after too many upsets, for all limits, clocks and servers.
THEOREM AbortsAreJustified == TimeoutSpec => []AbortJustified
<1>1. TimeInv => AbortJustified
  BY DEF TimeInv
<1> QED
  BY <1>1, TimeInvInit, TimeInvStep, PTL DEF TimeoutSpec

----------------------------------------------------------------------------
(* UtilList.  Cell 0 of a list's chain is pre_element, the cell behind its *)
(* last is post_element.                                                   *)

CellAt(l, c, k) ==
  IF k = 0 THEN List!Pre(l) ELSE IF k = Len(c) + 1 THEN List!Post(l) ELSE c[k]

\* The cells of c hang together in both directions.
Linked(nxt, prv, l, c) ==
  /\ \A k \in 0..Len(c) :
       /\ nxt[CellAt(l, c, k)] = CellAt(l, c, k + 1)
       /\ prv[CellAt(l, c, k + 1)] = CellAt(l, c, k)
  /\ nxt[List!Post(l)] = List!Post(l) /\ prv[List!Pre(l)] = List!Pre(l)

\* The elements of list l are those of ch[l], a list that is not there has none.
Chained(ch) ==
  /\ ch \in [Lists -> Seq(Nodes)]
  /\ \A l \in lists :
       Once(ch[l]) /\ Linked(next, previous, l, ch[l]) /\ num_of_elements[l] = Len(ch[l])
  /\ \A l \in Lists \ lists : ch[l] = <<>>
  /\ \A l, m \in Lists : l # m => On(ch[l]) \cap On(ch[m]) = {}
  /\ nodes = UNION {On(ch[l]) : l \in Lists}

\* What the cursor of l may be on, or remember as a neighbour: a cell of the
\* list, or an element that was freed.
MayBeAt(l, c, x) == x \in {List!Pre(l), List!Post(l)} \cup On(c) \cup (Nodes \ nodes)

CursorOf(l, c) ==
  \/ MayBeAt(l, c, current[l])
  \/ \E before, after \in List!Cells :
       /\ current[l] = List!Deleted(l, before, after)
       /\ MayBeAt(l, c, before) /\ MayBeAt(l, c, after)

ListTypes ==
  /\ lists \subseteq Lists /\ nodes \subseteq Nodes
  /\ next \in [List!Cells -> List!Cells \cup {NULL}]
  /\ previous \in [List!Cells -> List!Cells \cup {NULL}]
  /\ num_of_elements \in [Lists -> Nat]
  /\ current = [l \in Lists |-> current[l]]

ListInv ==
  /\ ListTypes
  /\ \E ch : Chained(ch) /\ \A l \in lists : CursorOf(l, ch[l])

\* There is one walk along nxt.
LEMMA WalkIs ==
  ASSUME NEW nxt, NEW first, NEW c, NEW n \in Nat,
         c = [k \in 1..n |-> IF k = 1 THEN nxt[first] ELSE nxt[c[k - 1]]]
  PROVE  (CHOOSE f : f = [k \in 1..n |-> IF k = 1 THEN nxt[first] ELSE nxt[f[k - 1]]]) = c
<1> DEFINE Walk(f) == f = [k \in 1..n |-> IF k = 1 THEN nxt[first] ELSE nxt[f[k - 1]]]
<1>1. PICK w : w = CHOOSE f : Walk(f)
  OBVIOUS
<1>2. Walk(w)
  BY Zenon, <1>1
<1> DEFINE D == {k \in 1..n : w[k] # c[k]}
<1>3. ASSUME D # {}
      PROVE  FALSE
  <2>0. D \in SUBSET Nat
    OBVIOUS
  <2> HIDE DEF D
  <2>1. PICK k \in D : \A j \in D : k <= j
    BY <1>3, <2>0, LeastOf
  <2>2. k \in 1..n /\ w[k] # c[k] /\ (k # 1 => k - 1 \in 1..n /\ w[k - 1] = c[k - 1])
    BY <2>1 DEF D
  <2>3. w[k] = IF k = 1 THEN nxt[first] ELSE nxt[w[k - 1]]
    BY <1>2, <2>2
  <2>4. c[k] = IF k = 1 THEN nxt[first] ELSE nxt[c[k - 1]]
    BY <2>2
  <2> QED
    BY <2>2, <2>3, <2>4
<1>4. \A k \in 1..n : w[k] = c[k]
  BY <1>3
<1>5. w = [k \in 1..n |-> w[k]] /\ c = [k \in 1..n |-> c[k]]
  BY <1>2
<1> QED
  BY <1>1, <1>4, <1>5

\* The walk from pre_element is the chain.
LEMMA ChainIs ==
  ASSUME NEW l, NEW c \in Seq(Nodes), Linked(next, previous, l, c), num_of_elements[l] = Len(c)
  PROVE  List!Chain(l) = c
<1>1. ASSUME NEW k \in 1..Len(c)
      PROVE  c[k] = IF k = 1 THEN next[List!Pre(l)] ELSE next[c[k - 1]]
  <2>1. Len(c) \in Nat /\ k - 1 \in 0..Len(c)
    OBVIOUS
  <2>2. next[CellAt(l, c, k - 1)] = CellAt(l, c, k)
    BY <2>1 DEF Linked
  <2>3. CellAt(l, c, k) = c[k]
    BY <2>1 DEF CellAt
  <2>4. CellAt(l, c, k - 1) = IF k = 1 THEN List!Pre(l) ELSE c[k - 1]
    BY <2>1 DEF CellAt
  <2> QED
    BY <2>2, <2>3, <2>4
<1>2. c = [k \in 1..Len(c) |-> c[k]] /\ Len(c) \in Nat
  OBVIOUS
<1> QED
  BY <1>1, <1>2, WalkIs DEF List!Chain

\* No cell is twice in a list.
LEMMA CellsDiffer ==
  ASSUME NEW l \in Lists, NEW c \in Seq(Nodes), Once(c),
         NEW i \in 0..(Len(c) + 1), NEW j \in 0..(Len(c) + 1),
         CellAt(l, c, i) = CellAt(l, c, j)
  PROVE  i = j
<1>1. \A k \in 1..Len(c) : c[k] \in Nodes
  OBVIOUS
<1>2. List!Pre(l) \notin Nodes /\ List!Post(l) \notin Nodes /\ List!Pre(l) # List!Post(l)
  BY ListsAssumption DEF List!ListAssumption, List!Pre, List!Post
<1> QED
  BY <1>1, <1>2 DEF CellAt, Once

\* Lists have no cell in common.
LEMMA ListsDiffer ==
  ASSUME NEW l \in Lists, NEW m \in Lists, l # m
  PROVE  /\ List!Pre(l) \notin {List!Pre(m), List!Post(m)}
         /\ List!Post(l) \notin {List!Pre(m), List!Post(m)}
BY DEF List!Pre, List!Post

LEMMA CellsAre ==
  /\ \A l \in Lists : {List!Pre(l), List!Post(l)} \subseteq List!Cells
  /\ \A l \in Lists : {List!Pre(l), List!Post(l)} \cap Nodes = {}
  /\ Nodes \subseteq List!Cells
<1>1. \A l \in Lists : List!Pre(l) \in List!Cells /\ List!Post(l) \in List!Cells
  BY DEF List!Cells, List!Pre, List!Post
<1>2. \A l \in Lists : List!Pre(l) \notin Nodes /\ List!Post(l) \notin Nodes
  BY ListsAssumption DEF List!ListAssumption
<1>3. Nodes \subseteq List!Cells
  BY DEF List!Cells
<1> QED
  BY <1>1, <1>2, <1>3

----------------------------------------------------------------------------
(* A step gives one list another chain, and touches no cell of another.    *)

Rechain(ch, l, c) ==
  /\ lists' \subseteq Lists
  /\ lists' \ {l} = lists \ {l}
  /\ l \notin lists' => c = <<>>
  /\ l \in lists' => Once(c) /\ Linked(next', previous', l, c) /\ num_of_elements'[l] = Len(c)
  /\ \A m \in Lists \ {l} : num_of_elements'[m] = num_of_elements[m]
  /\ On(c) \cap nodes \subseteq On(ch[l])
  /\ nodes' = (nodes \ On(ch[l])) \cup On(c)
  /\ \A x \in List!Cells :
       x \notin {List!Pre(l), List!Post(l)} \cup On(ch[l]) \cup On(c) =>
         next'[x] = next[x] /\ previous'[x] = previous[x]

LEMMA RechainKeeps ==
  ASSUME ListTypes, NEW ch, Chained(ch), NEW l \in Lists, NEW c \in Seq(Nodes), Rechain(ch, l, c)
  PROVE  Chained([ch EXCEPT ![l] = c])'
<1> DEFINE to == [ch EXCEPT ![l] = c]
<1>0. /\ ch \in [Lists -> Seq(Nodes)] /\ to \in [Lists -> Seq(Nodes)] /\ to[l] = c
      /\ \A m \in Lists \ {l} : to[m] = ch[m]
  BY DEF Chained
<1>1. \A m \in Lists : On(ch[m]) \subseteq nodes
  BY DEF Chained
<1>2. \A m \in Lists : m # l => On(c) \cap On(ch[m]) = {}
  BY <1>1 DEF Chained, Rechain
<1> HIDE DEF to
<1>3. \A m \in Lists \ lists' : to[m] = <<>>
  BY <1>0 DEF Chained, Rechain
<1>4. \A k, m \in Lists : k # m => On(to[k]) \cap On(to[m]) = {}
  BY <1>0, <1>2 DEF Chained
<1>5. nodes' = UNION {On(to[m]) : m \in Lists}
  <2>1. nodes \ On(ch[l]) = UNION {On(ch[m]) : m \in Lists \ {l}}
    BY DEF Chained
  <2> QED
    BY <1>0, <2>1 DEF Rechain
<1>6. ASSUME NEW m \in lists', m # l
      PROVE  Once(ch[m]) /\ Linked(next', previous', m, ch[m]) /\ num_of_elements'[m] = Len(ch[m])
  <2>1. m \in lists /\ m \in Lists
    BY <1>6 DEF Rechain
  <2>2. /\ ch[m] \in Seq(Nodes) /\ Len(ch[m]) \in Nat /\ Once(ch[m])
        /\ Linked(next, previous, m, ch[m]) /\ num_of_elements'[m] = Len(ch[m])
    BY <2>1, <1>0, <1>6 DEF Chained, Rechain
  <2>3. ASSUME NEW x \in {List!Pre(m), List!Post(m)} \cup On(ch[m])
        PROVE  next'[x] = next[x] /\ previous'[x] = previous[x]
    <3>1. x \in List!Cells
      BY <2>1, <2>2, CellsAre DEF On
    <3>2. x \notin {List!Pre(l), List!Post(l)}
      BY <2>1, <2>2, <1>6, CellsAre, ListsDiffer DEF On
    <3>3. x \notin On(ch[l]) \cup On(c)
      <4>1. On(ch[l]) \cup On(c) \subseteq Nodes
        BY <1>0 DEF On
      <4>2. On(ch[m]) \cap (On(ch[l]) \cup On(c)) = {}
        BY <1>2, <1>6, <2>1 DEF Chained
      <4> QED
        BY <4>1, <4>2, <2>1, CellsAre
    <3> QED
      BY <3>1, <3>2, <3>3 DEF Rechain
  <2>4. \A k \in 0..(Len(ch[m]) + 1) :
          CellAt(m, ch[m], k) \in {List!Pre(m), List!Post(m)} \cup On(ch[m])
    BY <2>2 DEF CellAt, On
  <2>5. Linked(next', previous', m, ch[m])
    <3>1. ASSUME NEW k \in 0..Len(ch[m])
          PROVE  /\ next'[CellAt(m, ch[m], k)] = CellAt(m, ch[m], k + 1)
                 /\ previous'[CellAt(m, ch[m], k + 1)] = CellAt(m, ch[m], k)
      <4>1. k \in 0..(Len(ch[m]) + 1) /\ k + 1 \in 0..(Len(ch[m]) + 1)
        BY <2>2
      <4> QED
        BY <4>1, <2>2, <2>3, <2>4 DEF Linked
    <3> QED
      BY <3>1, <2>2, <2>3 DEF Linked
  <2> QED
    BY <2>2, <2>5
<1>7. ASSUME NEW m \in lists'
      PROVE  Once(to[m]) /\ Linked(next', previous', m, to[m]) /\ num_of_elements'[m] = Len(to[m])
  BY <1>0, <1>6 DEF Rechain
<1>8. Chained(to)'
  BY <1>0, <1>3, <1>4, <1>5, <1>7 DEF Chained
<1> QED
  BY <1>8 DEF to

\* A cursor of a list that no step touched stays where it is or what it was on
\* is freed; what is allocated is no element that it holds.
LEMMA CursorStays ==
  ASSUME ListTypes, NEW ch, Chained(ch), NEW l \in Lists, NEW c \in Seq(Nodes), Rechain(ch, l, c),
         On(c) \ On(ch[l]) \subseteq List!Free,
         NEW m \in lists, CursorOf(m, ch[m]), current'[m] = current[m]
  PROVE  CursorOf(m, [ch EXCEPT ![l] = c][m])'
<1> DEFINE to == [ch EXCEPT ![l] = c]
<1>0. /\ ch \in [Lists -> Seq(Nodes)] /\ to[l] = c /\ m \in Lists
      /\ \A k \in Lists \ {l} : to[k] = ch[k]
  BY DEF Chained, ListTypes
<1>1. (nodes' \ nodes) \subseteq List!Free
  <2>1. On(ch[l]) \subseteq nodes
    BY DEF Chained
  <2> QED
    BY <2>1 DEF Rechain
<1>2. \A k \in Lists \ {l} : On(ch[k]) \cap On(ch[l]) = {}
  BY DEF Chained
<1> HIDE DEF to
<1>3. ASSUME NEW x, MayBeAt(m, ch[m], x), x \in List!Kept
      PROVE  MayBeAt(m, to[m], x)'
  <2>1. x \notin List!Free
    BY <1>3 DEF List!Free
  <2>2. ASSUME x \in On(ch[m])
        PROVE  x \in Nodes /\ (x \in On(to[m]) \/ x \notin nodes')
    <3>1. x \in Nodes /\ x \in nodes
      BY <2>2, <1>0 DEF Chained, ListTypes
    <3> QED
      BY <3>1, <2>2, <1>0, <1>2 DEF Rechain
  <2>3. ASSUME x \in Nodes \ nodes
        PROVE  x \in Nodes \ nodes'
    BY <2>1, <2>3, <1>1
  <2> QED
    BY <1>3, <2>2, <2>3 DEF MayBeAt, List!Pre, List!Post
<1>4. CASE MayBeAt(m, ch[m], current[m])
  <2>1. current[m] \in List!Cells
    BY <1>4, <1>0, CellsAre DEF MayBeAt, On
  <2>2. current[m] \in List!Kept
    BY <2>1, <1>0 DEF List!Kept, List!IsDeleted
  <2> QED
    BY <2>2, <1>3, <1>4 DEF CursorOf, to
<1>5. ASSUME NEW before \in List!Cells, NEW after \in List!Cells,
             current[m] = List!Deleted(m, before, after),
             MayBeAt(m, ch[m], before), MayBeAt(m, ch[m], after)
      PROVE  CursorOf(m, to[m])'
  <2>1. List!IsDeleted(current[m])
    <3>1. current[m] \notin Nodes \cup {NULL}
      BY <1>5, <1>0, ListsAssumption DEF List!ListAssumption
    <3>2. current[m] \notin Lists \X {"pre_element", "post_element"}
      BY <1>5 DEF List!Deleted
    <3> QED
      BY <3>1, <3>2 DEF List!IsDeleted, List!Cells
  <2>2. {before, after} \subseteq List!Kept
    <3>1. before = current[m][3] /\ after = current[m][4]
      BY <1>5 DEF List!Deleted
    <3> QED
      BY <2>1, <3>1, <1>0 DEF List!Kept
  <2> QED
    BY <2>2, <1>3, <1>5 DEF CursorOf, List!Deleted, List!Cells
<1> QED
  BY <1>4, <1>5 DEF CursorOf, to

----------------------------------------------------------------------------
(* What the steps do to a chain.                                           *)

Inserted(c, j, n) ==
  [k \in 1..(Len(c) + 1) |-> IF k <= j THEN c[k] ELSE IF k = j + 1 THEN n ELSE c[k - 1]]

LEMMA CellsOfChain ==
  ASSUME ListTypes, NEW ch, Chained(ch), NEW l \in lists
  PROVE  /\ l \in Lists /\ ch[l] \in Seq(Nodes) /\ Len(ch[l]) \in Nat
         /\ Once(ch[l]) /\ Linked(next, previous, l, ch[l]) /\ num_of_elements[l] = Len(ch[l])
         /\ On(ch[l]) \subseteq nodes
         /\ \A k \in 0..(Len(ch[l]) + 1) :
              /\ CellAt(l, ch[l], k) \in {List!Pre(l), List!Post(l)} \cup On(ch[l])
              /\ CellAt(l, ch[l], k) \in List!Cells
              /\ CellAt(l, ch[l], k) \in Nodes <=> k \in 1..Len(ch[l])
<1>1. /\ l \in Lists /\ ch[l] \in Seq(Nodes) /\ Len(ch[l]) \in Nat
      /\ Once(ch[l]) /\ Linked(next, previous, l, ch[l]) /\ num_of_elements[l] = Len(ch[l])
      /\ On(ch[l]) \subseteq nodes
  BY DEF ListTypes, Chained
<1>2. \A k \in 1..Len(ch[l]) : ch[l][k] \in Nodes
  BY <1>1
<1>3. ASSUME NEW k \in 0..(Len(ch[l]) + 1)
      PROVE  /\ CellAt(l, ch[l], k) \in {List!Pre(l), List!Post(l)} \cup On(ch[l])
             /\ CellAt(l, ch[l], k) \in List!Cells
             /\ CellAt(l, ch[l], k) \in Nodes <=> k \in 1..Len(ch[l])
  BY <1>1, <1>2, CellsAre DEF CellAt, On
<1> QED
  BY <1>1, <1>3

\* The cells of a chain with an element more.
LEMMA InsertedCells ==
  ASSUME NEW S, NEW c \in Seq(S), NEW l, NEW j \in 0..Len(c), NEW new,
         NEW d, d = Inserted(c, j, new)
  PROVE  /\ Len(d) = Len(c) + 1
         /\ \A k \in 0..(Len(d) + 1) :
              CellAt(l, d, k) = IF k <= j THEN CellAt(l, c, k)
                                ELSE IF k = j + 1 THEN new ELSE CellAt(l, c, k - 1)
<1>1. Len(c) \in Nat /\ j \in Nat /\ j <= Len(c) /\ \A k \in 1..Len(c) : c[k] \in S
  OBVIOUS
<1>2. d \in Seq(S \cup {new}) /\ Len(d) = Len(c) + 1
  BY <1>1 DEF Inserted
<1>3. \A k \in 1..(Len(c) + 1) : d[k] = IF k <= j THEN c[k] ELSE IF k = j + 1 THEN new ELSE c[k - 1]
  BY <1>1 DEF Inserted
<1>4. ASSUME NEW k \in 0..(Len(d) + 1)
      PROVE  CellAt(l, d, k) = IF k <= j THEN CellAt(l, c, k)
                               ELSE IF k = j + 1 THEN new ELSE CellAt(l, c, k - 1)
  <2>1. CASE k = 0
    BY <2>1, <1>1 DEF CellAt
  <2>2. CASE k = Len(d) + 1
    BY <2>2, <1>1, <1>2 DEF CellAt
  <2>3. CASE k # 0 /\ k # Len(d) + 1
    <3>1. CellAt(l, d, k) = d[k] /\ k \in 1..(Len(c) + 1)
      BY <2>3, <1>1, <1>2 DEF CellAt
    <3>2. CASE k <= j
      BY <3>1, <3>2, <1>1, <1>3 DEF CellAt
    <3>3. CASE k = j + 1
      BY <3>1, <3>3, <1>1, <1>3
    <3>4. CASE k > j + 1
      BY <3>1, <3>4, <1>1, <1>3 DEF CellAt
    <3> QED
      BY <3>1, <3>2, <3>3, <3>4, <1>1
  <2> QED
    BY <2>1, <2>2, <2>3
<1> QED
  BY <1>2, <1>4

LEMMA InsertRechains ==
  ASSUME ListTypes, NEW ch, Chained(ch), NEW l \in lists, NEW j \in 0..Len(ch[l]),
         NEW new \in List!Free,
         lists' = lists,
         nodes' = nodes \cup {new},
         next' = [next EXCEPT ![new] = CellAt(l, ch[l], j + 1), ![CellAt(l, ch[l], j)] = new],
         previous' = [previous EXCEPT ![new] = CellAt(l, ch[l], j), ![CellAt(l, ch[l], j + 1)] = new],
         num_of_elements' = [num_of_elements EXCEPT ![l] = @ + 1]
  PROVE  /\ Inserted(ch[l], j, new) \in Seq(Nodes)
         /\ Rechain(ch, l, Inserted(ch[l], j, new))
         /\ On(Inserted(ch[l], j, new)) \ On(ch[l]) \subseteq List!Free
<1> DEFINE c == ch[l]
           d == Inserted(c, j, new)
<1>1. /\ l \in Lists /\ c \in Seq(Nodes) /\ Len(c) \in Nat /\ j \in Nat
      /\ Once(c) /\ Linked(next, previous, l, c) /\ num_of_elements[l] = Len(c)
      /\ On(c) \subseteq nodes
      /\ \A k \in 1..Len(c) : c[k] \in Nodes
  BY CellsOfChain
<1>2. new \in Nodes /\ new \notin nodes /\ new \in List!Cells
  BY CellsAre DEF List!Free
<1>3. d \in Seq(Nodes) /\ Len(d) = Len(c) + 1
  BY <1>1, <1>2 DEF Inserted
<1>4. \A k \in 1..(Len(c) + 1) : d[k] = IF k <= j THEN c[k] ELSE IF k = j + 1 THEN new ELSE c[k - 1]
  BY <1>1 DEF Inserted
<1>5. On(d) = On(c) \cup {new}
  <2>1. On(d) \subseteq On(c) \cup {new}
    <3>1. ASSUME NEW k \in 1..Len(d)
          PROVE  d[k] = new \/ \E m \in 1..Len(c) : d[k] = c[m]
      <4>1. \/ k \in 1..Len(c) /\ d[k] = c[k]
            \/ d[k] = new
            \/ k - 1 \in 1..Len(c) /\ d[k] = c[k - 1]
        BY <1>1, <1>3, <1>4
      <4> QED
        BY <4>1
    <3> HIDE DEF c, d
    <3> QED
      BY <3>1 DEF On
  <2>2. new \in On(d)
    <3>1. j + 1 \in 1..Len(d) /\ d[j + 1] = new
      BY <1>1, <1>3, <1>4
    <3> HIDE DEF c, d
    <3> QED
      BY <3>1 DEF On
  <2>3. ASSUME NEW k \in 1..Len(c)
        PROVE  c[k] \in On(d)
    <3>1. CASE k <= j
      <4>1. k \in 1..Len(d) /\ d[k] = c[k]
        BY <3>1, <1>1, <1>3, <1>4
      <4> QED
        BY <4>1 DEF On
    <3>2. CASE k > j
      <4>1. k + 1 \in 1..Len(d) /\ d[k + 1] = c[k]
        BY <3>2, <1>1, <1>3, <1>4
      <4> QED
        BY <4>1 DEF On
    <3> QED
      BY <3>1, <3>2, <1>1
  <2> QED
    BY <2>1, <2>2, <2>3 DEF On
<1>6. new \notin On(c)
  BY <1>1, <1>2
<1>7. Once(d)
  <2>1. \A k \in 1..Len(c) : c[k] # new
    BY <1>6 DEF On
  <2>2. ASSUME NEW i \in 1..Len(d), NEW k \in 1..Len(d), d[i] = d[k]
        PROVE  i = k
    <3> DEFINE Back(m) == IF m <= j THEN m ELSE m - 1
    <3>1. \A m \in 1..Len(d) : m = j + 1 \/ (Back(m) \in 1..Len(c) /\ d[m] = c[Back(m)])
      BY <1>1, <1>3, <1>4
    <3>2. d[j + 1] = new
      BY <1>1, <1>3, <1>4
    <3>3. CASE i # j + 1 /\ k # j + 1
      <4>1. Back(i) = Back(k)
        BY <2>2, <3>1, <3>3, <1>1 DEF Once
      <4> QED
        BY <4>1, <3>3, <1>1, <1>3
    <3> QED
      BY <2>1, <2>2, <3>1, <3>2, <3>3
  <2> QED
    BY <2>2 DEF Once
<1>8. \A k \in 0..(Len(d) + 1) :
        CellAt(l, d, k) = IF k <= j THEN CellAt(l, c, k)
                          ELSE IF k = j + 1 THEN new ELSE CellAt(l, c, k - 1)
  BY <1>1, InsertedCells
<1>9. \A k \in 0..(Len(c) + 1) : CellAt(l, c, k) \in List!Cells /\ CellAt(l, c, k) # new
  BY <1>1, <1>2, <1>6, CellsOfChain, CellsAre
<1>10. \A i, k \in 0..(Len(c) + 1) : CellAt(l, c, i) = CellAt(l, c, k) => i = k
  BY <1>1, CellsDiffer
<1> HIDE DEF c, d
<1>11. /\ next'[new] = CellAt(l, c, j + 1) /\ previous'[new] = CellAt(l, c, j)
       /\ next'[CellAt(l, c, j)] = new /\ previous'[CellAt(l, c, j + 1)] = new
       /\ \A x \in List!Cells : x \notin {new, CellAt(l, c, j)} => next'[x] = next[x]
       /\ \A x \in List!Cells : x \notin {new, CellAt(l, c, j + 1)} => previous'[x] = previous[x]
  <2>1. j \in 0..(Len(c) + 1) /\ j + 1 \in 0..(Len(c) + 1)
    BY <1>1 DEF c
  <2> QED
    BY <2>1, <1>2, <1>9 DEF ListTypes, c
<1>12. ASSUME NEW k \in 0..Len(d)
       PROVE  /\ next'[CellAt(l, d, k)] = CellAt(l, d, k + 1)
              /\ previous'[CellAt(l, d, k + 1)] = CellAt(l, d, k)
  <2>0. k \in Nat /\ k <= Len(c) + 1 /\ k \in 0..(Len(d) + 1) /\ k + 1 \in 0..(Len(d) + 1)
    BY <1>1, <1>3
  <2>1. CASE k < j
    <3>1. k \in 0..Len(c) /\ k \in 0..(Len(c) + 1) /\ k + 1 \in 0..(Len(c) + 1) /\ k # j /\ k + 1 # j + 1
      BY <2>0, <2>1, <1>1 DEF c
    <3>2. CellAt(l, d, k) = CellAt(l, c, k) /\ CellAt(l, d, k + 1) = CellAt(l, c, k + 1)
      BY <2>0, <2>1, <1>1, <1>8
    <3>3. j \in 0..(Len(c) + 1) /\ j + 1 \in 0..(Len(c) + 1)
      BY <1>1 DEF c
    <3>4. /\ CellAt(l, c, k) \notin {new, CellAt(l, c, j)}
          /\ CellAt(l, c, k + 1) \notin {new, CellAt(l, c, j + 1)}
      BY <3>1, <3>3, <1>9, <1>10
    <3>5. /\ next[CellAt(l, c, k)] = CellAt(l, c, k + 1)
          /\ previous[CellAt(l, c, k + 1)] = CellAt(l, c, k)
      BY <3>1, <1>1 DEF Linked
    <3> QED
      BY <3>1, <3>2, <3>4, <3>5, <1>9, <1>11
  <2>2. CASE k = j
    <3>1. CellAt(l, d, k) = CellAt(l, c, j) /\ CellAt(l, d, k + 1) = new
      BY <2>0, <2>2, <1>1, <1>8
    <3> QED
      BY <3>1, <1>11
  <2>3. CASE k = j + 1
    <3>1. CellAt(l, d, k) = new /\ CellAt(l, d, k + 1) = CellAt(l, c, j + 1)
      BY <2>0, <2>3, <1>1, <1>8
    <3> QED
      BY <3>1, <1>11
  <2>4. CASE k > j + 1
    <3>1. /\ k - 1 \in 0..Len(c) /\ k - 1 \in 0..(Len(c) + 1) /\ (k - 1) + 1 \in 0..(Len(c) + 1)
          /\ k - 1 # j /\ (k - 1) + 1 # j + 1
      BY <2>0, <2>4, <1>1 DEF c
    <3>2. CellAt(l, d, k) = CellAt(l, c, k - 1) /\ CellAt(l, d, k + 1) = CellAt(l, c, (k - 1) + 1)
      BY <2>0, <2>4, <1>1, <1>8
    <3>3. j \in 0..(Len(c) + 1) /\ j + 1 \in 0..(Len(c) + 1)
      BY <1>1 DEF c
    <3>4. /\ CellAt(l, c, k - 1) \notin {new, CellAt(l, c, j)}
          /\ CellAt(l, c, (k - 1) + 1) \notin {new, CellAt(l, c, j + 1)}
      BY <3>1, <3>3, <1>9, <1>10
    <3>5. /\ next[CellAt(l, c, k - 1)] = CellAt(l, c, (k - 1) + 1)
          /\ previous[CellAt(l, c, (k - 1) + 1)] = CellAt(l, c, k - 1)
      BY <3>1, <1>1 DEF Linked
    <3> QED
      BY <3>1, <3>2, <3>4, <3>5, <1>9, <1>11
  <2> QED
    BY <2>0, <2>1, <2>2, <2>3, <2>4, <1>1
<1>13. next'[List!Post(l)] = List!Post(l) /\ previous'[List!Pre(l)] = List!Pre(l)
  <2>1. List!Post(l) = CellAt(l, c, Len(c) + 1) /\ List!Pre(l) = CellAt(l, c, 0)
    BY <1>1 DEF CellAt
  <2>2. j # Len(c) + 1 /\ j + 1 # 0 /\ {j, j + 1, 0, Len(c) + 1} \subseteq 0..(Len(c) + 1)
    BY <1>1 DEF c
  <2>3. List!Post(l) \notin {new, CellAt(l, c, j)} /\ List!Pre(l) \notin {new, CellAt(l, c, j + 1)}
    BY <2>1, <2>2, <1>9, <1>10
  <2> QED
    BY <2>3, <1>1, <1>11, CellsAre DEF Linked
<1>14. Linked(next', previous', l, d)
  BY <1>12, <1>13 DEF Linked
<1>15. ASSUME NEW x \in List!Cells, x \notin {List!Pre(l), List!Post(l)} \cup On(c) \cup On(d)
       PROVE  next'[x] = next[x] /\ previous'[x] = previous[x]
  <2>1. /\ CellAt(l, c, j) \in {List!Pre(l), List!Post(l)} \cup On(c)
        /\ CellAt(l, c, j + 1) \in {List!Pre(l), List!Post(l)} \cup On(c)
    <3>1. j \in 0..(Len(c) + 1) /\ j + 1 \in 0..(Len(c) + 1)
      BY <1>1 DEF c
    <3> QED
      BY <3>1, CellsOfChain DEF c
  <2> QED
    BY <2>1, <1>5, <1>11, <1>15
<1>16. Rechain(ch, l, d)
  BY <1>1, <1>2, <1>3, <1>5, <1>7, <1>14, <1>15 DEF Rechain, c, ListTypes
<1> QED
  BY <1>3, <1>5, <1>16 DEF c, d

\* What Unlink and UnlinkCurrent have in common.
TakesOut(l, n) ==
  /\ lists' = lists
  /\ nodes' = nodes \ {n}
  /\ next' = [next EXCEPT ![previous[n]] = next[n], ![n] = NULL]
  /\ previous' = [previous EXCEPT ![next[n]] = previous[n], ![n] = NULL]
  /\ num_of_elements' = [num_of_elements EXCEPT ![l] = @ - 1]

\* The cells of a chain with an element less.
LEMMA RemovedCells ==
  ASSUME NEW S, NEW c \in Seq(S), NEW l, NEW i \in 1..Len(c), NEW d, d = Removed(c, i)
  PROVE  /\ Len(d) = Len(c) - 1
         /\ \A k \in 0..(Len(d) + 1) :
              CellAt(l, d, k) = IF k < i THEN CellAt(l, c, k) ELSE CellAt(l, c, k + 1)
<1>1. Len(c) \in Nat /\ i \in Nat /\ i >= 1 /\ i <= Len(c) /\ \A k \in 1..Len(c) : c[k] \in S
  OBVIOUS
<1>2. d \in Seq(S) /\ Len(d) = Len(c) - 1
  BY <1>1 DEF Removed
<1>3. \A k \in 1..(Len(c) - 1) : d[k] = IF k < i THEN c[k] ELSE c[k + 1]
  BY <1>1 DEF Removed
<1>4. ASSUME NEW k \in 0..(Len(d) + 1)
      PROVE  CellAt(l, d, k) = IF k < i THEN CellAt(l, c, k) ELSE CellAt(l, c, k + 1)
  <2>1. CASE k = 0
    BY <2>1, <1>1 DEF CellAt
  <2>2. CASE k = Len(d) + 1
    BY <2>2, <1>1, <1>2 DEF CellAt
  <2>3. CASE k # 0 /\ k # Len(d) + 1
    <3>1. CellAt(l, d, k) = d[k] /\ k \in 1..(Len(c) - 1)
      BY <2>3, <1>1, <1>2 DEF CellAt
    <3>2. CASE k < i
      BY <3>1, <3>2, <1>1, <1>3 DEF CellAt
    <3>3. CASE ~(k < i)
      BY <3>1, <3>3, <1>1, <1>3 DEF CellAt
    <3> QED
      BY <3>2, <3>3
  <2> QED
    BY <2>1, <2>2, <2>3
<1> QED
  BY <1>2, <1>4

LEMMA UnlinkRechains ==
  ASSUME ListTypes, NEW ch, Chained(ch), NEW l \in lists, NEW i \in 1..Len(ch[l]),
         NEW n \in On(ch[l]), n = ch[l][i],
         TakesOut(l, n)
  PROVE  /\ Removed(ch[l], i) \in Seq(Nodes)
         /\ Rechain(ch, l, Removed(ch[l], i))
         /\ On(Removed(ch[l], i)) = On(ch[l]) \ {n}
<1> DEFINE c == ch[l]
           d == Removed(c, i)
<1>1. /\ l \in Lists /\ c \in Seq(Nodes) /\ Len(c) \in Nat /\ i \in Nat /\ i >= 1 /\ i <= Len(c)
      /\ Once(c) /\ Linked(next, previous, l, c) /\ num_of_elements[l] = Len(c)
      /\ On(c) \subseteq nodes
      /\ \A k \in 1..Len(c) : c[k] \in Nodes
  BY CellsOfChain
<1>2. n \in nodes /\ n \in On(c) /\ n \in List!Cells /\ n = CellAt(l, c, i)
  BY <1>1, CellsAre DEF On, ListTypes, CellAt
<1>3. d \in Seq(Nodes) /\ Len(d) = Len(c) - 1
  BY <1>1 DEF Removed
<1>4. \A k \in 1..(Len(c) - 1) : d[k] = IF k < i THEN c[k] ELSE c[k + 1]
  BY <1>1 DEF Removed
<1>5. On(d) = On(c) \ {n}
  BY <1>1, RemovedIs
<1>6. Once(d)
  BY <1>1, RemovedIs
<1>7. \A k \in 0..(Len(d) + 1) :
        CellAt(l, d, k) = IF k < i THEN CellAt(l, c, k) ELSE CellAt(l, c, k + 1)
  BY <1>1, RemovedCells
<1>8. \A k \in 0..(Len(c) + 1) : CellAt(l, c, k) \in List!Cells
  BY CellsOfChain
<1>9. \A j, k \in 0..(Len(c) + 1) : CellAt(l, c, j) = CellAt(l, c, k) => j = k
  BY <1>1, CellsDiffer
<1>0. Len(c) \in Nat /\ i \in Nat /\ i >= 1 /\ i <= Len(c)
  BY <1>1
<1>10. i - 1 \in 0..(Len(c) + 1) /\ i \in 0..(Len(c) + 1) /\ i + 1 \in 0..(Len(c) + 1)
  BY <1>1
<1> HIDE DEF c, d
<1>11. previous[n] = CellAt(l, c, i - 1) /\ next[n] = CellAt(l, c, i + 1)
  <2>1. i - 1 \in 0..Len(c) /\ i \in 0..Len(c) /\ (i - 1) + 1 = i
    BY <1>1
  <2> QED
    BY <2>1, <1>1, <1>2 DEF Linked
<1>12. /\ n # CellAt(l, c, i - 1) /\ n # CellAt(l, c, i + 1)
       /\ CellAt(l, c, i - 1) \in List!Cells /\ CellAt(l, c, i + 1) \in List!Cells
  BY <1>1, <1>2, <1>8, <1>9, <1>10
<1>13. /\ next'[CellAt(l, c, i - 1)] = CellAt(l, c, i + 1)
       /\ previous'[CellAt(l, c, i + 1)] = CellAt(l, c, i - 1)
       /\ \A x \in List!Cells : x \notin {n, CellAt(l, c, i - 1)} => next'[x] = next[x]
       /\ \A x \in List!Cells : x \notin {n, CellAt(l, c, i + 1)} => previous'[x] = previous[x]
  BY <1>2, <1>11, <1>12 DEF ListTypes, TakesOut
<1>14. ASSUME NEW k \in 0..Len(d)
       PROVE  /\ next'[CellAt(l, d, k)] = CellAt(l, d, k + 1)
              /\ previous'[CellAt(l, d, k + 1)] = CellAt(l, d, k)
  <2>0. k \in Nat /\ k <= Len(c) - 1 /\ k \in 0..(Len(d) + 1) /\ k + 1 \in 0..(Len(d) + 1)
    BY <1>1, <1>3
  <2>1. CASE k < i - 1
    <3>1. /\ k \in 0..Len(c) /\ k \in 0..(Len(c) + 1) /\ k + 1 \in 0..(Len(c) + 1)
          /\ k # i /\ k # i - 1 /\ k + 1 # i /\ k + 1 # i + 1
      BY <2>0, <2>1, <1>0
    <3>2. CellAt(l, d, k) = CellAt(l, c, k) /\ CellAt(l, d, k + 1) = CellAt(l, c, k + 1)
      BY <2>0, <2>1, <1>1, <1>7
    <3>3. /\ CellAt(l, c, k) \notin {n, CellAt(l, c, i - 1)}
          /\ CellAt(l, c, k + 1) \notin {n, CellAt(l, c, i + 1)}
      BY <3>1, <1>2, <1>9, <1>10
    <3> QED
      BY <3>1, <3>2, <3>3, <1>1, <1>8, <1>13 DEF Linked
  <2>2. CASE k = i - 1
    <3>1. CellAt(l, d, k) = CellAt(l, c, i - 1) /\ CellAt(l, d, k + 1) = CellAt(l, c, i + 1)
      BY <2>0, <2>2, <1>1, <1>7
    <3> QED
      BY <3>1, <1>13
  <2>3. CASE k > i - 1
    <3>1. /\ k + 1 \in 0..Len(c) /\ k + 1 \in 0..(Len(c) + 1) /\ (k + 1) + 1 \in 0..(Len(c) + 1)
          /\ k + 1 # i /\ k + 1 # i - 1 /\ (k + 1) + 1 # i /\ (k + 1) + 1 # i + 1
      <4>1. k + 1 \in 0..Len(c) /\ k + 1 \in 0..(Len(c) + 1) /\ (k + 1) + 1 \in 0..(Len(c) + 1)
        BY <2>0, <1>0
      <4>2. k + 1 > i
        BY <2>0, <2>3, <1>0
      <4>3. k + 1 # i /\ k + 1 # i - 1 /\ (k + 1) + 1 # i /\ (k + 1) + 1 # i + 1
        BY <4>2, <2>0, <1>0
      <4> QED
        BY <4>1, <4>3
    <3>2. CellAt(l, d, k) = CellAt(l, c, k + 1) /\ CellAt(l, d, k + 1) = CellAt(l, c, (k + 1) + 1)
      BY <2>0, <2>3, <1>1, <1>7
    <3>3. /\ CellAt(l, c, k + 1) \notin {n, CellAt(l, c, i - 1)}
          /\ CellAt(l, c, (k + 1) + 1) \notin {n, CellAt(l, c, i + 1)}
      BY <3>1, <1>2, <1>9, <1>10
    <3> QED
      BY <3>1, <3>2, <3>3, <1>1, <1>8, <1>13 DEF Linked
  <2> QED
    BY <2>0, <2>1, <2>2, <2>3, <1>1
<1>15. next'[List!Post(l)] = List!Post(l) /\ previous'[List!Pre(l)] = List!Pre(l)
  <2>1. List!Post(l) = CellAt(l, c, Len(c) + 1) /\ List!Pre(l) = CellAt(l, c, 0)
    BY <1>1 DEF CellAt
  <2>2. /\ Len(c) + 1 \notin {i, i - 1} /\ 0 \notin {i, i + 1}
        /\ Len(c) + 1 \in 0..(Len(c) + 1) /\ 0 \in 0..(Len(c) + 1)
    BY <1>1
  <2>3. List!Post(l) \notin {n, CellAt(l, c, i - 1)} /\ List!Pre(l) \notin {n, CellAt(l, c, i + 1)}
    BY <2>1, <2>2, <1>2, <1>9, <1>10
  <2> QED
    BY <2>3, <1>1, <1>13, CellsAre DEF Linked
<1>16. Linked(next', previous', l, d)
  BY <1>14, <1>15 DEF Linked
<1>17. ASSUME NEW x \in List!Cells, x \notin {List!Pre(l), List!Post(l)} \cup On(c) \cup On(d)
       PROVE  next'[x] = next[x] /\ previous'[x] = previous[x]
  <2>1. \A k \in 0..(Len(c) + 1) : CellAt(l, c, k) \in {List!Pre(l), List!Post(l)} \cup On(c)
    BY CellsOfChain DEF c
  <2> QED
    BY <2>1, <1>2, <1>10, <1>13, <1>17
<1>18. Rechain(ch, l, d)
  BY <1>1, <1>2, <1>3, <1>5, <1>6, <1>16, <1>17 DEF Rechain, c, ListTypes, TakesOut
<1> QED
  BY <1>3, <1>5, <1>18 DEF c, d

\* remove_all() passes every element.
LEMMA PassedIs ==
  ASSUME ListTypes, NEW ch, Chained(ch), NEW l \in lists
  PROVE  List!Passed(l) = On(ch[l])
<1> DEFINE c == ch[l]
<1>1. /\ c \in Seq(Nodes) /\ Len(c) \in Nat
      /\ Linked(next, previous, l, c) /\ num_of_elements[l] = Len(c)
  BY CellsOfChain
<1> HIDE DEF c
<1>2. List!Chain(l) = c
  BY <1>1, ChainIs
<1>3. c = [k \in 1..Len(c) |-> c[k]]
  BY <1>1
<1>4. List!ToSet(c) = On(c)
  BY <1>1, <1>3 DEF List!ToSet, On
<1>5. ASSUME NEW k \in 1..Len(c)
      PROVE  previous[next[c[k]]] = c[k]
  <2>1. k \in 0..Len(c) /\ CellAt(l, c, k) = c[k]
    BY <1>1 DEF CellAt
  <2> QED
    BY <2>1, <1>1 DEF Linked
<1>6. List!Passed(l) = On(c)
  BY <1>2, <1>4, <1>5 DEF List!Passed, On
<1> QED
  BY <1>6 DEF c

\* All elements of a list are freed.
LEMMA RemoveAllRechains ==
  ASSUME ListTypes, NEW ch, Chained(ch), NEW l \in lists,
         lists' \subseteq lists, lists' \cup {l} = lists,
         List!RemoveAll(l)
  PROVE  Rechain(ch, l, <<>>)
<1> DEFINE c == ch[l]
<1>1. /\ l \in Lists /\ c \in Seq(Nodes) /\ Len(c) \in Nat
      /\ Once(c) /\ Linked(next, previous, l, c) /\ num_of_elements[l] = Len(c)
      /\ On(c) \subseteq nodes
  BY CellsOfChain
<1> HIDE DEF c
<1>2. List!Passed(l) = On(c)
  BY PassedIs DEF c
<1>3. {List!Pre(l), List!Post(l)} \cap On(c) = {} /\ List!Pre(l) # List!Post(l)
  BY <1>1, CellsAre DEF ListTypes, List!Pre, List!Post
<1>4. Len(<<>>) = 0 /\ On(<<>>) = {} /\ Once(<<>>)
  BY DEF On, Once
<1>5. Linked(next', previous', l, <<>>)
  <2>1. /\ next'[List!Pre(l)] = List!Post(l) /\ previous'[List!Post(l)] = List!Pre(l)
        /\ next'[List!Post(l)] = next[List!Post(l)] /\ previous'[List!Pre(l)] = previous[List!Pre(l)]
    BY <1>1, <1>2, <1>3, CellsAre DEF List!RemoveAll
  <2> QED
    BY <2>1, <1>1, <1>4 DEF Linked, CellAt
<1>6. \A x \in List!Cells :
        x \notin {List!Pre(l), List!Post(l)} \cup On(c) => next'[x] = next[x] /\ previous'[x] = previous[x]
  BY <1>2 DEF List!RemoveAll
<1>7. /\ nodes' = nodes \ On(c)
      /\ num_of_elements' = [num_of_elements EXCEPT ![l] = 0]
  BY <1>2 DEF List!RemoveAll, List!Freed
<1> QED
  BY <1>1, <1>4, <1>5, <1>6, <1>7 DEF Rechain, c, ListTypes

\* A new list: its elements are those that are allocated.
LEMMA BuildRechains ==
  ASSUME ListTypes, NEW ch, Chained(ch), NEW l \in Lists \ lists, NEW vs, NEW size \in Nat,
         DOMAIN vs = 1..size, Len(vs) = size,
         List!Build(l, vs)
  PROVE  /\ \E c \in Seq(Nodes) :
              /\ Rechain(ch, l, c) /\ On(c) \subseteq List!Free /\ Len(c) = size
              /\ \A k \in 1..size : pointer'[c[k]] = vs[k]
              /\ \A n \in Nodes : n \notin On(c) => pointer'[n] = pointer[n]
         /\ next' \in [List!Cells -> List!Cells \cup {NULL}]
         /\ previous' \in [List!Cells -> List!Cells \cup {NULL}]
<1>1. PICK new \in [1..size -> List!Free] :
        LET chain == <<List!Pre(l)>> \o new \o <<List!Post(l)>>
            At(c) == CHOOSE k \in DOMAIN chain : chain[k] = c
        IN /\ List!IsInjective(new)
           /\ lists' = lists \cup {l}
           /\ nodes' = nodes \cup List!ToSet(new)
           /\ next' = [c \in List!Cells |->
                         IF c = List!Post(l) THEN c
                         ELSE IF c \in List!ToSet(chain) THEN chain[At(c) + 1] ELSE next[c]]
           /\ previous' = [c \in List!Cells |->
                             IF c = List!Pre(l) THEN c
                             ELSE IF c \in List!ToSet(chain) THEN chain[At(c) - 1] ELSE previous[c]]
           /\ pointer' = [n \in Nodes |-> IF n \in List!ToSet(new) THEN vs[At(n) - 1] ELSE pointer[n]]
           /\ num_of_elements' = [num_of_elements EXCEPT ![l] = Len(vs)]
  BY Zenon DEF List!Build
<1> DEFINE chain == <<List!Pre(l)>> \o new \o <<List!Post(l)>>
           At(c) == CHOOSE k \in DOMAIN chain : chain[k] = c
<1>2. new \in Seq(Nodes) /\ Len(new) = size /\ (\A k \in 1..size : new[k] \in List!Free)
  BY DEF List!Free
<1>3. ch[l] = <<>> /\ On(ch[l]) = {}
  BY DEF Chained, On
<1>4. Once(new)
  BY <1>1, <1>2 DEF List!IsInjective, Once
<1>5. List!ToSet(new) = On(new) /\ On(new) \subseteq List!Free
  BY <1>1, <1>2 DEF List!ToSet, On
<1>6. DOMAIN chain = 1..(size + 2) /\ \A k \in 0..(size + 1) : chain[k + 1] = CellAt(l, new, k)
  BY <1>2 DEF CellAt
<1>7. List!ToSet(chain) = {List!Pre(l), List!Post(l)} \cup On(new)
  <2>1. \A k \in 1..(size + 2) : chain[k] = CellAt(l, new, k - 1)
    <3>1. \A k \in 1..(size + 2) : k - 1 \in 0..(size + 1) /\ (k - 1) + 1 = k
      OBVIOUS
    <3> QED
      BY <1>6, <3>1
  <2>2. List!Pre(l) = chain[1] /\ List!Post(l) = chain[size + 2]
    <3>1. /\ 0 \in 0..(size + 1) /\ size + 1 \in 0..(size + 1) /\ size + 1 # 0
          /\ 0 + 1 = 1 /\ (size + 1) + 1 = size + 2
      OBVIOUS
    <3>2. CellAt(l, new, 0) = List!Pre(l) /\ CellAt(l, new, size + 1) = List!Post(l)
      BY <3>1, <1>2 DEF CellAt
    <3> HIDE DEF chain
    <3> QED
      BY <1>6, <3>1, <3>2
  <2>3. \A k \in 1..size : k + 1 \in 1..(size + 2) /\ chain[k + 1] = new[k]
    BY <1>6, <1>2 DEF CellAt
  <2>4. \A k \in 0..(size + 1) : CellAt(l, new, k) \in {List!Pre(l), List!Post(l)} \cup On(new)
    BY <1>2 DEF CellAt, On
  <2>5. ASSUME NEW k \in 1..(size + 2)
        PROVE  chain[k] \in {List!Pre(l), List!Post(l)} \cup On(new)
    BY <2>1, <2>4
  <2>6. 1 \in 1..(size + 2) /\ size + 2 \in 1..(size + 2)
    OBVIOUS
  <2> HIDE DEF chain
  <2>7. List!ToSet(chain) = {chain[k] : k \in 1..(size + 2)} /\ On(new) = {new[k] : k \in 1..size}
    BY <1>2, <1>6 DEF List!ToSet, On
  <2>8. {List!Pre(l), List!Post(l)} \subseteq List!ToSet(chain)
    BY <2>2, <2>6, <2>7
  <2>9. On(new) \subseteq List!ToSet(chain)
    BY <2>3, <2>7
  <2>10. List!ToSet(chain) \subseteq {List!Pre(l), List!Post(l)} \cup On(new)
    BY <2>5, <2>7
  <2> QED
    BY <2>8, <2>9, <2>10
<1> HIDE DEF chain
<1>8. \A k \in 0..(size + 1) : CellAt(l, new, k) \in List!ToSet(chain) /\ At(CellAt(l, new, k)) = k + 1
  <2>1. ASSUME NEW k \in 0..(size + 1)
        PROVE  /\ CellAt(l, new, k) \in List!ToSet(chain) /\ At(CellAt(l, new, k)) = k + 1
    <3>1. k + 1 \in DOMAIN chain /\ chain[k + 1] = CellAt(l, new, k)
      BY <1>6
    <3>2. ASSUME NEW j \in DOMAIN chain, chain[j] = CellAt(l, new, k)
          PROVE  j = k + 1
      <4>1. j - 1 \in 0..(size + 1) /\ j = (j - 1) + 1
        BY <1>6
      <4>2. CellAt(l, new, j - 1) = CellAt(l, new, k)
        BY <4>1, <3>2, <1>6
      <4> QED
        BY <4>1, <4>2, <1>2, <1>4, CellsDiffer
    <3> QED
      BY <3>1, <3>2 DEF List!ToSet
  <2> QED
    BY <2>1
<1>9. /\ List!Post(l) = CellAt(l, new, size + 1) /\ List!Pre(l) = CellAt(l, new, 0)
      /\ \A k \in 0..(size + 1) : CellAt(l, new, k) \in List!Cells
  BY <1>2, CellsAre DEF CellAt
<1>10. ASSUME NEW k \in 0..size
       PROVE  /\ next'[CellAt(l, new, k)] = CellAt(l, new, k + 1)
              /\ previous'[CellAt(l, new, k + 1)] = CellAt(l, new, k)
  <2>1. /\ k \in 0..(size + 1) /\ k + 1 \in 0..(size + 1) /\ k # size + 1 /\ k + 1 # 0
        /\ size + 1 \in 0..(size + 1) /\ 0 \in 0..(size + 1) /\ ((k + 1) + 1) - 1 = k + 1
    OBVIOUS
  <2>2. CellAt(l, new, k) # List!Post(l) /\ CellAt(l, new, k + 1) # List!Pre(l)
    BY <2>1, <1>2, <1>4, <1>9, CellsDiffer
  <2>3. /\ next'[CellAt(l, new, k)] = chain[At(CellAt(l, new, k)) + 1]
        /\ previous'[CellAt(l, new, k + 1)] = chain[At(CellAt(l, new, k + 1)) - 1]
    BY <2>1, <2>2, <1>1, <1>8, <1>9 DEF chain
  <2> QED
    BY <2>1, <2>3, <1>6, <1>8
<1>11. next'[List!Post(l)] = List!Post(l) /\ previous'[List!Pre(l)] = List!Pre(l)
  BY <1>1, CellsAre
<1>12. Linked(next', previous', l, new)
  BY <1>2, <1>10, <1>11 DEF Linked
<1>13. \A x \in List!Cells :
         x \notin {List!Pre(l), List!Post(l)} \cup On(new) => next'[x] = next[x] /\ previous'[x] = previous[x]
  BY <1>1, <1>7 DEF chain
<1>14. On(new) \cap nodes = {}
  BY <1>5 DEF List!Free
<1>15. Rechain(ch, l, new)
  BY <1>1, <1>2, <1>3, <1>4, <1>5, <1>12, <1>13, <1>14 DEF Rechain, ListTypes
<1>16. \A x \in List!Cells : next'[x] \in List!Cells \cup {NULL} /\ previous'[x] \in List!Cells \cup {NULL}
  <2>1. ASSUME NEW k \in 0..(size + 1)
        PROVE  next'[CellAt(l, new, k)] \in List!Cells /\ previous'[CellAt(l, new, k)] \in List!Cells
    <3>1. \/ k \in 0..size /\ k + 1 \in 0..(size + 1)
          \/ k = size + 1
      OBVIOUS
    <3>2. \/ k = 0
          \/ k - 1 \in 0..size /\ k - 1 \in 0..(size + 1) /\ (k - 1) + 1 = k
      OBVIOUS
    <3>3. next'[CellAt(l, new, k)] \in List!Cells
      BY <3>1, <1>9, <1>10, <1>11, CellsAre
    <3>4. previous'[CellAt(l, new, k)] \in List!Cells
      BY <3>2, <1>9, <1>10, <1>11, CellsAre
    <3> QED
      BY <3>3, <3>4
  <2>2. \A x \in {List!Pre(l), List!Post(l)} \cup On(new) : \E k \in 0..(size + 1) : x = CellAt(l, new, k)
    <3>1. \A k \in 1..size : k \in 0..(size + 1) /\ CellAt(l, new, k) = new[k]
      BY <1>2 DEF CellAt
    <3>2. 0 \in 0..(size + 1) /\ size + 1 \in 0..(size + 1)
      OBVIOUS
    <3> QED
      BY <3>1, <3>2, <1>2, <1>9 DEF On
  <2> QED
    BY <2>1, <2>2, <1>13 DEF ListTypes
<1>17. next' = [x \in List!Cells |-> next'[x]] /\ previous' = [x \in List!Cells |-> previous'[x]]
  <2> DEFINE Next2(x) == IF x = List!Post(l) THEN x
                         ELSE IF x \in List!ToSet(chain) THEN chain[At(x) + 1] ELSE next[x]
             Previous2(x) == IF x = List!Pre(l) THEN x
                             ELSE IF x \in List!ToSet(chain) THEN chain[At(x) - 1] ELSE previous[x]
  <2>1. next' = [x \in List!Cells |-> Next2(x)] /\ previous' = [x \in List!Cells |-> Previous2(x)]
    BY <1>1, Zenon DEF chain
  <2> HIDE DEF Next2, Previous2
  <2> QED
    BY <2>1
<1>18. \A n \in Nodes : pointer'[n] = IF n \in On(new) THEN vs[At(n) - 1] ELSE pointer[n]
  <2> DEFINE Pointer2(S, n) == IF n \in S THEN vs[At(n) - 1] ELSE pointer[n]
  <2>1. pointer' = [n \in Nodes |-> Pointer2(List!ToSet(new), n)]
    BY <1>1, Zenon DEF chain
  <2>2. List!ToSet(new) = On(new)
    BY <1>5
  <2> HIDE DEF Pointer2, At
  <2>3. pointer' = [n \in Nodes |-> Pointer2(On(new), n)]
    BY <2>1, <2>2
  <2>4. \A n \in Nodes : pointer'[n] = Pointer2(On(new), n)
    BY <2>3
  <2> QED
    BY <2>4, Zenon DEF Pointer2
<1>19. ASSUME NEW k \in 1..size
       PROVE  pointer'[new[k]] = vs[k]
  <2>1. /\ k \in 0..(size + 1) /\ CellAt(l, new, k) = new[k] /\ new[k] \in Nodes
        /\ new[k] \in On(new) /\ (k + 1) - 1 = k
    BY <1>2 DEF CellAt, On
  <2>2. At(new[k]) = k + 1
    BY <1>8, <2>1
  <2> QED
    BY <1>18, <2>1, <2>2
<1> QED
  BY <1>2, <1>5, <1>15, <1>16, <1>17, <1>18, <1>19

----------------------------------------------------------------------------
(* The steps.                                                              *)

LEMMA RechainInv ==
  ASSUME ListTypes, ListTypes',
         NEW ch, Chained(ch), \A m \in lists : CursorOf(m, ch[m]),
         NEW l \in Lists, NEW c \in Seq(Nodes), Rechain(ch, l, c),
         On(c) \ On(ch[l]) \subseteq List!Free,
         \A m \in lists : m # l => current'[m] = current[m],
         l \in lists' => CursorOf(l, c)' \/ (l \in lists /\ current'[l] = current[l])
  PROVE  ListInv'
<1> DEFINE to == [ch EXCEPT ![l] = c]
<1>1. Chained(to)'
  BY RechainKeeps
<1>2. to[l] = c
  BY DEF Chained
<1>3. ASSUME NEW m \in lists, current'[m] = current[m]
      PROVE  CursorOf(m, to[m])'
  BY <1>3, CursorStays
<1>4. \A m \in lists' : m # l => m \in lists
  BY DEF Rechain
<1> HIDE DEF to
<1>5. \A m \in lists' : CursorOf(m, to[m])'
  <2>1. ASSUME CursorOf(l, c)'
        PROVE  CursorOf(l, to[l])'
    BY <2>1, <1>2
  <2> QED
    BY <2>1, <1>3, <1>4
<1> QED
  BY <1>1, <1>5 DEF ListInv

\* A step that moves the cursor of one list.
LEMMA MoveInv ==
  ASSUME ListTypes, NEW ch, Chained(ch), \A m \in lists : CursorOf(m, ch[m]),
         NEW l \in lists, UNCHANGED <<lists, List!links>>,
         NEW x, MayBeAt(l, ch[l], x), current' = [current EXCEPT ![l] = x]
  PROVE  ListInv'
<1>1. Chained(ch)'
  BY DEF Chained, List!links, Linked
<1>2. ListTypes'
  BY DEF ListTypes, List!links
<1>3. \A m \in lists : CursorOf(m, ch[m])'
  BY DEF CursorOf, MayBeAt, List!links, ListTypes
<1> QED
  BY <1>1, <1>2, <1>3 DEF ListInv, List!links

\* A step that leaves everything as it is, or reads freed memory.
LEMMA RestInv ==
  ASSUME ListInv, UNCHANGED <<lists, List!links, current>>
  PROVE  ListInv'
<1>1. PICK ch : Chained(ch) /\ \A m \in lists : CursorOf(m, ch[m])
  BY DEF ListInv
<1>2. Chained(ch)'
  BY <1>1 DEF Chained, List!links, Linked
<1>3. ListTypes'
  BY DEF ListTypes, List!links, ListInv
<1>4. \A m \in lists : CursorOf(m, ch[m])'
  BY <1>1 DEF CursorOf, MayBeAt, List!links
<1> QED
  BY <1>2, <1>3, <1>4 DEF ListInv

LEMMA BuildInv ==
  ASSUME ListInv, NEW l \in Lists \ lists, NEW vs, NEW size \in Nat,
         DOMAIN vs = 1..size, Len(vs) = size, List!Build(l, vs)
  PROVE  ListInv'
<1>1. PICK ch : Chained(ch) /\ \A m \in lists : CursorOf(m, ch[m])
  BY DEF ListInv
<1>2. PICK c \in Seq(Nodes) : Rechain(ch, l, c) /\ On(c) \subseteq List!Free
  BY <1>1, BuildRechains DEF ListInv
<1>3. ListTypes'
  <2>1. num_of_elements' = [num_of_elements EXCEPT ![l] = size] /\ lists' = lists \cup {l}
    BY DEF List!Build
  <2>2. nodes' \subseteq Nodes
    BY <1>2 DEF Rechain, List!Free, ListInv, ListTypes
  <2>3. current' = [m \in Lists |-> current'[m]]
    BY DEF List!Build, ListInv, ListTypes
  <2> QED
    BY <1>1, <2>1, <2>2, <2>3, BuildRechains DEF ListInv, ListTypes
<1>4. current' = [current EXCEPT ![l] = List!Pre(l)]
  BY DEF List!Build
<1>5. CursorOf(l, c)'
  BY <1>4 DEF CursorOf, MayBeAt, ListInv, ListTypes, List!Pre
<1>6. \A m \in lists : m # l => current'[m] = current[m]
  BY <1>4 DEF ListInv, ListTypes
<1> QED
  BY <1>1, <1>2, <1>3, <1>5, <1>6, RechainInv DEF ListInv

LEMMA RemoveAllInv ==
  ASSUME ListInv, NEW l \in lists, List!RemoveAll(l),
         lists' \subseteq lists, lists' \cup {l} = lists,
         \/ l \notin lists' /\ current' = [current EXCEPT ![l] = NULL]
         \/ UNCHANGED current
  PROVE  ListInv'
<1>1. PICK ch : Chained(ch) /\ \A m \in lists : CursorOf(m, ch[m])
  BY DEF ListInv
<1>2. Rechain(ch, l, <<>>)
  BY <1>1, RemoveAllRechains DEF ListInv
<1>3. ListTypes'
  <2>1. l \in Lists /\ {List!Pre(l), List!Post(l)} \subseteq List!Cells
    BY CellsAre DEF ListInv, ListTypes
  <2>2. /\ next' \in [List!Cells -> List!Cells \cup {NULL}]
        /\ previous' \in [List!Cells -> List!Cells \cup {NULL}]
    BY <2>1 DEF ListInv, ListTypes, List!RemoveAll
  <2>3. num_of_elements' \in [Lists -> Nat] /\ nodes' \subseteq Nodes
    BY <2>1 DEF ListInv, ListTypes, List!RemoveAll, List!Freed
  <2>4. lists' \subseteq Lists /\ current' = [m \in Lists |-> current'[m]]
    BY DEF ListInv, ListTypes
  <2> QED
    BY <2>2, <2>3, <2>4 DEF ListTypes
<1>4. <<>> \in Seq(Nodes) /\ On(<<>>) = {} /\ l \in Lists
  BY DEF On, ListInv, ListTypes
<1>5. \A m \in lists : m # l \/ l \in lists' => current'[m] = current[m]
  BY DEF ListInv, ListTypes
<1> QED
  BY <1>1, <1>2, <1>3, <1>4, <1>5, RechainInv DEF ListInv

LEMMA InsertInv ==
  ASSUME ListInv, NEW l \in lists, NEW ch, Chained(ch), \A m \in lists : CursorOf(m, ch[m]),
         NEW j \in 0..Len(ch[l]), NEW v,
         List!Insert(l, CellAt(l, ch[l], j), CellAt(l, ch[l], j + 1), v),
         UNCHANGED <<lists, current>>
  PROVE  ListInv'
<1>1. CASE v = NULL
  BY <1>1, RestInv DEF List!Insert
<1>2. CASE v # NULL
  <2>1. PICK new \in List!Free :
          /\ nodes' = nodes \cup {new}
          /\ next' = [next EXCEPT ![new] = CellAt(l, ch[l], j + 1), ![CellAt(l, ch[l], j)] = new]
          /\ previous' = [previous EXCEPT ![new] = CellAt(l, ch[l], j),
                                          ![CellAt(l, ch[l], j + 1)] = new]
          /\ num_of_elements' = [num_of_elements EXCEPT ![l] = @ + 1]
    BY <1>2 DEF List!Insert
  <2>2. /\ Inserted(ch[l], j, new) \in Seq(Nodes)
        /\ Rechain(ch, l, Inserted(ch[l], j, new))
        /\ On(Inserted(ch[l], j, new)) \ On(ch[l]) \subseteq List!Free
    BY <2>1, InsertRechains DEF ListInv
  <2>3. /\ l \in Lists /\ Len(ch[l]) \in Nat
        /\ CellAt(l, ch[l], j) \in List!Cells /\ CellAt(l, ch[l], j + 1) \in List!Cells
    <3>1. Len(ch[l]) \in Nat
      BY CellsOfChain DEF ListInv
    <3>2. j \in 0..(Len(ch[l]) + 1) /\ j + 1 \in 0..(Len(ch[l]) + 1)
      BY <3>1
    <3> QED
      BY <3>1, <3>2, CellsOfChain DEF ListInv
  <2>4. new \in Nodes /\ new \in List!Cells
    BY CellsAre DEF List!Free
  <2>5. ListTypes'
    BY <2>1, <2>3, <2>4 DEF ListInv, ListTypes
  <2> HIDE DEF Inserted
  <2> QED
    BY <2>2, <2>3, <2>5, RechainInv DEF ListInv
<1> QED
  BY <1>1, <1>2

\* An element is unlinked.  The cursor stays, moves to an end, or goes to
\* deleted_element.
LEMMA UnlinkInv ==
  ASSUME ListInv, NEW l \in lists, NEW ch, Chained(ch), \A m \in lists : CursorOf(m, ch[m]),
         NEW i \in 1..Len(ch[l]), NEW n, n = ch[l][i],
         List!Unlink(l, n) \/ List!UnlinkCurrent(l, n),
         \/ UNCHANGED current
         \/ \E x \in {List!Pre(l), List!Post(l), current[l]} : current' = [current EXCEPT ![l] = x]
         \/ current' = [current EXCEPT ![l] = List!Deleted(l, previous[n], next[n])]
  PROVE  ListInv'
<1> DEFINE c == Removed(ch[l], i)
<1>1. TakesOut(l, n)
  BY DEF TakesOut, List!Unlink, List!UnlinkCurrent, List!Freed
<1>2. /\ c \in Seq(Nodes) /\ Rechain(ch, l, c) /\ On(c) = On(ch[l]) \ {n}
  <2>1. ListTypes
    BY DEF ListInv
  <2>2. n \in On(ch[l])
    BY DEF On
  <2>3. c = Removed(ch[l], i)
    OBVIOUS
  <2> HIDE DEF c
  <2> QED
    BY <1>1, <2>1, <2>2, <2>3, UnlinkRechains
<1>3. /\ l \in Lists /\ Len(ch[l]) \in Nat /\ num_of_elements[l] = Len(ch[l])
      /\ Linked(next, previous, l, ch[l]) /\ Once(ch[l])
  BY CellsOfChain DEF ListInv
<1>4. /\ previous[n] = CellAt(l, ch[l], i - 1) /\ next[n] = CellAt(l, ch[l], i + 1)
  <2>1. i - 1 \in 0..Len(ch[l]) /\ i \in 0..Len(ch[l]) /\ (i - 1) + 1 = i /\ CellAt(l, ch[l], i) = n
    BY <1>3 DEF CellAt
  <2> QED
    BY <2>1, <1>3 DEF Linked
<1>5. /\ previous[n] \in List!Cells /\ next[n] \in List!Cells
      /\ previous[n] \in {List!Pre(l), List!Post(l)} \cup On(ch[l])
      /\ next[n] \in {List!Pre(l), List!Post(l)} \cup On(ch[l])
      /\ previous[n] # n /\ next[n] # n
  <2>1. /\ i - 1 \in 0..(Len(ch[l]) + 1) /\ i + 1 \in 0..(Len(ch[l]) + 1) /\ i \in 0..(Len(ch[l]) + 1)
        /\ CellAt(l, ch[l], i) = n /\ i - 1 # i /\ i + 1 # i
    BY <1>3 DEF CellAt
  <2>2. previous[n] # n /\ next[n] # n
    <3>1. ch[l] \in Seq(Nodes)
      BY CellsOfChain DEF ListInv
    <3> QED
      BY <2>1, <3>1, <1>3, <1>4, CellsDiffer
  <2> QED
    BY <2>1, <2>2, <1>4, CellsOfChain DEF ListInv
<1>6. ListTypes'
  <2>1. num_of_elements' \in [Lists -> Nat]
    BY <1>1, <1>3 DEF ListInv, ListTypes, TakesOut
  <2> QED
    BY <2>1, <1>1, <1>5 DEF ListInv, ListTypes, TakesOut
<1> HIDE DEF c
<1>7. CursorOf(l, c)' \/ current'[l] = current[l]
  <2>1. ASSUME NEW x \in {List!Pre(l), List!Post(l)}, current' = [current EXCEPT ![l] = x]
        PROVE  CursorOf(l, c)'
    BY <2>1, <1>3 DEF CursorOf, MayBeAt, List!Pre, List!Post, ListInv, ListTypes
  <2>2. ASSUME current' = [current EXCEPT ![l] = List!Deleted(l, previous[n], next[n])]
        PROVE  CursorOf(l, c)'
    <3>1. PICK before \in List!Cells, after \in List!Cells : before = previous[n] /\ after = next[n]
      BY <1>5
    <3>2. current'[l] = List!Deleted(l, before, after)
      BY <2>2, <3>1, <1>3 DEF ListInv, ListTypes
    <3>3. /\ before \in {List!Pre(l), List!Post(l)} \cup On(c)
          /\ after \in {List!Pre(l), List!Post(l)} \cup On(c)
      BY <3>1, <1>2, <1>5
    <3>4. MayBeAt(l, c, before)' /\ MayBeAt(l, c, after)'
      BY <3>3 DEF MayBeAt, List!Pre, List!Post
    <3> QED
      BY <3>2, <3>4 DEF CursorOf, List!Cells, List!Deleted
  <2>3. ASSUME current' = [current EXCEPT ![l] = current[l]]
        PROVE  current'[l] = current[l]
    BY <2>3, <1>3 DEF ListInv, ListTypes
  <2> QED
    BY <2>1, <2>2, <2>3
<1>8. \A m \in lists : m # l => current'[m] = current[m]
  BY DEF ListInv, ListTypes
<1>9. On(c) \ On(ch[l]) \subseteq List!Free
  BY <1>2
<1> QED
  BY <1>1, <1>2, <1>3, <1>6, <1>7, <1>8, <1>9, RechainInv DEF ListInv

\* What is next to a cell of a list is one of its cells.
LEMMA NeighboursInList ==
  ASSUME ListTypes, NEW ch, Chained(ch), NEW l \in lists,
         NEW x \in {List!Pre(l), List!Post(l)} \cup On(ch[l])
  PROVE  /\ next[x] \in {List!Pre(l), List!Post(l)} \cup On(ch[l])
         /\ previous[x] \in {List!Pre(l), List!Post(l)} \cup On(ch[l])
<1>1. /\ Len(ch[l]) \in Nat /\ Linked(next, previous, l, ch[l])
      /\ \A k \in 0..(Len(ch[l]) + 1) :
           CellAt(l, ch[l], k) \in {List!Pre(l), List!Post(l)} \cup On(ch[l])
  BY CellsOfChain
<1>2. CellAt(l, ch[l], 0) = List!Pre(l) /\ CellAt(l, ch[l], Len(ch[l]) + 1) = List!Post(l)
  BY <1>1 DEF CellAt
<1>3. PICK k \in 0..(Len(ch[l]) + 1) : x = CellAt(l, ch[l], k)
  <2>1. \A k \in 1..Len(ch[l]) : k \in 0..(Len(ch[l]) + 1) /\ CellAt(l, ch[l], k) = ch[l][k]
    BY <1>1 DEF CellAt
  <2>2. 0 \in 0..(Len(ch[l]) + 1) /\ Len(ch[l]) + 1 \in 0..(Len(ch[l]) + 1)
    BY <1>1
  <2> QED
    BY <2>1, <2>2, <1>2 DEF On
<1>4. next[x] \in {List!Pre(l), List!Post(l)} \cup On(ch[l])
  <2>1. k = Len(ch[l]) + 1 \/ (k \in 0..Len(ch[l]) /\ k + 1 \in 0..(Len(ch[l]) + 1))
    BY <1>1
  <2> QED
    BY <2>1, <1>1, <1>2, <1>3 DEF Linked
<1>5. previous[x] \in {List!Pre(l), List!Post(l)} \cup On(ch[l])
  <2>1. k = 0 \/ (k - 1 \in 0..Len(ch[l]) /\ k - 1 \in 0..(Len(ch[l]) + 1) /\ (k - 1) + 1 = k)
    BY <1>1
  <2> QED
    BY <2>1, <1>1, <1>2, <1>3 DEF Linked
<1> QED
  BY <1>4, <1>5

LEMMA GapIsDeleted ==
  ASSUME NEW l \in Lists, NEW before \in List!Cells, NEW after \in List!Cells
  PROVE  /\ List!IsDeleted(List!Deleted(l, before, after))
         /\ List!Deleted(l, before, after)[3] = before
         /\ List!Deleted(l, before, after)[4] = after
<1>1. List!Deleted(l, before, after) \notin Nodes \cup {NULL}
  BY ListsAssumption DEF List!ListAssumption
<1>2. List!Deleted(l, before, after) \notin Lists \X {"pre_element", "post_element"}
  BY DEF List!Deleted
<1>3. List!IsDeleted(List!Deleted(l, before, after))
  BY <1>1, <1>2 DEF List!IsDeleted, List!Cells
<1> QED
  BY <1>3 DEF List!Deleted

LEMMA GoToInv ==
  ASSUME ListInv, NEW l \in lists, NEW ch, Chained(ch), \A m \in lists : CursorOf(m, ch[m]),
         NEW x, MayBeAt(l, ch[l], x), List!GoTo(l, x)
  PROVE  ListInv'
<1>1. CASE List!Valid(x)
  <2>1. UNCHANGED <<lists, List!links>> /\ current' = [current EXCEPT ![l] = x]
    BY <1>1 DEF List!GoTo
  <2> QED
    BY <2>1, MoveInv DEF ListInv
<1>2. CASE ~List!Valid(x)
  BY <1>2, RestInv DEF List!GoTo, List!ReadsFreed
<1> QED
  BY <1>1, <1>2

LEMMA ReadInv ==
  ASSUME ListInv, NEW l \in Lists, List!Read(l)
  PROVE  ListInv'
<1>1. PICK ch : Chained(ch) /\ \A m \in lists : CursorOf(m, ch[m])
  BY DEF ListInv
<1>2. l \in lists
  BY DEF List!Read, List!listGetFirst, List!listGetLast, List!listGetNext, List!listGetPrevious,
         List!listGetCurrent
<1> DEFINE InList == {List!Pre(l), List!Post(l)} \cup On(ch[l])
<1>3. \A x \in InList : next[x] \in InList /\ previous[x] \in InList
  BY <1>1, <1>2, NeighboursInList DEF ListInv
<1>4. \A x \in InList : MayBeAt(l, ch[l], x) /\ x \in List!Cells
  <2>1. On(ch[l]) \subseteq Nodes
    BY <1>1, <1>2, CellsOfChain DEF ListInv, ListTypes
  <2> QED
    BY <2>1, <1>2, CellsAre DEF MayBeAt, ListInv, ListTypes
<1>5. ASSUME MayBeAt(l, ch[l], current[l]), List!Valid(current[l])
      PROVE  current[l] \in InList /\ ~List!IsDeleted(current[l])
  <2>1. current[l] \in InList
    BY <1>5 DEF MayBeAt, List!Valid
  <2> QED
    BY <2>1, <1>4 DEF List!IsDeleted
<1> HIDE DEF InList
<1>6. CASE List!listGetFirst(l)
  <2>1. previous[next[next[List!Pre(l)]]] \in InList
    <3>1. List!Pre(l) \in InList
      BY DEF InList
    <3> QED
      BY <3>1, <1>3
  <2> QED
    BY <2>1, <1>1, <1>2, <1>4, <1>6, GoToInv DEF List!listGetFirst
<1>7. CASE List!listGetLast(l)
  <2>1. next[previous[previous[List!Post(l)]]] \in InList
    <3>1. List!Post(l) \in InList
      BY DEF InList
    <3> QED
      BY <3>1, <1>3
  <2> QED
    BY <2>1, <1>1, <1>2, <1>4, <1>7, GoToInv DEF List!listGetLast
<1>8. CASE List!listGetNext(l)
  <2>1. CASE ~List!Valid(current[l])
    BY <2>1, <1>8, RestInv DEF List!listGetNext, List!ReadsFreed
  <2>2. CASE List!Valid(current[l])
    <3>1. List!GoTo(l, List!NextOf(current[l]))
      BY <2>2, <1>8 DEF List!listGetNext
    <3>2. MayBeAt(l, ch[l], List!NextOf(current[l]))
      <4>1. CASE MayBeAt(l, ch[l], current[l])
        BY <4>1, <2>2, <1>3, <1>4, <1>5 DEF List!NextOf
      <4>2. CASE \E before, after \in List!Cells :
                   /\ current[l] = List!Deleted(l, before, after)
                   /\ MayBeAt(l, ch[l], before) /\ MayBeAt(l, ch[l], after)
        BY <4>2, <1>2, GapIsDeleted DEF List!NextOf, ListInv, ListTypes
      <4> QED
        BY <4>1, <4>2, <1>1, <1>2 DEF CursorOf
    <3> QED
      BY <3>1, <3>2, <1>1, <1>2, GoToInv
  <2> QED
    BY <2>1, <2>2
<1>9. CASE List!listGetPrevious(l)
  <2>1. CASE ~List!Valid(current[l])
    BY <2>1, <1>9, RestInv DEF List!listGetPrevious, List!ReadsFreed
  <2>2. CASE List!Valid(current[l])
    <3>1. List!GoTo(l, List!PreviousOf(current[l]))
      BY <2>2, <1>9 DEF List!listGetPrevious
    <3>2. MayBeAt(l, ch[l], List!PreviousOf(current[l]))
      <4>1. CASE MayBeAt(l, ch[l], current[l])
        BY <4>1, <2>2, <1>3, <1>4, <1>5 DEF List!PreviousOf
      <4>2. CASE \E before, after \in List!Cells :
                   /\ current[l] = List!Deleted(l, before, after)
                   /\ MayBeAt(l, ch[l], before) /\ MayBeAt(l, ch[l], after)
        BY <4>2, <1>2, GapIsDeleted DEF List!PreviousOf, ListInv, ListTypes
      <4> QED
        BY <4>1, <4>2, <1>1, <1>2 DEF CursorOf
    <3> QED
      BY <3>1, <3>2, <1>1, <1>2, GoToInv
  <2> QED
    BY <2>1, <2>2
<1>10. CASE List!listGetCurrent(l)
  <2>1. UNCHANGED <<lists, List!links, current>>
    BY <1>10, <1>2 DEF List!listGetCurrent, List!GoTo, List!ReadsFreed, ListInv, ListTypes
  <2> QED
    BY <2>1, RestInv
<1> QED
  BY <1>6, <1>7, <1>8, <1>9, <1>10 DEF List!Read

LEMMA ChangeInv ==
  ASSUME ListInv, NEW l \in Lists, List!Change(l)
  PROVE  ListInv'
<1>1. PICK ch : Chained(ch) /\ \A m \in lists : CursorOf(m, ch[m])
  BY DEF ListInv
<1>2. CASE List!newList(l)
  <2>1. DOMAIN <<>> = 1..0 /\ Len(<<>>) = 0 /\ l \in Lists \ lists /\ List!Build(l, <<>>)
    BY <1>2 DEF List!newList
  <2> QED
    BY <2>1, BuildInv
<1>3. CASE List!listRelease(l)
  <2>1. /\ l \in lists /\ List!RemoveAll(l) /\ lists' = lists \ {l}
        /\ current' = [current EXCEPT ![l] = NULL]
    BY <1>3 DEF List!listRelease
  <2>2. l \notin lists' /\ lists' \subseteq lists /\ lists' \cup {l} = lists
    BY <2>1
  <2> QED
    BY <2>1, <2>2, RemoveAllInv
<1>4. CASE List!listClear(l)
  <2>1. l \in lists /\ List!RemoveAll(l) /\ lists' = lists /\ UNCHANGED current
    BY <1>4 DEF List!listClear
  <2>2. lists' \subseteq lists /\ lists' \cup {l} = lists
    BY <2>1
  <2> QED
    BY <2>1, <2>2, RemoveAllInv
<1>5. ASSUME NEW m \in Lists, List!listClone(l, m)
      PROVE  ListInv'
  <2>1. l \in lists /\ m \in Lists \ lists /\ List!Build(m, List!ValuesOf(l))
    BY <1>5 DEF List!listClone
  <2>2. /\ ch[l] \in Seq(Nodes) /\ Len(ch[l]) \in Nat
        /\ Linked(next, previous, l, ch[l]) /\ num_of_elements[l] = Len(ch[l])
    BY <1>1, <2>1, CellsOfChain DEF ListInv
  <2>3. List!Chain(l) = ch[l]
    BY <2>2, ChainIs
  <2>4. DOMAIN List!ValuesOf(l) = 1..Len(ch[l]) /\ Len(List!ValuesOf(l)) = Len(ch[l])
    BY <2>2, <2>3 DEF List!ValuesOf
  <2> QED
    BY <2>1, <2>2, <2>4, BuildInv
<1>6. ASSUME NEW v, List!listAppend(l, v)
      PROVE  ListInv'
  <2>1. /\ l \in lists /\ List!Insert(l, previous[List!Post(l)], List!Post(l), v)
        /\ UNCHANGED <<lists, current>>
    BY <1>6 DEF List!listAppend
  <2>2. Len(ch[l]) \in Nat /\ Linked(next, previous, l, ch[l])
    BY <1>1, <2>1, CellsOfChain DEF ListInv
  <2>3. /\ Len(ch[l]) \in 0..Len(ch[l]) /\ List!Post(l) = CellAt(l, ch[l], Len(ch[l]) + 1)
        /\ previous[List!Post(l)] = CellAt(l, ch[l], Len(ch[l]))
    <3>1. Len(ch[l]) \in 0..Len(ch[l]) /\ List!Post(l) = CellAt(l, ch[l], Len(ch[l]) + 1)
      BY <2>2 DEF CellAt
    <3> QED
      BY <3>1, <2>2 DEF Linked
  <2> QED
    BY <1>1, <2>1, <2>3, InsertInv
<1>7. ASSUME NEW v, List!listPrepend(l, v)
      PROVE  ListInv'
  <2>1. /\ l \in lists /\ List!Insert(l, List!Pre(l), next[List!Pre(l)], v)
        /\ UNCHANGED <<lists, current>>
    BY <1>7 DEF List!listPrepend
  <2>2. Len(ch[l]) \in Nat /\ Linked(next, previous, l, ch[l])
    BY <1>1, <2>1, CellsOfChain DEF ListInv
  <2>3. /\ 0 \in 0..Len(ch[l]) /\ List!Pre(l) = CellAt(l, ch[l], 0)
        /\ next[List!Pre(l)] = CellAt(l, ch[l], 0 + 1)
    <3>1. 0 \in 0..Len(ch[l]) /\ List!Pre(l) = CellAt(l, ch[l], 0)
      BY <2>2 DEF CellAt
    <3> QED
      BY <3>1, <2>2 DEF Linked
  <2> QED
    BY <1>1, <2>1, <2>3, InsertInv
<1> QED
  BY <1>2, <1>3, <1>4, <1>5, <1>6, <1>7 DEF List!Change

\* The last of some numbers is one of them.
LEMMA MaxIsOne ==
  ASSUME NEW n \in Nat, NEW T \in SUBSET (1..n), T # {}
  PROVE  List!Max(T) \in T
<1> DEFINE D == {n - i : i \in T}
<1>1. D \in SUBSET Nat /\ D # {}
  <2>1. \A i \in T : n - i \in Nat
    OBVIOUS
  <2>2. PICK i \in T : TRUE
    OBVIOUS
  <2>3. n - i \in D
    OBVIOUS
  <2> QED
    BY <2>1, <2>3
<1> HIDE DEF D
<1>2. PICK d \in D : \A j \in D : d <= j
  BY <1>1, LeastOf
<1>3. PICK m \in T : \A i \in T : m >= i
  <2>1. PICK m \in T : d = n - m
    BY DEF D
  <2>2. \A i \in T : n - i \in D
    BY DEF D
  <2> QED
    BY <1>2, <2>1, <2>2
<1> QED
  BY <1>3 DEF List!Max

LEMMA RemoveOneInv ==
  ASSUME ListInv, NEW l \in Lists, List!RemoveOne(l)
  PROVE  ListInv'
<1>1. PICK ch : Chained(ch) /\ \A m \in lists : CursorOf(m, ch[m])
  BY DEF ListInv
<1>2. l \in lists
  BY DEF List!RemoveOne, List!listRemoveFirst, List!listRemoveLast, List!listRemoveCurrent,
         List!listRemoveThis
<1>3. /\ ch[l] \in Seq(Nodes) /\ Len(ch[l]) \in Nat
      /\ Linked(next, previous, l, ch[l]) /\ num_of_elements[l] = Len(ch[l])
  BY <1>1, <1>2, CellsOfChain DEF ListInv
<1>4. List!Chain(l) = ch[l]
  BY <1>3, ChainIs
<1>5. ASSUME List!NothingThere
      PROVE  ListInv'
  BY <1>5, RestInv DEF List!NothingThere
<1>6. ASSUME NEW i \in 1..Len(ch[l]), List!UnlinkCurrent(l, ch[l][i])
      PROVE  ListInv'
  <2>1. PICK n : n = ch[l][i]
    OBVIOUS
  <2>2. List!UnlinkCurrent(l, n)
    BY <1>6, <2>1
  <2>3. current' = [current EXCEPT ![l] = List!Deleted(l, previous[n], next[n])]
    BY <2>2 DEF List!UnlinkCurrent
  <2> QED
    BY <1>1, <1>2, <2>1, <2>2, <2>3, UnlinkInv
<1>7. CASE List!listRemoveFirst(l)
  <2>1. CASE num_of_elements[l] = 0
    BY <1>5, <1>7, <2>1 DEF List!listRemoveFirst
  <2>2. CASE num_of_elements[l] # 0
    <3>1. 1 \in 1..Len(ch[l]) /\ next[List!Pre(l)] = ch[l][1]
      <4>1. Len(ch[l]) # 0
        BY <2>2, <1>3
      <4>2. 0 \in 0..Len(ch[l]) /\ CellAt(l, ch[l], 0) = List!Pre(l) /\ CellAt(l, ch[l], 0 + 1) = ch[l][1]
        BY <4>1, <1>3 DEF CellAt
      <4> QED
        BY <4>1, <4>2, <1>3 DEF Linked
    <3>2. PICK n : n = ch[l][1]
      OBVIOUS
    <3>3. /\ List!Unlink(l, n)
          /\ \E x \in {List!Pre(l), List!Post(l), current[l]} : current' = [current EXCEPT ![l] = x]
      <4>1. /\ List!Unlink(l, n)
            /\ current' = [current EXCEPT ![l] = IF current[l] = n THEN List!Pre(l) ELSE current[l]]
        BY <1>7, <2>2, <3>1, <3>2 DEF List!listRemoveFirst
      <4> QED
        BY <4>1
    <3> QED
      BY <1>1, <1>2, <3>1, <3>2, <3>3, UnlinkInv
  <2> QED
    BY <2>1, <2>2
<1>8. CASE List!listRemoveLast(l)
  <2>1. CASE num_of_elements[l] = 0
    BY <1>5, <1>8, <2>1 DEF List!listRemoveLast
  <2>2. CASE num_of_elements[l] # 0
    <3>1. Len(ch[l]) \in 1..Len(ch[l]) /\ previous[List!Post(l)] = ch[l][Len(ch[l])]
      <4>1. Len(ch[l]) # 0
        BY <2>2, <1>3
      <4>2. /\ Len(ch[l]) \in 0..Len(ch[l]) /\ CellAt(l, ch[l], Len(ch[l]) + 1) = List!Post(l)
            /\ CellAt(l, ch[l], Len(ch[l])) = ch[l][Len(ch[l])]
        BY <4>1, <1>3 DEF CellAt
      <4> QED
        BY <4>1, <4>2, <1>3 DEF Linked
    <3>2. PICK n : n = ch[l][Len(ch[l])]
      OBVIOUS
    <3>3. /\ List!Unlink(l, n)
          /\ \E x \in {List!Pre(l), List!Post(l), current[l]} : current' = [current EXCEPT ![l] = x]
      <4>1. /\ List!Unlink(l, n)
            /\ current' = [current EXCEPT ![l] = IF current[l] = n THEN List!Post(l) ELSE current[l]]
        BY <1>8, <2>2, <3>1, <3>2 DEF List!listRemoveLast
      <4> QED
        BY <4>1
    <3> QED
      BY <1>1, <1>2, <3>1, <3>2, <3>3, UnlinkInv
  <2> QED
    BY <2>1, <2>2
<1>9. CASE List!listRemoveCurrent(l)
  <2>1. CASE ~List!Valid(current[l])
    BY <1>9, <2>1, RestInv DEF List!listRemoveCurrent, List!ReadsFreed
  <2>2. CASE List!Valid(current[l]) /\ current[l] \notin Nodes
    BY <1>5, <1>9, <2>2 DEF List!listRemoveCurrent
  <2>3. CASE List!Valid(current[l]) /\ current[l] \in Nodes
    <3>1. l \in Lists /\ current[l] \in nodes
      BY <2>3 DEF List!Valid
    <3>2. MayBeAt(l, ch[l], current[l])
      <4>1. \A before, after \in List!Cells : List!Deleted(l, before, after) \notin Nodes
        BY ListsAssumption DEF List!ListAssumption
      <4> QED
        BY <4>1, <2>3, <1>1, <1>2 DEF CursorOf
    <3>3. current[l] \in On(ch[l])
      BY <2>3, <3>1, <3>2, CellsAre DEF MayBeAt
    <3>4. PICK i \in 1..Len(ch[l]) : current[l] = ch[l][i]
      BY <3>3 DEF On
    <3>5. List!UnlinkCurrent(l, ch[l][i])
      BY <2>3, <3>4, <1>9 DEF List!listRemoveCurrent
    <3> QED
      BY <3>5, <1>6
  <2> QED
    BY <2>1, <2>2, <2>3
<1>10. ASSUME NEW v, List!listRemoveThis(l, v)
       PROVE  ListInv'
  <2> DEFINE k == List!SelectLastInSeq(List!ValuesOf(l), LAMBDA w : w = v)
  <2>1. k = 0 \/ k \in 1..Len(ch[l])
    <3> DEFINE I == {i \in 1..Len(ch[l]) : List!ValuesOf(l)[i] = v}
    <3>1. Len(List!ValuesOf(l)) = Len(ch[l])
      BY <1>3, <1>4 DEF List!ValuesOf
    <3>2. k = IF I # {} THEN List!Max(I) ELSE 0
      BY <3>1 DEF List!SelectLastInSeq
    <3>3. I \in SUBSET (1..Len(ch[l]))
      OBVIOUS
    <3> HIDE DEF k, I
    <3> QED
      BY <3>2, <3>3, <1>3, MaxIsOne
  <2>2. IF k = 0 THEN List!NothingThere
        ELSE IF ch[l][k] = current[l] THEN List!UnlinkCurrent(l, ch[l][k])
             ELSE List!Unlink(l, ch[l][k]) /\ UNCHANGED current
    BY <1>4, <1>10 DEF List!listRemoveThis
  <2> HIDE DEF k
  <2>3. CASE k \in 1..Len(ch[l]) /\ k # 0 /\ List!Unlink(l, ch[l][k]) /\ UNCHANGED current
    <3>1. PICK n : n = ch[l][k]
      OBVIOUS
    <3>2. List!Unlink(l, n)
      BY <2>3, <3>1
    <3> QED
      BY <1>1, <1>2, <2>3, <3>1, <3>2, UnlinkInv
  <2> QED
    BY <2>1, <2>2, <2>3, <1>5, <1>6
<1> QED
  BY <1>7, <1>8, <1>9, <1>10 DEF List!RemoveOne

LEMMA ListInvInit == List!Init => ListInv
<1> SUFFICES ASSUME List!Init PROVE ListInv
  OBVIOUS
<1>1. ListTypes
  BY DEF List!Init, ListTypes
<1>2. Chained([l \in Lists |-> <<>>])
  <2>1. On(<<>>) = {}
    BY DEF On
  <2> QED
    BY <2>1 DEF List!Init, Chained
<1>3. \A l \in lists : CursorOf(l, [m \in Lists |-> <<>>][l])
  BY DEF List!Init
<1> QED
  BY <1>1, <1>2, <1>3 DEF ListInv

LEMMA ListInvStep == ListInv /\ [List!Next]_listVars => ListInv'
<1> SUFFICES ASSUME ListInv, [List!Next]_listVars PROVE ListInv'
  OBVIOUS
<1>1. CASE UNCHANGED listVars
  BY <1>1, RestInv DEF listVars, List!links
<1>2. CASE List!Next
  <2>1. PICK l \in Lists : List!Change(l) \/ List!RemoveOne(l) \/ List!Read(l)
    BY <1>2 DEF List!Next
  <2> QED
    BY <2>1, ChangeInv, RemoveOneInv, ReadInv
<1> QED
  BY <1>1, <1>2

LEMMA ListInvLinks == ListInv => List!ListsLinked
<1> SUFFICES ASSUME ListInv PROVE List!ListsLinked
  OBVIOUS
<1>1. PICK ch : Chained(ch)
  BY DEF ListInv
<1>2. ASSUME NEW l \in lists
      PROVE  /\ l \in Lists /\ ch[l] \in Seq(Nodes) /\ Len(ch[l]) \in Nat
             /\ Linked(next, previous, l, ch[l])
             /\ List!Chain(l) = ch[l] /\ List!ToSet(List!Chain(l)) = On(ch[l])
  <2>1. /\ l \in Lists /\ ch[l] \in Seq(Nodes) /\ Len(ch[l]) \in Nat
        /\ Linked(next, previous, l, ch[l]) /\ num_of_elements[l] = Len(ch[l])
    BY <1>1, CellsOfChain DEF ListInv
  <2>2. List!Chain(l) = ch[l]
    BY <2>1, ChainIs
  <2>3. List!ToSet(ch[l]) = On(ch[l])
    <3>1. DOMAIN ch[l] = 1..Len(ch[l])
      BY <2>1
    <3> QED
      BY <3>1 DEF List!ToSet, On
  <2> QED
    BY <2>1, <2>2, <2>3
<1>3. ASSUME NEW l \in lists
      PROVE  /\ List!ToSet(List!Chain(l)) \subseteq nodes
             /\ next[IF List!Chain(l) = <<>> THEN List!Pre(l) ELSE List!Last(List!Chain(l))] = List!Post(l)
             /\ \A c \in List!ToSet(List!Chain(l)) \cup {List!Pre(l)} : previous[next[c]] = c
  <2>1. List!ToSet(List!Chain(l)) \subseteq nodes
    BY <1>1, <1>2 DEF Chained
  <2>2. next[CellAt(l, ch[l], Len(ch[l]))] = CellAt(l, ch[l], Len(ch[l]) + 1)
    <3>1. Len(ch[l]) \in 0..Len(ch[l])
      BY <1>2
    <3> QED
      BY <3>1, <1>2 DEF Linked
  <2>3. CellAt(l, ch[l], Len(ch[l])) = IF ch[l] = <<>> THEN List!Pre(l) ELSE List!Last(ch[l])
    <3>1. ch[l] = <<>> <=> Len(ch[l]) = 0
      BY <1>2
    <3> QED
      BY <3>1, <1>2 DEF CellAt, List!Last
  <2>4. CellAt(l, ch[l], Len(ch[l]) + 1) = List!Post(l)
    BY <1>2 DEF CellAt
  <2>5. ASSUME NEW c \in On(ch[l]) \cup {List!Pre(l)}
        PROVE  previous[next[c]] = c
    <3>1. \A k \in 0..Len(ch[l]) : previous[next[CellAt(l, ch[l], k)]] = CellAt(l, ch[l], k)
      BY <1>2 DEF Linked
    <3>2. \A k \in 1..Len(ch[l]) : k \in 0..Len(ch[l]) /\ CellAt(l, ch[l], k) = ch[l][k]
      BY <1>2 DEF CellAt
    <3>3. 0 \in 0..Len(ch[l]) /\ CellAt(l, ch[l], 0) = List!Pre(l)
      BY <1>2 DEF CellAt
    <3> QED
      BY <3>1, <3>2, <3>3 DEF On
  <2> QED
    BY <2>1, <2>2, <2>3, <2>4, <2>5, <1>2
<1>4. nodes = UNION {List!ToSet(List!Chain(l)) : l \in lists}
  <2>1. \A l \in Lists \ lists : On(ch[l]) = {}
    BY <1>1 DEF Chained, On
  <2>2. nodes = UNION {On(ch[l]) : l \in Lists}
    BY <1>1 DEF Chained
  <2>3. \A n \in nodes : \E l \in lists : n \in List!ToSet(List!Chain(l))
    <3>1. \A n \in nodes : \E l \in Lists : n \in On(ch[l])
      BY <2>2
    <3> QED
      BY <3>1, <2>1, <1>2
  <2>4. \A l \in lists : List!ToSet(List!Chain(l)) \subseteq nodes
    BY <1>3
  <2> QED
    BY <2>3, <2>4
<1>5. \A l, m \in lists : l # m => List!ToSet(List!Chain(l)) \cap List!ToSet(List!Chain(m)) = {}
  BY <1>1, <1>2 DEF Chained
<1> QED
  BY <1>3, <1>4, <1>5, Zenon DEF List!ListsLinked

\* Whatever a program does with its lists, the elements of each hang together
\* in both directions, are as many as the list knows, and are in no other list;
\* none that is allocated is in none: genericlist.c.
THEOREM ClientLists == MCSpec => []ListsLinked
<1>1. MCInit => ListInv
  BY ListInvInit DEF MCInit
<1>2. ListInv /\ [MCNext]_<<part, operationVars, vars, bufferVars, listVars, tableVars>> => ListInv'
  <2>1. [MCNext]_<<part, operationVars, vars, bufferVars, listVars, tableVars>>
          => [List!Next]_listVars
    BY DEF MCNext
  <2> QED
    BY <2>1, ListInvStep
<1>3. ListInv => ListsLinked
  BY ListInvLinks DEF ListsLinked
<1> QED
  BY <1>1, <1>2, <1>3, PTL DEF MCSpec

----------------------------------------------------------------------------
(* The lists as ListCursor sees them.                                      *)

ListSeqs == [l \in Lists |-> IF l \in lists THEN List!ValuesOf(l) ELSE NULL]
ListCursors == [l \in Lists |-> List!Cursor(l)]

\* The promise, of the values and cursors of the lists.
Promise == INSTANCE ListCursor WITH
  seq <- ListSeqs, cursor <- ListCursors, answer <- listResult, ended <- listCrashed

\* Cell x is at the place p of a list l whose chain is c, or was freed.
Stands(l, c, x, p) ==
  \/ p \in 0..(Len(c) + 1) /\ x = CellAt(l, c, p)
  \/ p = -1 /\ x \in Nodes \ nodes

ValuesAt(c) == [k \in 1..Len(c) |-> pointer[c[k]]]

\* The cursor of a list l whose chain is c is k.
CursorAt(l, c, k) ==
  \/ \E p : Stands(l, c, current[l], p) /\ k = Promise!On(p)
  \/ \E before, after \in List!Cells : \E p, q :
       /\ current[l] = List!Deleted(l, before, after)
       /\ Stands(l, c, before, p) /\ Stands(l, c, after, q)
       /\ k = Promise!Between(p, q)

PointersTyped == pointer \in [Nodes -> Values \cup {NULL}]

\* What the mapping makes of the lists.
View ==
  /\ ListSeqs = [l \in Lists |-> ListSeqs[l]] /\ ListCursors = [l \in Lists |-> ListCursors[l]]
  /\ \A l \in Lists \ lists : ListSeqs[l] = NULL /\ ListCursors[l] = Promise!On(0)
  /\ \A ch : ListTypes /\ Chained(ch) =>
       \A l \in lists : /\ ListSeqs[l] = ValuesAt(ch[l])
                        /\ \A k : CursorAt(l, ch[l], k) => ListCursors[l] = k

LEMMA PlaceIs ==
  ASSUME ListTypes, NEW ch, Chained(ch), NEW l \in lists, NEW x, NEW p, Stands(l, ch[l], x, p)
  PROVE  List!Place(l, x) = p
<1> DEFINE c == ch[l]
<1>1. /\ l \in Lists /\ c \in Seq(Nodes) /\ Len(c) \in Nat
      /\ Once(c) /\ Linked(next, previous, l, c) /\ num_of_elements[l] = Len(c)
      /\ On(c) \subseteq nodes /\ DOMAIN c = 1..Len(c)
  BY CellsOfChain
<1>2. /\ List!Pre(l) \notin Nodes /\ List!Post(l) \notin Nodes /\ List!Pre(l) # List!Post(l)
      /\ On(c) \subseteq Nodes
  BY <1>1, CellsAre DEF List!Pre, List!Post, ListTypes
<1> HIDE DEF c
<1>3. List!Chain(l) = c
  BY <1>1, ChainIs
<1>4. List!ToSet(c) = On(c)
  BY <1>1 DEF List!ToSet, On
<1>5. List!Place(l, x) = CASE x = List!Pre(l)  -> 0
                           [] x = List!Post(l) -> Len(c) + 1
                           [] x \in On(c)      -> CHOOSE k \in DOMAIN c : c[k] = x
                           [] OTHER            -> -1
  BY <1>3, <1>4, Zenon DEF List!Place
<1>6. CASE p = -1 /\ x \in Nodes \ nodes
  <2>1. x # List!Pre(l) /\ x # List!Post(l) /\ x \notin On(c)
    BY <1>1, <1>2, <1>6
  <2> QED
    BY <1>5, <1>6, <2>1
<1>7. CASE p \in 0..(Len(c) + 1) /\ x = CellAt(l, c, p)
  <2>1. CASE p = 0
    <3>1. x = List!Pre(l) /\ x # List!Post(l) /\ x \notin On(c)
      BY <1>2, <1>7, <2>1 DEF CellAt
    <3> QED
      BY <1>5, <2>1, <3>1
  <2>2. CASE p = Len(c) + 1
    <3>1. x = List!Post(l) /\ x # List!Pre(l) /\ x \notin On(c)
      BY <1>1, <1>2, <1>7, <2>2 DEF CellAt
    <3> QED
      BY <1>5, <2>2, <3>1
  <2>3. CASE p \in 1..Len(c)
    <3>1. x = c[p] /\ x \in On(c)
      BY <1>1, <1>7, <2>3 DEF CellAt, On
    <3>2. x # List!Pre(l) /\ x # List!Post(l)
      BY <1>2, <3>1
    <3>3. \A k \in 1..Len(c) : c[k] = x => k = p
      BY <2>3, <3>1, <1>1 DEF Once
    <3>4. (CHOOSE k \in DOMAIN c : c[k] = x) = p
      BY <2>3, <3>1, <3>3, <1>1
    <3> QED
      BY <1>5, <3>1, <3>2, <3>4
  <2> QED
    BY <2>1, <2>2, <2>3, <1>1, <1>7
<1> QED
  BY <1>6, <1>7 DEF Stands, c

LEMMA ViewIs == View
<1>1. ListSeqs = [l \in Lists |-> ListSeqs[l]] /\ ListCursors = [l \in Lists |-> ListCursors[l]]
  BY DEF ListSeqs, ListCursors
<1>2. \A l \in Lists \ lists : ListSeqs[l] = NULL /\ ListCursors[l] = Promise!On(0)
  BY DEF ListSeqs, ListCursors, List!Cursor, Promise!On
<1>3. ASSUME NEW ch, ListTypes, Chained(ch), NEW l \in lists
      PROVE  ListSeqs[l] = ValuesAt(ch[l])
  <2>1. /\ l \in Lists /\ ch[l] \in Seq(Nodes) /\ DOMAIN ch[l] = 1..Len(ch[l])
        /\ Linked(next, previous, l, ch[l]) /\ num_of_elements[l] = Len(ch[l])
    BY <1>3, CellsOfChain
  <2>2. List!Chain(l) = ch[l]
    BY <2>1, ChainIs
  <2> QED
    BY <1>3, <2>1, <2>2 DEF ListSeqs, List!ValuesOf, ValuesAt
<1>4. ASSUME NEW ch, ListTypes, Chained(ch), NEW l \in lists, NEW k, CursorAt(l, ch[l], k)
      PROVE  ListCursors[l] = k
  <2>1. l \in Lists /\ ListCursors[l] = List!Cursor(l)
    BY <1>4 DEF ListCursors, ListTypes
  <2>2. ASSUME NEW p, Stands(l, ch[l], current[l], p), k = Promise!On(p)
        PROVE  ListCursors[l] = k
    <3>1. current[l] \in List!Cells
      BY <1>4, <2>1, <2>2, CellsOfChain, CellsAre DEF Stands
    <3>2. List!Place(l, current[l]) = p
      BY <1>4, <2>2, PlaceIs
    <3> QED
      BY <1>4, <2>1, <2>2, <3>1, <3>2 DEF List!Cursor, List!IsDeleted, Promise!On
  <2>3. ASSUME NEW before \in List!Cells, NEW after \in List!Cells, NEW p, NEW q,
               current[l] = List!Deleted(l, before, after),
               Stands(l, ch[l], before, p), Stands(l, ch[l], after, q), k = Promise!Between(p, q)
        PROVE  ListCursors[l] = k
    <3>1. List!Place(l, before) = p /\ List!Place(l, after) = q
      BY <1>4, <2>3, PlaceIs
    <3>2. List!IsDeleted(current[l]) /\ current[l][3] = before /\ current[l][4] = after
      <4>1. List!IsDeleted(List!Deleted(l, before, after))
        BY <2>1, GapIsDeleted
      <4> QED
        BY <4>1, <2>3 DEF List!Deleted
    <3> QED
      BY <1>4, <2>1, <2>3, <3>1, <3>2 DEF List!Cursor, Promise!Between
  <2> QED
    BY <1>4, <2>2, <2>3 DEF CursorAt
<1> QED
  BY <1>1, <1>2, <1>3, <1>4 DEF View

LEMMA ViewIsThen == View'
BY ViewIs, PTL

LEMMA ViewNow ==
  ASSUME ListTypes, NEW ch, Chained(ch), NEW l \in lists
  PROVE  ListSeqs[l] = ValuesAt(ch[l]) /\ \A k : CursorAt(l, ch[l], k) => ListCursors[l] = k
BY ViewIs DEF View

LEMMA ViewThen ==
  ASSUME ListTypes', NEW ch, Chained(ch)', NEW l \in lists'
  PROVE  ListSeqs'[l] = ValuesAt(ch[l])' /\ \A k : CursorAt(l, ch[l], k)' => ListCursors'[l] = k
BY ViewIsThen DEF View

\* What the cursor of a list is on, or remembers, has a place.
LEMMA HasPlace ==
  ASSUME ListTypes, NEW ch, Chained(ch), NEW l \in lists, NEW x, MayBeAt(l, ch[l], x)
  PROVE  \E p : Stands(l, ch[l], x, p)
<1>1. Len(ch[l]) \in Nat
  BY CellsOfChain
<1>2. CASE x = List!Pre(l)
  <2>1. 0 \in 0..(Len(ch[l]) + 1) /\ x = CellAt(l, ch[l], 0)
    BY <1>1, <1>2 DEF CellAt
  <2> QED
    BY <2>1 DEF Stands
<1>3. CASE x = List!Post(l)
  <2>1. Len(ch[l]) + 1 \in 0..(Len(ch[l]) + 1) /\ x = CellAt(l, ch[l], Len(ch[l]) + 1)
    BY <1>1, <1>3 DEF CellAt
  <2> QED
    BY <2>1 DEF Stands
<1>4. ASSUME NEW k \in 1..Len(ch[l]), x = ch[l][k]
      PROVE  \E p : Stands(l, ch[l], x, p)
  <2>1. k \in 0..(Len(ch[l]) + 1) /\ x = CellAt(l, ch[l], k)
    BY <1>1, <1>4 DEF CellAt
  <2> QED
    BY <2>1 DEF Stands
<1>5. CASE x \in Nodes \ nodes
  BY <1>5 DEF Stands
<1> QED
  BY <1>2, <1>3, <1>4, <1>5 DEF MayBeAt, On

\* The cursor of a list is on a place or between two.
LEMMA CursorIs ==
  ASSUME ListTypes, NEW ch, Chained(ch), NEW l \in lists, CursorOf(l, ch[l])
  PROVE  \/ \E p : Stands(l, ch[l], current[l], p) /\ ListCursors[l] = Promise!On(p)
         \/ \E before, after \in List!Cells : \E p, q :
              /\ current[l] = List!Deleted(l, before, after)
              /\ Stands(l, ch[l], before, p) /\ Stands(l, ch[l], after, q)
              /\ ListCursors[l] = Promise!Between(p, q)
<1>1. CASE MayBeAt(l, ch[l], current[l])
  <2>1. PICK p : Stands(l, ch[l], current[l], p)
    BY <1>1, HasPlace
  <2>2. ListCursors[l] = Promise!On(p)
    BY <2>1, ViewNow DEF CursorAt
  <2> QED
    BY <2>1, <2>2
<1>2. ASSUME NEW before \in List!Cells, NEW after \in List!Cells,
             current[l] = List!Deleted(l, before, after),
             MayBeAt(l, ch[l], before), MayBeAt(l, ch[l], after)
      PROVE  \E p, q : /\ Stands(l, ch[l], before, p) /\ Stands(l, ch[l], after, q)
                       /\ ListCursors[l] = Promise!Between(p, q)
  <2>1. PICK p, q : Stands(l, ch[l], before, p) /\ Stands(l, ch[l], after, q)
    BY <1>2, HasPlace
  <2>2. CursorAt(l, ch[l], Promise!Between(p, q))
    BY <1>2, <2>1 DEF CursorAt
  <2> QED
    BY <2>1, <2>2, ViewNow
<1> QED
  BY <1>1, <1>2 DEF CursorOf

\* The values of a list are a sequence.
LEMMA SequenceIs ==
  ASSUME ListTypes, PointersTyped, NEW ch, Chained(ch), NEW l \in lists
  PROVE  /\ ListSeqs[l] \in Seq(Values \cup {NULL}) /\ ListSeqs[l] # NULL
         /\ Len(ListSeqs[l]) = Len(ch[l]) /\ DOMAIN ListSeqs[l] = 1..Len(ch[l])
         /\ \A k \in 1..Len(ch[l]) : ListSeqs[l][k] = pointer[ch[l][k]]
<1>1. Len(ch[l]) \in Nat /\ ch[l] \in Seq(Nodes)
  BY CellsOfChain
<1>2. ListSeqs[l] = [k \in 1..Len(ch[l]) |-> pointer[ch[l][k]]]
  BY ViewNow DEF ValuesAt
<1>3. \A k \in 1..Len(ch[l]) : pointer[ch[l][k]] \in Values \cup {NULL}
  BY <1>1 DEF PointersTyped
<1>4. NULL \notin Seq(Values \cup {NULL})
  BY ListsAssumption DEF List!ListAssumption
<1>5. /\ ListSeqs[l] \in Seq(Values \cup {NULL}) /\ Len(ListSeqs[l]) = Len(ch[l])
      /\ DOMAIN ListSeqs[l] = 1..Len(ch[l])
  BY <1>1, <1>2, <1>3
<1> QED
  BY <1>2, <1>4, <1>5

\* List l gets the chain c, and no other list is touched.
Changed(ch, l, c) ==
  /\ ListTypes' /\ Rechain(ch, l, c) /\ On(c) \ On(ch[l]) \subseteq List!Free
  /\ \A m \in lists : m # l => current'[m] = current[m]
  /\ \A n \in Nodes : n \notin On(ch[l]) \cup On(c) => pointer'[n] = pointer[n]

\* A cursor holds the cell that it is on, and those that it remembers.
LEMMA CursorHolds ==
  ASSUME ListTypes, NEW l \in Lists
  PROVE  /\ current[l] \in List!Cells => current[l] \in List!Kept
         /\ \A before, after \in List!Cells :
              current[l] = List!Deleted(l, before, after) => {before, after} \subseteq List!Kept
<1>1. ASSUME current[l] \in List!Cells
      PROVE  current[l] \in List!Kept
  BY <1>1 DEF List!Kept, List!IsDeleted
<1>2. ASSUME NEW before \in List!Cells, NEW after \in List!Cells,
             current[l] = List!Deleted(l, before, after)
      PROVE  {before, after} \subseteq List!Kept
  <2>1. List!IsDeleted(current[l]) /\ before = current[l][3] /\ after = current[l][4]
    <3>1. List!IsDeleted(List!Deleted(l, before, after))
      BY GapIsDeleted
    <3> QED
      BY <3>1, <1>2 DEF List!Deleted
  <2> QED
    BY <2>1 DEF List!Kept
<1> QED
  BY <1>1, <1>2

\* What was freed and is remembered stays free.
LEMMA FreedStays ==
  ASSUME ListTypes, NEW ch, Chained(ch), NEW l \in Lists, NEW c, Changed(ch, l, c),
         NEW x \in List!Kept, x \in Nodes \ nodes
  PROVE  x \in Nodes \ nodes'
<1>1. x \notin List!Free /\ x \notin On(ch[l])
  BY DEF List!Free, Chained
<1> QED
  BY <1>1 DEF Changed, Rechain

LEMMA OthersStay ==
  ASSUME ListTypes, NEW ch, Chained(ch), \A m \in lists : CursorOf(m, ch[m]),
         NEW l \in Lists, NEW c \in Seq(Nodes), Changed(ch, l, c), NEW m \in Lists, m # l
  PROVE  ListSeqs'[m] = ListSeqs[m] /\ ListCursors'[m] = ListCursors[m]
<1> DEFINE to == [ch EXCEPT ![l] = c]
<1>1. Chained(to)' /\ to[m] = ch[m] /\ ListTypes'
  <2>1. Chained(to)'
    BY RechainKeeps DEF Changed
  <2> QED
    BY <2>1 DEF Changed, Chained
<1> HIDE DEF to
<1>2. CASE m \notin lists
  <2>1. m \notin lists'
    BY <1>2 DEF Changed, Rechain
  <2>2. ListSeqs'[m] = NULL /\ ListCursors'[m] = Promise!On(0)'
    BY <2>1, ViewIsThen DEF View
  <2> QED
    BY <1>2, <2>2, ViewIs DEF View, Promise!On
<1>3. CASE m \in lists
  <2>1. m \in lists' /\ current'[m] = current[m]
    BY <1>3 DEF Changed, Rechain
  <2>2. Len(ch[m]) \in Nat /\ ch[m] \in Seq(Nodes) /\ On(ch[m]) \cap (On(ch[l]) \cup On(c)) = {}
    <3>1. On(ch[m]) \subseteq nodes /\ On(ch[m]) \cap On(ch[l]) = {}
      BY DEF Chained
    <3> QED
      BY <1>3, <3>1, CellsOfChain DEF Changed, Rechain
  <2>3. ListSeqs'[m] = ListSeqs[m]
    <3>1. \A k \in 1..Len(ch[m]) : pointer'[ch[m][k]] = pointer[ch[m][k]]
      <4>1. \A k \in 1..Len(ch[m]) : ch[m][k] \in Nodes /\ ch[m][k] \in On(ch[m])
        BY <2>2 DEF On
      <4> QED
        BY <2>2, <4>1 DEF Changed
    <3>2. ListSeqs[m] = [k \in 1..Len(ch[m]) |-> pointer[ch[m][k]]]
      BY <1>3, ViewNow DEF ValuesAt
    <3>3. ListSeqs'[m] = [k \in 1..Len(ch[m]) |-> pointer'[ch[m][k]]]
      BY <1>1, <2>1, ViewThen DEF ValuesAt
    <3> QED
      BY <3>1, <3>2, <3>3
  <2>4. ASSUME NEW x \in List!Kept, NEW p, Stands(m, ch[m], x, p)
        PROVE  Stands(m, to[m], x, p)'
    <3>1. x \in Nodes \ nodes => x \in Nodes \ nodes'
      BY FreedStays
    <3> QED
      BY <2>4, <3>1, <1>1 DEF Stands, CellAt, List!Pre, List!Post
  <2>5. ASSUME NEW p, Stands(m, ch[m], current[m], p), ListCursors[m] = Promise!On(p)
        PROVE  ListCursors'[m] = ListCursors[m]
    <3>1. current[m] \in List!Kept
      <4>1. current[m] \in List!Cells
        BY <1>3, <2>5, CellsOfChain, CellsAre DEF Stands
      <4> QED
        BY <4>1, CursorHolds
    <3>2. Stands(m, to[m], current[m], p)'
      BY <3>1, <2>1, <2>4, <2>5 DEF Stands, CellAt
    <3>3. CursorAt(m, to[m], Promise!On(p))'
      BY <3>2 DEF CursorAt, Promise!On
    <3> QED
      BY <1>1, <2>1, <2>5, <3>3, ViewThen DEF Promise!On
  <2>6. ASSUME NEW before \in List!Cells, NEW after \in List!Cells, NEW p, NEW q,
               current[m] = List!Deleted(m, before, after),
               Stands(m, ch[m], before, p), Stands(m, ch[m], after, q),
               ListCursors[m] = Promise!Between(p, q)
        PROVE  ListCursors'[m] = ListCursors[m]
    <3>1. before \in List!Kept /\ after \in List!Kept
      BY <2>6, CursorHolds
    <3>2. Stands(m, to[m], before, p)' /\ Stands(m, to[m], after, q)'
      BY <3>1, <2>4, <2>6
    <3>3. CursorAt(m, to[m], Promise!Between(p, q))'
      BY <3>2, <2>1, <2>6 DEF CursorAt, Promise!Between, List!Deleted, List!Cells
    <3> QED
      BY <1>1, <2>1, <2>6, <3>3, ViewThen DEF Promise!Between
  <2> QED
    BY <1>3, <2>3, <2>5, <2>6, CursorIs
<1> QED
  BY <1>2, <1>3

\* The promise of a step that gives one list another chain.
LEMMA ListBecomes ==
  ASSUME ListTypes, NEW ch, Chained(ch), \A m \in lists : CursorOf(m, ch[m]),
         NEW l \in Lists, NEW c \in Seq(Nodes), Changed(ch, l, c), l \in lists',
         NEW k, CursorAt(l, c, k)'
  PROVE  Promise!Becomes(l, ValuesAt(c)', k)
<1> DEFINE to == [ch EXCEPT ![l] = c]
<1>1. Chained(to)' /\ to[l] = c /\ ListTypes'
  <2>1. Chained(to)'
    BY RechainKeeps DEF Changed
  <2> QED
    BY <2>1 DEF Changed, Chained
<1> HIDE DEF to
<1>2. ListSeqs'[l] = ValuesAt(c)' /\ ListCursors'[l] = k
  <2>1. CursorAt(l, to[l], k)'
    BY <1>1 DEF CursorAt, Stands, CellAt, Promise!On, Promise!Between
  <2>2. ListSeqs'[l] = ValuesAt(to[l])'
    BY <1>1, ViewThen
  <2> QED
    BY <1>1, <2>1, <2>2, ViewThen DEF ValuesAt
<1>3. \A m \in Lists : m # l => ListSeqs'[m] = ListSeqs[m] /\ ListCursors'[m] = ListCursors[m]
  BY OthersStay
<1>4. /\ ListSeqs = [m \in Lists |-> ListSeqs[m]] /\ ListCursors = [m \in Lists |-> ListCursors[m]]
      /\ ListSeqs' = [m \in Lists |-> ListSeqs'[m]] /\ ListCursors' = [m \in Lists |-> ListCursors'[m]]
  BY ViewIs, ViewIsThen DEF View
<1> QED
  BY <1>2, <1>3, <1>4 DEF Promise!Becomes

LEMMA ListGoes ==
  ASSUME ListTypes, NEW ch, Chained(ch), \A m \in lists : CursorOf(m, ch[m]),
         NEW l \in Lists, Changed(ch, l, <<>>), l \notin lists'
  PROVE  Promise!Becomes(l, NULL, Promise!On(0))
<1>1. ListSeqs'[l] = NULL /\ ListCursors'[l] = Promise!On(0)
  BY ViewIsThen DEF View, Promise!On
<1>2. \A m \in Lists : m # l => ListSeqs'[m] = ListSeqs[m] /\ ListCursors'[m] = ListCursors[m]
  <2>1. <<>> \in Seq(Nodes)
    OBVIOUS
  <2> QED
    BY <2>1, OthersStay
<1>3. /\ ListSeqs = [m \in Lists |-> ListSeqs[m]] /\ ListCursors = [m \in Lists |-> ListCursors[m]]
      /\ ListSeqs' = [m \in Lists |-> ListSeqs'[m]] /\ ListCursors' = [m \in Lists |-> ListCursors'[m]]
  BY ViewIs, ViewIsThen DEF View
<1> QED
  BY <1>1, <1>2, <1>3 DEF Promise!Becomes

Cursor(g, p, q) == [gap |-> g, left |-> p, right |-> q]

PlacesOf(c) == -1..(Len(c) + 1)

\* A cursor with other places.
Elsewhere(k, i, j) == [k EXCEPT !.left = i, !.right = j]

LEMMA ElsewhereIs ==
  ASSUME NEW g, NEW p, NEW q, NEW i, NEW j
  PROVE  Elsewhere(Cursor(g, p, q), i, j) = Cursor(g, i, j)
<1>1. [Cursor(g, p, q) EXCEPT !.left = i] = Cursor(g, i, q)
  BY DEF Cursor
<1>2. [Cursor(g, i, q) EXCEPT !.right = j] = Cursor(g, i, j)
  BY DEF Cursor
<1> QED
  BY <1>1, <1>2 DEF Elsewhere

LEMMA StandsIn ==
  ASSUME NEW S, NEW c \in Seq(S), NEW l, NEW x, NEW p, Stands(l, c, x, p)
  PROVE  p \in PlacesOf(c)
BY DEF Stands, PlacesOf

\* A cursor that is not set goes where its places go.
LEMMA CursorMoves ==
  ASSUME ListTypes, NEW ch, Chained(ch), NEW l \in lists, CursorOf(l, ch[l]),
         current'[l] = current[l], NEW c, NEW P,
         \A x \in List!Kept : \A p \in PlacesOf(ch[l]) :
           Stands(l, ch[l], x, p) => Stands(l, c, x, P[p])'
  PROVE  \E g \in BOOLEAN : \E p, q \in PlacesOf(ch[l]) :
           ListCursors[l] = Cursor(g, p, q) /\ CursorAt(l, c, Cursor(g, P[p], P[q]))'
<1>1. l \in Lists /\ ch[l] \in Seq(Nodes)
  BY CellsOfChain
<1>2. ASSUME NEW p, Stands(l, ch[l], current[l], p), ListCursors[l] = Promise!On(p)
      PROVE  /\ p \in PlacesOf(ch[l]) /\ ListCursors[l] = Cursor(FALSE, p, p)
             /\ CursorAt(l, c, Cursor(FALSE, P[p], P[p]))'
  <2>1. p \in PlacesOf(ch[l])
    BY <1>1, <1>2, StandsIn
  <2>2. current[l] \in List!Kept
    <3>1. current[l] \in List!Cells
      BY <1>2, CellsOfChain, CellsAre DEF Stands
    <3> QED
      BY <1>1, <3>1, CursorHolds
  <2>3. Stands(l, c, current[l], P[p])'
    BY <1>2, <2>1, <2>2 DEF Stands, CellAt
  <2> QED
    BY <1>2, <2>1, <2>3 DEF CursorAt, Promise!On, Cursor
<1>3. ASSUME NEW before \in List!Cells, NEW after \in List!Cells, NEW p, NEW q,
             current[l] = List!Deleted(l, before, after),
             Stands(l, ch[l], before, p), Stands(l, ch[l], after, q),
             ListCursors[l] = Promise!Between(p, q)
      PROVE  /\ p \in PlacesOf(ch[l]) /\ q \in PlacesOf(ch[l]) /\ ListCursors[l] = Cursor(TRUE, p, q)
             /\ CursorAt(l, c, Cursor(TRUE, P[p], P[q]))'
  <2>1. p \in PlacesOf(ch[l]) /\ q \in PlacesOf(ch[l])
    BY <1>1, <1>3, StandsIn
  <2>2. before \in List!Kept /\ after \in List!Kept
    BY <1>1, <1>3, CursorHolds
  <2>3. Stands(l, c, before, P[p])' /\ Stands(l, c, after, P[q])'
    BY <1>3, <2>1, <2>2
  <2> QED
    BY <1>3, <2>1, <2>3 DEF CursorAt, Promise!Between, Cursor, List!Deleted, List!Cells
<1>4. CASE \E p : Stands(l, ch[l], current[l], p) /\ ListCursors[l] = Promise!On(p)
  BY <1>2, <1>4
<1>5. CASE \E before, after \in List!Cells : \E p, q :
             /\ current[l] = List!Deleted(l, before, after)
             /\ Stands(l, ch[l], before, p) /\ Stands(l, ch[l], after, q)
             /\ ListCursors[l] = Promise!Between(p, q)
  <2>0. PICK before \in List!Cells, after \in List!Cells : \E p, q :
          /\ current[l] = List!Deleted(l, before, after)
          /\ Stands(l, ch[l], before, p) /\ Stands(l, ch[l], after, q)
          /\ ListCursors[l] = Promise!Between(p, q)
    BY <1>5, Zenon
  <2>1. PICK p, q :
          /\ current[l] = List!Deleted(l, before, after)
          /\ Stands(l, ch[l], before, p) /\ Stands(l, ch[l], after, q)
          /\ ListCursors[l] = Promise!Between(p, q)
    BY <2>0, Zenon
  <2>2. /\ p \in PlacesOf(ch[l]) /\ q \in PlacesOf(ch[l]) /\ ListCursors[l] = Cursor(TRUE, p, q)
        /\ CursorAt(l, c, Cursor(TRUE, P[p], P[q]))'
    BY <1>3, <2>1
  <2> QED
    BY <2>2
<1> QED
  BY <1>4, <1>5, CursorIs

\* The cursor of a list that is set to one of its cells.
LEMMA CursorSet ==
  ASSUME NEW l, NEW c, NEW p \in 0..(Len(c) + 1), current'[l] = CellAt(l, c, p)
  PROVE  CursorAt(l, c, Promise!On(p))'
<1>1. current'[l] = CellAt(l, c, p)'
  BY DEF CellAt, List!Pre, List!Post
<1>2. Stands(l, c, current[l], p)'
  BY <1>1 DEF Stands
<1> QED
  BY <1>2 DEF CursorAt, Promise!On

----------------------------------------------------------------------------
(* What the calls are, as ListCursor sees them.                            *)

\* A list that is made has the values it is made with, and its cursor is before
\* them.
LEMMA BuildBecomes ==
  ASSUME ListInv, ListTypes', NEW l \in Lists \ lists, NEW vs, NEW size \in Nat,
         vs = [k \in 1..size |-> vs[k]], Len(vs) = size, List!Build(l, vs)
  PROVE  Promise!Becomes(l, vs, Promise!On(0))
<1>1. PICK ch : Chained(ch) /\ \A m \in lists : CursorOf(m, ch[m])
  BY DEF ListInv
<1>2. PICK c \in Seq(Nodes) :
        /\ Rechain(ch, l, c) /\ On(c) \subseteq List!Free /\ Len(c) = size
        /\ \A k \in 1..size : pointer'[c[k]] = vs[k]
        /\ \A n \in Nodes : n \notin On(c) => pointer'[n] = pointer[n]
  <2>1. DOMAIN vs = 1..size
    OBVIOUS
  <2> QED
    BY <1>1, <2>1, BuildRechains DEF ListInv
<1>3. current' = [current EXCEPT ![l] = List!Pre(l)] /\ l \in lists'
  BY DEF List!Build
<1>4. current'[l] = CellAt(l, c, 0) /\ 0 \in 0..(Len(c) + 1)
  BY <1>2, <1>3 DEF CellAt, ListInv, ListTypes
<1>5. CursorAt(l, c, Promise!On(0))'
  BY <1>4, CursorSet
<1>6. \A m \in lists : current'[m] = current[m]
  BY <1>3 DEF ListInv, ListTypes
<1>7. Changed(ch, l, c)
  BY <1>2, <1>6 DEF Changed
<1>8. ValuesAt(c)' = vs
  BY <1>2 DEF ValuesAt
<1>9. Promise!Becomes(l, ValuesAt(c)', Promise!On(0))
  <2>1. PICK k : k = Promise!On(0)
    OBVIOUS
  <2>2. CursorAt(l, c, k)'
    BY <1>5, <2>1 DEF Promise!On
  <2>3. Promise!Becomes(l, ValuesAt(c)', k)
    BY <1>1, <1>2, <1>3, <1>7, <2>2, ListBecomes DEF ListInv
  <2> QED
    BY <2>1, <2>3
<1> QED
  BY <1>8, <1>9

\* What a list that loses all its elements is for its cursor.
LEMMA AllRemoved ==
  ASSUME ListInv, ListTypes', NEW l \in lists, NEW ch, Chained(ch), List!RemoveAll(l),
         lists' \subseteq lists, lists' \cup {l} = lists,
         \A m \in lists : m # l => current'[m] = current[m]
  PROVE  Changed(ch, l, <<>>)
<1>1. Rechain(ch, l, <<>>)
  BY RemoveAllRechains DEF ListInv
<1>2. List!Passed(l) = On(ch[l])
  BY PassedIs DEF ListInv
<1>3. On(<<>>) = {}
  BY DEF On
<1>4. \A n \in Nodes : n \notin On(ch[l]) => pointer'[n] = pointer[n]
  BY <1>2 DEF List!RemoveAll, List!Freed
<1> QED
  BY <1>1, <1>3, <1>4 DEF Changed

LEMMA ReleasePromise ==
  ASSUME ListInv, ListTypes', NEW l \in Lists, PointersTyped, List!listRelease(l)
  PROVE  Promise!Release(l)
<1>1. PICK ch : Chained(ch) /\ \A m \in lists : CursorOf(m, ch[m])
  BY DEF ListInv
<1>2. /\ l \in lists /\ lists' = lists \ {l} /\ List!RemoveAll(l)
      /\ current' = [current EXCEPT ![l] = NULL] /\ UNCHANGED <<listResult, listCrashed>>
  BY DEF List!listRelease, List!ReturnsNothing
<1>3. \A m \in lists : m # l => current'[m] = current[m]
  BY <1>2 DEF ListInv, ListTypes
<1>4. lists' \subseteq lists /\ lists' \cup {l} = lists /\ l \notin lists'
  BY <1>2
<1>5. Promise!Becomes(l, NULL, Promise!On(0))
  BY <1>1, <1>2, <1>3, <1>4, AllRemoved, ListGoes DEF ListInv
<1>6. ListSeqs[l] # NULL
  BY <1>1, <1>2, SequenceIs DEF ListInv
<1> QED
  BY <1>2, <1>5, <1>6 DEF Promise!Release, Promise!ReturnsNothing

LEMMA ClearPromise ==
  ASSUME ListInv, ListTypes', NEW l \in Lists, PointersTyped, List!listClear(l)
  PROVE  Promise!Clear(l)
<1>1. PICK ch : Chained(ch) /\ \A m \in lists : CursorOf(m, ch[m])
  BY DEF ListInv
<1>2. /\ l \in lists /\ lists' = lists /\ List!RemoveAll(l)
      /\ current' = current /\ UNCHANGED <<listResult, listCrashed>>
  BY DEF List!listClear, List!ReturnsNothing
<1>3. Changed(ch, l, <<>>)
  BY <1>1, <1>2, AllRemoved
<1>4. /\ Len(ch[l]) \in Nat /\ ch[l] \in Seq(Nodes) /\ On(ch[l]) \subseteq nodes
      /\ DOMAIN ListSeqs[l] = 1..Len(ch[l]) /\ ListSeqs[l] # NULL
  BY <1>1, <1>2, CellsOfChain, SequenceIs DEF ListInv
<1>5. nodes' = nodes \ On(ch[l])
  BY <1>1, <1>2, PassedIs DEF List!RemoveAll, List!Freed, ListInv
<1> DEFINE P == [p \in PlacesOf(ch[l]) |-> IF p \in 1..Len(ch[l]) THEN -1 ELSE IF p > 0 THEN 1 ELSE p]
<1>6. ASSUME NEW x \in List!Kept, NEW p \in PlacesOf(ch[l]), Stands(l, ch[l], x, p)
      PROVE  Stands(l, <<>>, x, P[p])'
  <2>1. CASE p \in 1..Len(ch[l])
    <3>1. x = ch[l][p] /\ P[p] = -1
      BY <1>4, <1>6, <2>1 DEF Stands, CellAt, PlacesOf
    <3>2. x \in Nodes \ nodes'
      BY <1>4, <1>5, <2>1, <3>1 DEF On
    <3> QED
      BY <3>1, <3>2 DEF Stands
  <2>2. CASE p = -1
    <3>1. x \in Nodes \ nodes /\ P[p] = -1
      BY <1>4, <1>6, <2>2 DEF Stands, PlacesOf
    <3> QED
      BY <1>5, <3>1 DEF Stands
  <2>3. CASE p = 0
    <3>1. x = List!Pre(l) /\ P[p] = 0
      BY <1>4, <1>6, <2>3 DEF Stands, CellAt, PlacesOf
    <3> QED
      BY <3>1 DEF Stands, CellAt, List!Pre
  <2>4. CASE p = Len(ch[l]) + 1
    <3>1. x = List!Post(l) /\ P[p] = 1
      BY <1>4, <1>6, <2>4 DEF Stands, CellAt, PlacesOf
    <3> QED
      BY <3>1 DEF Stands, CellAt, List!Post
  <2> QED
    BY <1>4, <2>1, <2>2, <2>3, <2>4 DEF PlacesOf
<1> HIDE DEF P
<1>7. PICK g \in BOOLEAN, p \in PlacesOf(ch[l]), q \in PlacesOf(ch[l]) :
        ListCursors[l] = Cursor(g, p, q) /\ CursorAt(l, <<>>, Cursor(g, P[p], P[q]))'
  BY <1>1, <1>2, <1>6, CursorMoves DEF ListInv
<1>8. Promise!Becomes(l, ValuesAt(<<>>)', Cursor(g, P[p], P[q]))
  <2>1. <<>> \in Seq(Nodes)
    OBVIOUS
  <2> QED
    BY <1>1, <1>2, <1>3, <1>7, <2>1, ListBecomes DEF ListInv
<1>9. ValuesAt(<<>>)' = <<>>
  BY DEF ValuesAt
<1>10. Cursor(g, P[p], P[q]) =
         Promise!Move(ListCursors[l], LAMBDA k : IF k \in DOMAIN ListSeqs[l] THEN -1 ELSE IF k > 0 THEN 1 ELSE k)
  <2>1. ListCursors[l].left = p /\ ListCursors[l].right = q
    BY <1>7 DEF Cursor
  <2>2. PICK i, j : /\ i = IF ListCursors[l].left \in DOMAIN ListSeqs[l] THEN -1
                            ELSE IF ListCursors[l].left > 0 THEN 1 ELSE ListCursors[l].left
                    /\ j = IF ListCursors[l].right \in DOMAIN ListSeqs[l] THEN -1
                            ELSE IF ListCursors[l].right > 0 THEN 1 ELSE ListCursors[l].right
    OBVIOUS
  <2>3. i = P[p] /\ j = P[q]
    BY <1>4, <2>1, <2>2 DEF P
  <2>4. Elsewhere(ListCursors[l], i, j) = Cursor(g, P[p], P[q])
    BY <1>7, <2>3, ElsewhereIs
  <2> QED
    BY <2>2, <2>4, Zenon DEF Promise!Move, Elsewhere
<1> QED
  BY <1>2, <1>4, <1>8, <1>9, <1>10 DEF Promise!Clear, Promise!ReturnsNothing, Promise!Lost, Promise!Move

\* What is not touched looks as it did.
LEMMA ListsRest ==
  ASSUME ListInv, UNCHANGED <<lists, current, List!links>>
  PROVE  UNCHANGED <<ListSeqs, ListCursors>>
<1>1. /\ lists' = lists /\ current' = current /\ nodes' = nodes /\ next' = next /\ previous' = previous
      /\ pointer' = pointer /\ num_of_elements' = num_of_elements
  BY DEF List!links
<1>2. \A l : List!Chain(l)' = List!Chain(l)
  <2>1. next' = next /\ num_of_elements' = num_of_elements
    BY <1>1
  <2> SUFFICES ASSUME NEW l PROVE List!Chain(l)' = List!Chain(l)
    OBVIOUS
  <2> QED
    BY <2>1, Zenon DEF List!Chain, List!Pre
<1>3. \A l : List!ValuesOf(l)' = List!ValuesOf(l)
  BY <1>1, <1>2, Zenon DEF List!ValuesOf
<1>4. \A l, x : List!Place(l, x)' = List!Place(l, x)
  BY <1>1, <1>2, Zenon DEF List!Place, List!Pre, List!Post, List!ToSet
<1>5. \A l : List!Cursor(l)' = List!Cursor(l)
  BY <1>1, <1>4, Zenon DEF List!Cursor, List!IsDeleted, List!Cells
<1>6. ListSeqs' = ListSeqs
  BY <1>1, <1>3, Zenon DEF ListSeqs
<1>7. ListCursors' = ListCursors
  BY <1>5, Zenon DEF ListCursors
<1> QED
  BY <1>6, <1>7

\* Sequences of the same length with the same elements.
LEMMA SameSequence ==
  ASSUME NEW S, NEW s \in Seq(S), NEW t \in Seq(S), Len(s) = Len(t),
         \A k \in 1..Len(s) : s[k] = t[k]
  PROVE  s = t
OBVIOUS

Shifted(j, p) == IF p > j THEN p + 1 ELSE p

\* An element comes between two: what is behind it, and a cursor there, moves.
LEMMA InsertBecomes ==
  ASSUME ListInv, ListTypes', NEW l \in lists, NEW ch, Chained(ch), \A m \in lists : CursorOf(m, ch[m]),
         NEW j \in 0..Len(ch[l]), NEW v, v # NULL,
         List!Insert(l, CellAt(l, ch[l], j), CellAt(l, ch[l], j + 1), v),
         UNCHANGED <<lists, current>>, PointersTyped, v \in Values
  PROVE  \E g \in BOOLEAN : \E p, q \in PlacesOf(ch[l]) :
           /\ ListCursors[l] = Cursor(g, p, q)
           /\ \E s \in Seq(Values \cup {NULL}) :
                /\ Promise!Becomes(l, s, Cursor(g, Shifted(j, p), Shifted(j, q)))
                /\ Len(s) = Len(ch[l]) + 1
                /\ \A k \in 1..Len(s) : s[k] = IF k <= j THEN ListSeqs[l][k]
                                               ELSE IF k = j + 1 THEN v ELSE ListSeqs[l][k - 1]
<1> DEFINE c == ch[l]
<1>1. PICK new \in List!Free :
        /\ nodes' = nodes \cup {new}
        /\ pointer' = [pointer EXCEPT ![new] = v]
        /\ next' = [next EXCEPT ![new] = CellAt(l, c, j + 1), ![CellAt(l, c, j)] = new]
        /\ previous' = [previous EXCEPT ![new] = CellAt(l, c, j), ![CellAt(l, c, j + 1)] = new]
        /\ num_of_elements' = [num_of_elements EXCEPT ![l] = @ + 1]
  BY DEF List!Insert
<1> DEFINE d == Inserted(c, j, new)
<1>2. d \in Seq(Nodes) /\ Rechain(ch, l, d) /\ On(d) \ On(c) \subseteq List!Free
  BY <1>1, InsertRechains DEF ListInv
<1>3. /\ l \in Lists /\ c \in Seq(Nodes) /\ Len(c) \in Nat /\ On(c) \subseteq nodes
      /\ new \in Nodes /\ new \notin nodes /\ j \in Nat /\ j <= Len(c)
      /\ \A k \in 1..Len(c) : c[k] \in Nodes /\ c[k] \in On(c) /\ c[k] # new
  <2>1. l \in Lists /\ c \in Seq(Nodes) /\ Len(c) \in Nat /\ On(c) \subseteq nodes
    BY CellsOfChain DEF ListInv
  <2>2. new \in Nodes /\ new \notin nodes /\ j \in Nat /\ j <= Len(c)
    BY <2>1 DEF List!Free
  <2>3. \A k \in 1..Len(c) : c[k] \in Nodes /\ c[k] \in On(c)
    BY <2>1 DEF On
  <2> QED
    BY <2>1, <2>2, <2>3
<1>4. /\ Len(d) = Len(c) + 1
      /\ \A k \in 0..(Len(d) + 1) :
           CellAt(l, d, k) = IF k <= j THEN CellAt(l, c, k)
                             ELSE IF k = j + 1 THEN new ELSE CellAt(l, c, k - 1)
  <2>1. c \in Seq(Nodes) /\ j \in 0..Len(c) /\ d = Inserted(c, j, new)
    BY <1>3
  <2> HIDE DEF c, d
  <2>2. Len(d) = Len(c) + 1
    BY <2>1, InsertedCells
  <2>3. \A k \in 0..(Len(d) + 1) :
          CellAt(l, d, k) = IF k <= j THEN CellAt(l, c, k)
                            ELSE IF k = j + 1 THEN new ELSE CellAt(l, c, k - 1)
    BY <2>1, InsertedCells
  <2> QED
    BY <2>2, <2>3
<1>5. \A k \in 1..Len(d) : d[k] = IF k <= j THEN c[k] ELSE IF k = j + 1 THEN new ELSE c[k - 1]
  BY <1>3 DEF Inserted
<1>6. new \in On(d)
  <2>1. j + 1 \in 1..Len(d) /\ d[j + 1] = new
    BY <1>3, <1>4, <1>5
  <2> HIDE DEF c, d
  <2> QED
    BY <2>1 DEF On
<1> HIDE DEF d
<1>7. Changed(ch, l, d)
  <2>1. \A n \in Nodes : n \notin On(d) => pointer'[n] = pointer[n]
    BY <1>1, <1>6 DEF PointersTyped
  <2> QED
    BY <1>2, <2>1 DEF Changed
<1> DEFINE P == [p \in PlacesOf(c) |-> Shifted(j, p)]
<1>8. ASSUME NEW x \in List!Kept, NEW p \in PlacesOf(c), Stands(l, c, x, p)
      PROVE  Stands(l, d, x, P[p])'
  <2>1. CASE p = -1
    <3>1. x \in Nodes \ nodes /\ P[p] = -1
      BY <1>3, <1>8, <2>1 DEF Stands, PlacesOf, Shifted
    <3>2. x \in Nodes \ nodes'
      BY <1>7, <3>1, FreedStays, <1>3 DEF ListInv
    <3> QED
      BY <3>1, <3>2 DEF Stands
  <2>2. CASE p \in 0..(Len(c) + 1)
    <3>1. x = CellAt(l, c, p) /\ P[p] = Shifted(j, p)
      BY <1>3, <1>8, <2>2 DEF Stands, PlacesOf
    <3>2. Shifted(j, p) \in 0..(Len(d) + 1) /\ CellAt(l, d, Shifted(j, p)) = CellAt(l, c, p)
      <4>1. CASE p > j
        <5>1. /\ p + 1 \in 0..(Len(d) + 1) /\ ~(p + 1 <= j) /\ p + 1 # j + 1 /\ (p + 1) - 1 = p
              /\ Shifted(j, p) = p + 1
          BY <1>3, <1>4, <2>2, <4>1 DEF Shifted
        <5> QED
          BY <1>4, <5>1
      <4>2. CASE p <= j
        <5>1. p \in 0..(Len(d) + 1) /\ p <= j /\ Shifted(j, p) = p
          BY <1>3, <1>4, <2>2, <4>2 DEF Shifted
        <5> QED
          BY <1>4, <5>1
      <4> QED
        BY <1>3, <2>2, <4>1, <4>2
    <3>3. x = CellAt(l, d, P[p])'
      BY <3>1, <3>2 DEF CellAt, List!Pre, List!Post
    <3> QED
      BY <3>1, <3>2, <3>3 DEF Stands
  <2> QED
    BY <1>3, <2>1, <2>2 DEF PlacesOf
<1> HIDE DEF P
<1>9. PICK g \in BOOLEAN, p \in PlacesOf(c), q \in PlacesOf(c) :
        ListCursors[l] = Cursor(g, p, q) /\ CursorAt(l, d, Cursor(g, P[p], P[q]))'
  <2>1. CursorOf(l, c) /\ current'[l] = current[l] /\ ListTypes
    BY DEF ListInv
  <2> QED
    BY <1>8, <2>1, CursorMoves
<1>10. Promise!Becomes(l, ValuesAt(d)', Cursor(g, Shifted(j, p), Shifted(j, q)))
  <2>1. Promise!Becomes(l, ValuesAt(d)', Cursor(g, P[p], P[q]))
    BY <1>2, <1>3, <1>7, <1>9, ListBecomes DEF ListInv
  <2> QED
    BY <2>1 DEF P
<1> DEFINE s == [k \in 1..Len(d) |-> pointer'[d[k]]]
<1>11. \A k \in 1..Len(d) : pointer'[d[k]] = IF k <= j THEN ListSeqs[l][k]
                                             ELSE IF k = j + 1 THEN v ELSE ListSeqs[l][k - 1]
  <2>1. /\ \A k \in 1..Len(c) : ListSeqs[l][k] = pointer[c[k]]
        /\ \A k \in 1..Len(c) : pointer'[c[k]] = pointer[c[k]]
        /\ pointer'[new] = v
    BY <1>1, <1>3, SequenceIs DEF PointersTyped, ListInv
  <2> SUFFICES ASSUME NEW k \in 1..Len(d)
               PROVE  pointer'[d[k]] = IF k <= j THEN ListSeqs[l][k]
                                       ELSE IF k = j + 1 THEN v ELSE ListSeqs[l][k - 1]
    OBVIOUS
  <2>2. CASE k <= j
    <3>1. k \in 1..Len(c) /\ d[k] = c[k]
      BY <1>3, <1>4, <1>5, <2>2
    <3> QED
      BY <2>1, <2>2, <3>1
  <2>3. CASE k = j + 1
    <3>1. d[k] = new /\ ~(k <= j)
      BY <1>3, <1>5, <2>3
    <3> QED
      BY <2>1, <2>3, <3>1
  <2>4. CASE k > j + 1
    <3>1. k - 1 \in 1..Len(c) /\ d[k] = c[k - 1] /\ ~(k <= j) /\ k # j + 1
      BY <1>3, <1>4, <1>5, <2>4
    <3> QED
      BY <2>1, <3>1
  <2> QED
    BY <1>3, <1>4, <2>2, <2>3, <2>4
<1>12. s \in Seq(Values \cup {NULL}) /\ Len(s) = Len(c) + 1
  <2>1. \A k \in 1..Len(d) : pointer'[d[k]] \in Values \cup {NULL}
    <3>1. \A k \in 1..Len(d) : d[k] \in Nodes
      BY <1>2
    <3> QED
      BY <1>1, <1>3, <3>1 DEF PointersTyped
  <2>2. Len(d) \in Nat
    BY <1>2
  <2> QED
    BY <1>4, <2>1, <2>2
<1>13. ValuesAt(d)' = s
  BY DEF ValuesAt
<1>14. \A k \in 1..Len(s) : s[k] = IF k <= j THEN ListSeqs[l][k]
                                   ELSE IF k = j + 1 THEN v ELSE ListSeqs[l][k - 1]
  BY <1>4, <1>11, <1>12
<1> HIDE DEF s
<1> QED
  BY <1>9, <1>10, <1>12, <1>13, <1>14

LEMMA AppendPromise ==
  ASSUME ListInv, ListTypes', PointersTyped, NEW l \in Lists, NEW v \in Values \cup {NULL},
         List!listAppend(l, v)
  PROVE  Promise!AddLast(l, v)
<1>1. PICK ch : Chained(ch) /\ \A m \in lists : CursorOf(m, ch[m])
  BY DEF ListInv
<1>2. /\ l \in lists /\ List!Insert(l, previous[List!Post(l)], List!Post(l), v)
      /\ UNCHANGED <<lists, current, listResult, listCrashed>>
  BY DEF List!listAppend, List!ReturnsNothing
<1>3. /\ Len(ch[l]) \in Nat /\ Linked(next, previous, l, ch[l])
      /\ ListSeqs[l] \in Seq(Values \cup {NULL}) /\ ListSeqs[l] # NULL
      /\ Len(ListSeqs[l]) = Len(ch[l])
  BY <1>1, <1>2, CellsOfChain, SequenceIs DEF ListInv
<1>4. CASE v = NULL
  <2>1. UNCHANGED <<lists, current, List!links>>
    BY <1>2, <1>4 DEF List!Insert
  <2>2. UNCHANGED <<ListSeqs, ListCursors>>
    BY <2>1, ListsRest
  <2> QED
    BY <1>2, <1>3, <1>4, <2>2 DEF Promise!AddLast, Promise!ReturnsNothing
<1>5. CASE v # NULL
  <2>1. /\ Len(ch[l]) \in 0..Len(ch[l]) /\ List!Post(l) = CellAt(l, ch[l], Len(ch[l]) + 1)
        /\ previous[List!Post(l)] = CellAt(l, ch[l], Len(ch[l]))
    <3>1. Len(ch[l]) \in 0..Len(ch[l]) /\ List!Post(l) = CellAt(l, ch[l], Len(ch[l]) + 1)
      BY <1>3 DEF CellAt
    <3> QED
      BY <3>1, <1>3 DEF Linked
  <2>2. PICK n : n = Len(ch[l])
    OBVIOUS
  <2>3. PICK g \in BOOLEAN, p \in PlacesOf(ch[l]), q \in PlacesOf(ch[l]), s \in Seq(Values \cup {NULL}) :
          /\ ListCursors[l] = Cursor(g, p, q)
          /\ Promise!Becomes(l, s, Cursor(g, Shifted(n, p), Shifted(n, q)))
          /\ Len(s) = n + 1
          /\ \A k \in 1..Len(s) : s[k] = IF k <= n THEN ListSeqs[l][k]
                                         ELSE IF k = n + 1 THEN v ELSE ListSeqs[l][k - 1]
    <3>1. n \in 0..Len(ch[l]) /\ List!Insert(l, CellAt(l, ch[l], n), CellAt(l, ch[l], n + 1), v)
      BY <1>2, <2>1, <2>2
    <3>2. v \in Values
      BY <1>5
    <3> QED
      BY <1>1, <1>2, <1>5, <2>2, <3>1, <3>2, InsertBecomes
  <2>4. s = Append(ListSeqs[l], v)
    <3>1. Append(ListSeqs[l], v) \in Seq(Values \cup {NULL}) /\ Len(Append(ListSeqs[l], v)) = n + 1
      BY <1>3, <2>2
    <3>2. \A k \in 1..(n + 1) : s[k] = Append(ListSeqs[l], v)[k]
      BY <1>3, <2>2, <2>3
    <3> QED
      BY <2>3, <3>1, <3>2, SameSequence
  <2>5. ListCursors[l].left = p /\ ListCursors[l].right = q
    BY <2>3 DEF Cursor
  <2>6. PICK i, j : /\ i = IF ListCursors[l].left = Len(ListSeqs[l]) + 1 THEN ListCursors[l].left + 1
                           ELSE ListCursors[l].left
                    /\ j = IF ListCursors[l].right = Len(ListSeqs[l]) + 1 THEN ListCursors[l].right + 1
                           ELSE ListCursors[l].right
    OBVIOUS
  <2>7. i = Shifted(n, p) /\ j = Shifted(n, q)
    BY <1>3, <2>2, <2>5, <2>6 DEF Shifted, PlacesOf
  <2>8. Elsewhere(ListCursors[l], i, j) = Cursor(g, Shifted(n, p), Shifted(n, q))
    BY <2>3, <2>7, ElsewhereIs
  <2>9. Promise!Move(ListCursors[l], LAMBDA k : IF k = Len(ListSeqs[l]) + 1 THEN k + 1 ELSE k)
          = Cursor(g, Shifted(n, p), Shifted(n, q))
    BY <2>6, <2>8, Zenon DEF Promise!Move, Elsewhere
  <2> QED
    BY <1>2, <1>3, <1>5, <2>3, <2>4, <2>9 DEF Promise!AddLast, Promise!ReturnsNothing, Promise!Move
<1> QED
  BY <1>4, <1>5

LEMMA PrependPromise ==
  ASSUME ListInv, ListTypes', PointersTyped, NEW l \in Lists, NEW v \in Values \cup {NULL},
         List!listPrepend(l, v)
  PROVE  Promise!AddFirst(l, v)
<1>1. PICK ch : Chained(ch) /\ \A m \in lists : CursorOf(m, ch[m])
  BY DEF ListInv
<1>2. /\ l \in lists /\ List!Insert(l, List!Pre(l), next[List!Pre(l)], v)
      /\ UNCHANGED <<lists, current, listResult, listCrashed>>
  BY DEF List!listPrepend, List!ReturnsNothing
<1>3. /\ Len(ch[l]) \in Nat /\ Linked(next, previous, l, ch[l])
      /\ ListSeqs[l] \in Seq(Values \cup {NULL}) /\ ListSeqs[l] # NULL
      /\ Len(ListSeqs[l]) = Len(ch[l])
  BY <1>1, <1>2, CellsOfChain, SequenceIs DEF ListInv
<1>4. CASE v = NULL
  <2>1. UNCHANGED <<lists, current, List!links>>
    BY <1>2, <1>4 DEF List!Insert
  <2>2. UNCHANGED <<ListSeqs, ListCursors>>
    BY <2>1, ListsRest
  <2> QED
    BY <1>2, <1>3, <1>4, <2>2 DEF Promise!AddFirst, Promise!ReturnsNothing
<1>5. CASE v # NULL
  <2>1. /\ 0 \in 0..Len(ch[l]) /\ List!Pre(l) = CellAt(l, ch[l], 0)
        /\ next[List!Pre(l)] = CellAt(l, ch[l], 0 + 1)
    <3>1. 0 \in 0..Len(ch[l]) /\ List!Pre(l) = CellAt(l, ch[l], 0)
      BY <1>3 DEF CellAt
    <3> QED
      BY <3>1, <1>3 DEF Linked
  <2>2. PICK g \in BOOLEAN, p \in PlacesOf(ch[l]), q \in PlacesOf(ch[l]), s \in Seq(Values \cup {NULL}) :
          /\ ListCursors[l] = Cursor(g, p, q)
          /\ Promise!Becomes(l, s, Cursor(g, Shifted(0, p), Shifted(0, q)))
          /\ Len(s) = Len(ch[l]) + 1
          /\ \A k \in 1..Len(s) : s[k] = IF k <= 0 THEN ListSeqs[l][k]
                                         ELSE IF k = 0 + 1 THEN v ELSE ListSeqs[l][k - 1]
    <3>1. List!Insert(l, CellAt(l, ch[l], 0), CellAt(l, ch[l], 0 + 1), v)
      BY <1>2, <2>1
    <3>2. v \in Values
      BY <1>5
    <3> QED
      BY <1>1, <1>2, <1>5, <2>1, <3>1, <3>2, InsertBecomes
  <2>4. s = <<v>> \o ListSeqs[l]
    <3>1. /\ <<v>> \o ListSeqs[l] \in Seq(Values \cup {NULL})
          /\ Len(<<v>> \o ListSeqs[l]) = Len(ch[l]) + 1
      BY <1>3
    <3>2. \A k \in 1..(Len(ch[l]) + 1) : s[k] = (<<v>> \o ListSeqs[l])[k]
      BY <1>3, <2>2
    <3> QED
      BY <2>2, <3>1, <3>2, SameSequence
  <2>5. ListCursors[l].left = p /\ ListCursors[l].right = q
    BY <2>2 DEF Cursor
  <2>6. PICK i, j :
          /\ i = IF ListCursors[l].left > 0 THEN ListCursors[l].left + 1 ELSE ListCursors[l].left
          /\ j = IF ListCursors[l].right > 0 THEN ListCursors[l].right + 1 ELSE ListCursors[l].right
    OBVIOUS
  <2>7. i = Shifted(0, p) /\ j = Shifted(0, q)
    BY <1>3, <2>5, <2>6 DEF Shifted, PlacesOf
  <2>8. Elsewhere(ListCursors[l], i, j) = Cursor(g, Shifted(0, p), Shifted(0, q))
    BY <2>2, <2>7, ElsewhereIs
  <2>9. Promise!Move(ListCursors[l], LAMBDA k : IF k > 0 THEN k + 1 ELSE k)
          = Cursor(g, Shifted(0, p), Shifted(0, q))
    BY <2>6, <2>8, Zenon DEF Promise!Move, Elsewhere
  <2> QED
    BY <1>2, <1>3, <1>5, <2>2, <2>4, <2>9 DEF Promise!AddFirst, Promise!ReturnsNothing, Promise!Move
<1> QED
  BY <1>4, <1>5

LEMMA NewPromise ==
  ASSUME ListInv, ListTypes', NEW l \in Lists, List!newList(l)
  PROVE  Promise!Create(l)
<1>1. l \in Lists \ lists /\ List!Build(l, <<>>) /\ UNCHANGED <<listResult, listCrashed>>
  BY DEF List!newList, List!ReturnsNothing
<1>2. ListSeqs[l] = NULL
  BY <1>1, ViewIs DEF View
<1>3. Promise!Becomes(l, <<>>, Promise!On(0))
  <2>1. <<>> = [k \in 1..0 |-> <<>>[k]] /\ Len(<<>>) = 0 /\ 0 \in Nat
    OBVIOUS
  <2> QED
    BY <1>1, <2>1, BuildBecomes
<1> QED
  BY <1>1, <1>2, <1>3 DEF Promise!Create, Promise!ReturnsNothing

LEMMA ClonePromise ==
  ASSUME ListInv, ListTypes', PointersTyped, NEW l \in Lists, NEW m \in Lists, List!listClone(l, m)
  PROVE  Promise!Copy(l, m)
<1>1. PICK ch : Chained(ch) /\ \A k \in lists : CursorOf(k, ch[k])
  BY DEF ListInv
<1>2. /\ l \in lists /\ m \in Lists \ lists /\ List!Build(m, List!ValuesOf(l))
      /\ UNCHANGED <<listResult, listCrashed>>
  BY DEF List!listClone, List!ReturnsNothing
<1>3. /\ ListSeqs[l] \in Seq(Values \cup {NULL}) /\ ListSeqs[l] # NULL
      /\ Len(ListSeqs[l]) = Len(ch[l]) /\ Len(ch[l]) \in Nat /\ ListSeqs[m] = NULL
  BY <1>1, <1>2, SequenceIs, CellsOfChain, ViewIs DEF ListInv, View
<1>4. PICK vs : vs = ListSeqs[l]
  OBVIOUS
<1>5. List!ValuesOf(l) = vs
  BY <1>2, <1>4 DEF ListSeqs
<1>6. Promise!Becomes(m, vs, Promise!On(0))
  <2>1. vs = [k \in 1..Len(ch[l]) |-> vs[k]] /\ Len(vs) = Len(ch[l])
    BY <1>3, <1>4
  <2>2. List!Build(m, vs)
    BY <1>2, <1>5
  <2> QED
    BY <1>2, <1>3, <2>1, <2>2, BuildBecomes
<1> QED
  BY <1>2, <1>3, <1>4, <1>6 DEF Promise!Copy, Promise!ReturnsNothing

\* Where a cursor is that is on a cell.
LEMMA CursorOnCell ==
  ASSUME ListTypes, NEW ch, Chained(ch), NEW l \in lists, CursorOf(l, ch[l]),
         NEW k \in 0..(Len(ch[l]) + 1)
  PROVE  ListCursors[l] = Promise!On(k) <=> current[l] = CellAt(l, ch[l], k)
<1>1. ASSUME current[l] = CellAt(l, ch[l], k)
      PROVE  ListCursors[l] = Promise!On(k)
  BY <1>1, ViewNow DEF CursorAt, Stands
<1>2. ASSUME ListCursors[l] = Promise!On(k)
      PROVE  current[l] = CellAt(l, ch[l], k)
  <2>1. ASSUME NEW p, Stands(l, ch[l], current[l], p), ListCursors[l] = Promise!On(p)
        PROVE  current[l] = CellAt(l, ch[l], k)
    <3>1. p = k /\ k # -1
      BY <1>2, <2>1, CellsOfChain DEF Promise!On
    <3> QED
      BY <2>1, <3>1 DEF Stands
  <2>2. \A p, q : ListCursors[l] # Promise!Between(p, q)
    BY <1>2 DEF Promise!On, Promise!Between
  <2> QED
    BY <2>1, <2>2, CursorIs
<1> QED
  BY <1>1, <1>2

\* An element goes: the values without it.
LEMMA RemoveValues ==
  ASSUME NEW S, NEW s \in Seq(S), NEW i \in 1..Len(s)
  PROVE  Promise!S!RemoveAt(s, i) = [k \in 1..(Len(s) - 1) |-> IF k < i THEN s[k] ELSE s[k + 1]]
<1>1. Len(s) \in Nat /\ i \in Nat /\ i >= 1 /\ i <= Len(s) /\ \A k \in 1..Len(s) : s[k] \in S
  OBVIOUS
<1> DEFINE t == [k \in 1..(Len(s) - 1) |-> IF k < i THEN s[k] ELSE s[k + 1]]
           a == SubSeq(s, 1, i - 1)
           b == SubSeq(s, i + 1, Len(s))
<1>2. a \in Seq(S) /\ Len(a) = i - 1 /\ \A k \in 1..(i - 1) : a[k] = s[k]
  BY <1>1
<1>3. b \in Seq(S) /\ Len(b) = Len(s) - i /\ \A k \in 1..(Len(s) - i) : b[k] = s[k + i]
  BY <1>1
<1> HIDE DEF a, b
<1>4. t \in Seq(S) /\ Len(t) = Len(s) - 1
  BY <1>1
<1>5. a \o b \in Seq(S) /\ Len(a \o b) = Len(s) - 1
  <2>1. a \o b \in Seq(S) /\ Len(a \o b) = Len(a) + Len(b)
    BY <1>2, <1>3, ConcatProperties
  <2> QED
    BY <1>1, <1>2, <1>3, <2>1
<1>6. ASSUME NEW k \in 1..(Len(s) - 1)
      PROVE  (a \o b)[k] = t[k]
  <2>0. /\ k \in 1..(Len(a) + Len(b))
        /\ (a \o b)[k] = IF k <= Len(a) THEN a[k] ELSE b[k - Len(a)]
        /\ t[k] = IF k < i THEN s[k] ELSE s[k + 1]
    <3>1. k \in 1..(Len(a) + Len(b))
      BY <1>1, <1>2, <1>3
    <3> QED
      BY <1>2, <1>3, <3>1, ConcatProperties
  <2>1. CASE k < i
    <3>1. k <= Len(a) /\ k \in 1..(i - 1)
      BY <1>1, <1>2, <2>1
    <3> QED
      BY <1>2, <2>0, <2>1, <3>1
  <2>2. CASE k >= i
    <3>1. /\ ~(k <= Len(a)) /\ ~(k < i) /\ k - Len(a) \in 1..(Len(s) - i)
          /\ (k - Len(a)) + i = k + 1
      BY <1>1, <1>2, <2>2
    <3> QED
      BY <1>3, <2>0, <3>1
  <2>3. k < i \/ k >= i
    BY <1>1
  <2> HIDE DEF t
  <2> QED
    BY <2>1, <2>2, <2>3
<1>7. a \o b = t
  <2> HIDE DEF t
  <2> QED
    BY <1>4, <1>5, <1>6, SameSequence
<1> QED
  BY <1>7 DEF Promise!S!RemoveAt, a, b

LEMMA RemoveBecomes ==
  ASSUME ListInv, ListTypes', PointersTyped, NEW l \in lists, NEW ch, Chained(ch),
         NEW i \in 1..Len(ch[l]), NEW n, n = ch[l][i], TakesOut(l, n), List!Freed({n}),
         \A m \in lists : m # l => current'[m] = current[m]
  PROVE  /\ Removed(ch[l], i) \in Seq(Nodes) /\ Changed(ch, l, Removed(ch[l], i))
         /\ ValuesAt(Removed(ch[l], i))' = Promise!S!RemoveAt(ListSeqs[l], i)
<1> DEFINE c == ch[l]
<1>1. /\ c \in Seq(Nodes) /\ Len(c) \in Nat /\ i \in Nat /\ i >= 1 /\ i <= Len(c) /\ Once(c)
      /\ \A k \in 1..Len(c) : c[k] \in Nodes
      /\ n \in On(c) /\ n \in Nodes
  <2>1. c \in Seq(Nodes) /\ Len(c) \in Nat /\ Once(c)
    BY CellsOfChain DEF ListInv
  <2> QED
    BY <2>1 DEF On
<1> DEFINE d == Removed(c, i)
<1>2. d \in Seq(Nodes) /\ Rechain(ch, l, d) /\ On(d) = On(c) \ {n}
  <2>1. n \in On(ch[l]) /\ c = ch[l] /\ d = Removed(ch[l], i) /\ ListTypes
    BY <1>1 DEF ListInv
  <2> HIDE DEF c, d
  <2> QED
    BY <2>1, UnlinkRechains
<1>3. Len(d) = Len(c) - 1 /\ \A k \in 1..(Len(c) - 1) : d[k] = IF k < i THEN c[k] ELSE c[k + 1]
  BY <1>1 DEF Removed
<1>4. \A x \in Nodes : x # n => pointer'[x] = pointer[x]
  BY DEF List!Freed
<1> HIDE DEF d
<1>5. Changed(ch, l, d)
  BY <1>1, <1>2, <1>4 DEF Changed
<1>6. \A k \in 1..Len(c) : k # i => pointer'[c[k]] = ListSeqs[l][k]
  <2>1. \A k \in 1..Len(c) : k # i => c[k] # n
    BY <1>1 DEF Once
  <2> QED
    BY <1>1, <1>4, <2>1, SequenceIs DEF ListInv
<1>7. /\ ListSeqs[l] \in Seq(Values \cup {NULL}) /\ Len(ListSeqs[l]) = Len(c)
  BY SequenceIs DEF ListInv
<1>8. ValuesAt(d)' = [k \in 1..(Len(c) - 1) |-> IF k < i THEN ListSeqs[l][k] ELSE ListSeqs[l][k + 1]]
  <2>1. ASSUME NEW k \in 1..(Len(c) - 1)
        PROVE  pointer'[d[k]] = IF k < i THEN ListSeqs[l][k] ELSE ListSeqs[l][k + 1]
    <3>1. CASE k < i
      <4>1. k \in 1..Len(c) /\ k # i /\ d[k] = c[k]
        BY <1>1, <1>3, <3>1
      <4> QED
        BY <1>6, <3>1, <4>1
    <3>2. CASE ~(k < i)
      <4>1. k + 1 \in 1..Len(c) /\ k + 1 # i /\ d[k] = c[k + 1]
        BY <1>1, <1>3, <3>2
      <4> QED
        BY <1>6, <3>2, <4>1
    <3> QED
      BY <3>1, <3>2
  <2>2. ValuesAt(d)' = [k \in 1..(Len(c) - 1) |-> pointer'[d[k]]]
    BY <1>3 DEF ValuesAt
  <2> QED
    BY <2>1, <2>2
<1>9. ValuesAt(d)' = Promise!S!RemoveAt(ListSeqs[l], i)
  <2>1. PICK s : s = ListSeqs[l]
    OBVIOUS
  <2>2. s \in Seq(Values \cup {NULL}) /\ Len(s) = Len(c) /\ i \in 1..Len(s)
    BY <1>1, <1>7, <2>1
  <2>3. Promise!S!RemoveAt(s, i) = [k \in 1..(Len(s) - 1) |-> IF k < i THEN s[k] ELSE s[k + 1]]
    BY <2>2, RemoveValues
  <2> QED
    BY <1>8, <2>1, <2>2, <2>3
<1> QED
  BY <1>2, <1>5, <1>9 DEF d

Without(i, p) == IF p = i THEN -1 ELSE IF p > i THEN p - 1 ELSE p

\* An element goes: a cursor that was on it is set, another moves with its places.
LEMMA DeletePromise ==
  ASSUME ListInv, ListTypes', PointersTyped,
         NEW l \in lists, NEW ch, Chained(ch), \A m \in lists : CursorOf(m, ch[m]),
         NEW i \in 1..Len(ch[l]), NEW n, n = ch[l][i], TakesOut(l, n), List!Freed({n}),
         List!Returns(pointer[n]),
         \A m \in lists : m # l => current'[m] = current[m], NEW k0,
         \/ current[l] = n /\ CursorAt(l, Removed(ch[l], i), k0)'
         \/ current[l] # n /\ current'[l] = current[l]
  PROVE  Promise!Delete(l, i, k0)
<1> DEFINE c == ch[l]
           d == Removed(c, i)
<1>1. /\ l \in Lists /\ c \in Seq(Nodes) /\ Len(c) \in Nat /\ i \in Nat /\ i >= 1 /\ i <= Len(c)
      /\ ListTypes /\ ListTypes' /\ CursorOf(l, c) /\ n \in Nodes
  BY CellsOfChain DEF ListInv
<1>2. d \in Seq(Nodes) /\ Changed(ch, l, d) /\ ValuesAt(d)' = Promise!S!RemoveAt(ListSeqs[l], i)
  BY RemoveBecomes
<1>3. listResult' = ListSeqs[l][i] /\ listCrashed' = listCrashed
  BY SequenceIs DEF ListInv, List!Returns
<1>4. ListCursors[l] = Promise!On(i) <=> current[l] = n
  <2>1. CellAt(l, c, i) = n /\ i \in 0..(Len(c) + 1)
    BY <1>1 DEF CellAt
  <2> QED
    BY <1>1, <2>1, CursorOnCell
<1>5. l \in lists'
  BY DEF TakesOut
<1> HIDE DEF d
<1>6. CASE current[l] = n /\ CursorAt(l, d, k0)'
  <2>1. Promise!Becomes(l, Promise!S!RemoveAt(ListSeqs[l], i), k0)
    BY <1>1, <1>2, <1>5, <1>6, ListBecomes
  <2> QED
    BY <1>3, <1>4, <1>6, <2>1 DEF Promise!Delete, Promise!Returns
<1>7. CASE current[l] # n /\ current'[l] = current[l]
  <2> DEFINE P == [p \in PlacesOf(c) |-> Without(i, p)]
  <2>1. /\ Len(d) = Len(c) - 1
        /\ \A k \in 0..(Len(d) + 1) :
             CellAt(l, d, k) = IF k < i THEN CellAt(l, c, k) ELSE CellAt(l, c, k + 1)
    <3>1. c \in Seq(Nodes) /\ i \in 1..Len(c) /\ d = Removed(c, i)
      BY <1>1 DEF d
    <3> HIDE DEF c
    <3>2. Len(d) = Len(c) - 1
      BY <3>1, RemovedCells
    <3>3. \A k \in 0..(Len(d) + 1) :
            CellAt(l, d, k) = IF k < i THEN CellAt(l, c, k) ELSE CellAt(l, c, k + 1)
      BY <3>1, RemovedCells
    <3> QED
      BY <3>2, <3>3
  <2>2. ASSUME NEW x \in List!Kept, NEW p \in PlacesOf(c), Stands(l, c, x, p)
        PROVE  Stands(l, d, x, P[p])'
    <3>1. CASE p = -1
      <4>1. x \in Nodes \ nodes /\ P[p] = -1
        BY <1>1, <2>2, <3>1 DEF Stands, PlacesOf, Without
      <4>2. x \in Nodes \ nodes'
        BY <1>1, <1>2, <4>1, FreedStays
      <4> QED
        BY <4>1, <4>2 DEF Stands
    <3>2. CASE p = i
      <4>1. x = n /\ P[p] = -1
        BY <1>1, <2>2, <3>2 DEF Stands, PlacesOf, Without, CellAt
      <4>2. n \in Nodes \ nodes'
        BY <1>1 DEF TakesOut
      <4> QED
        BY <4>1, <4>2 DEF Stands
    <3>3. CASE p \in 0..(Len(c) + 1) /\ p # i
      <4>1. x = CellAt(l, c, p) /\ P[p] = Without(i, p)
        BY <1>1, <2>2, <3>3 DEF Stands, PlacesOf
      <4>2. Without(i, p) \in 0..(Len(d) + 1) /\ CellAt(l, d, Without(i, p)) = CellAt(l, c, p)
        <5>1. CASE p > i
          <6>1. /\ p - 1 \in 0..(Len(d) + 1) /\ ~(p - 1 < i) /\ (p - 1) + 1 = p
                /\ Without(i, p) = p - 1
            BY <1>1, <2>1, <3>3, <5>1 DEF Without
          <6> QED
            BY <2>1, <6>1
        <5>2. CASE p < i
          <6>1. p \in 0..(Len(d) + 1) /\ Without(i, p) = p
            BY <1>1, <2>1, <3>3, <5>2 DEF Without
          <6> QED
            BY <2>1, <5>2, <6>1
        <5> QED
          BY <1>1, <3>3, <5>1, <5>2
      <4>3. x = CellAt(l, d, P[p])'
        BY <4>1, <4>2 DEF CellAt, List!Pre, List!Post
      <4> QED
        BY <4>1, <4>2, <4>3 DEF Stands
    <3> QED
      BY <1>1, <3>1, <3>2, <3>3 DEF PlacesOf
  <2> HIDE DEF P
  <2>3. PICK g \in BOOLEAN, p \in PlacesOf(c), q \in PlacesOf(c) :
          ListCursors[l] = Cursor(g, p, q) /\ CursorAt(l, d, Cursor(g, P[p], P[q]))'
    BY <1>1, <1>7, <2>2, CursorMoves
  <2>4. Promise!Becomes(l, Promise!S!RemoveAt(ListSeqs[l], i), Cursor(g, Without(i, p), Without(i, q)))
    <3>1. Promise!Becomes(l, Promise!S!RemoveAt(ListSeqs[l], i), Cursor(g, P[p], P[q]))
      BY <1>1, <1>2, <1>5, <2>3, ListBecomes
    <3> QED
      BY <3>1 DEF P
  <2>5. ListCursors[l].left = p /\ ListCursors[l].right = q
    BY <2>3 DEF Cursor
  <2>6. PICK a, b : /\ a = IF ListCursors[l].left = i THEN -1
                           ELSE IF ListCursors[l].left > i THEN ListCursors[l].left - 1
                           ELSE ListCursors[l].left
                    /\ b = IF ListCursors[l].right = i THEN -1
                           ELSE IF ListCursors[l].right > i THEN ListCursors[l].right - 1
                           ELSE ListCursors[l].right
    OBVIOUS
  <2>7. a = Without(i, p) /\ b = Without(i, q)
    BY <2>5, <2>6 DEF Without
  <2>8. Elsewhere(ListCursors[l], a, b) = Cursor(g, Without(i, p), Without(i, q))
    BY <2>3, <2>7, ElsewhereIs
  <2>9. Promise!Move(ListCursors[l], LAMBDA j : IF j = i THEN -1 ELSE IF j > i THEN j - 1 ELSE j)
          = Cursor(g, Without(i, p), Without(i, q))
    BY <2>6, <2>8, Zenon DEF Promise!Move, Elsewhere
  <2> QED
    BY <1>3, <1>4, <1>7, <2>4, <2>9 DEF Promise!Delete, Promise!Returns, Promise!Lost, Promise!Move
<1> QED
  BY <1>6, <1>7 DEF d

LEMMA UnlinkTakesOut ==
  ASSUME NEW l, NEW n, List!Unlink(l, n) \/ List!UnlinkCurrent(l, n)
  PROVE  TakesOut(l, n) /\ List!Freed({n}) /\ List!Returns(pointer[n])
BY DEF TakesOut, List!Unlink, List!UnlinkCurrent, List!Freed

LEMMA NothingPromise ==
  ASSUME ListInv, List!NothingThere
  PROVE  Promise!Nothing
BY ListsRest DEF List!NothingThere, List!Returns, Promise!Nothing, Promise!Returns

LEMMA UndefinedPromise ==
  ASSUME ListInv, List!ReadsFreed
  PROVE  Promise!Undefined
BY ListsRest DEF List!ReadsFreed, Promise!Undefined

LEMMA RemoveFirstPromise ==
  ASSUME ListInv, ListTypes', PointersTyped, NEW l \in Lists, List!listRemoveFirst(l)
  PROVE  Promise!RemoveFirst(l)
<1>1. PICK ch : Chained(ch) /\ \A m \in lists : CursorOf(m, ch[m])
  BY DEF ListInv
<1>2. l \in lists
  BY DEF List!listRemoveFirst
<1>3. /\ ch[l] \in Seq(Nodes) /\ Len(ch[l]) \in Nat
      /\ Linked(next, previous, l, ch[l]) /\ num_of_elements[l] = Len(ch[l])
      /\ ListSeqs[l] \in Seq(Values \cup {NULL}) /\ ListSeqs[l] # NULL /\ Len(ListSeqs[l]) = Len(ch[l])
  BY <1>1, <1>2, CellsOfChain, SequenceIs DEF ListInv
<1>4. CASE Len(ch[l]) = 0
  <2>1. Promise!Nothing
    BY <1>3, <1>4, NothingPromise DEF List!listRemoveFirst
  <2> QED
    BY <1>3, <1>4, <2>1 DEF Promise!RemoveFirst
<1>5. CASE Len(ch[l]) # 0
  <2>1. 1 \in 1..Len(ch[l]) /\ next[List!Pre(l)] = ch[l][1]
    <3>1. 0 \in 0..Len(ch[l]) /\ CellAt(l, ch[l], 0) = List!Pre(l) /\ CellAt(l, ch[l], 0 + 1) = ch[l][1]
      BY <1>3, <1>5 DEF CellAt
    <3> QED
      BY <1>3, <1>5, <3>1 DEF Linked
  <2>2. PICK n : n = ch[l][1]
    OBVIOUS
  <2>3. /\ List!Unlink(l, n)
        /\ current' = [current EXCEPT ![l] = IF current[l] = n THEN List!Pre(l) ELSE current[l]]
    BY <1>3, <1>5, <2>1, <2>2 DEF List!listRemoveFirst
  <2>4. /\ \A m \in lists : m # l => current'[m] = current[m]
        /\ current'[l] = IF current[l] = n THEN List!Pre(l) ELSE current[l]
    BY <1>2, <2>3 DEF ListInv, ListTypes
  <2>5. PICK k0 : k0 = Promise!On(0)
    OBVIOUS
  <2>6. ASSUME current[l] = n
        PROVE  CursorAt(l, Removed(ch[l], 1), k0)'
    <3>1. PICK d : d = Removed(ch[l], 1)
      OBVIOUS
    <3>2. 0 \in 0..(Len(d) + 1) /\ CellAt(l, d, 0) = List!Pre(l)
      BY <1>3, <1>5, <3>1 DEF Removed, CellAt
    <3>3. CursorAt(l, d, Promise!On(0))'
      BY <2>4, <2>6, <3>2, CursorSet
    <3> QED
      BY <2>5, <3>1, <3>3 DEF Promise!On
  <2>7. Promise!Delete(l, 1, k0)
    <3>1. \/ current[l] = n /\ CursorAt(l, Removed(ch[l], 1), k0)'
          \/ current[l] # n /\ current'[l] = current[l]
      BY <2>4, <2>6
    <3>2. TakesOut(l, n) /\ List!Freed({n}) /\ List!Returns(pointer[n])
      BY <2>3, UnlinkTakesOut
    <3> QED
      BY <1>1, <1>2, <2>1, <2>2, <2>4, <3>1, <3>2, DeletePromise
  <2> QED
    BY <1>3, <1>5, <2>5, <2>7 DEF Promise!RemoveFirst
<1> QED
  BY <1>4, <1>5

LEMMA RemoveLastPromise ==
  ASSUME ListInv, ListTypes', PointersTyped, NEW l \in Lists, List!listRemoveLast(l)
  PROVE  Promise!RemoveLast(l)
<1>1. PICK ch : Chained(ch) /\ \A m \in lists : CursorOf(m, ch[m])
  BY DEF ListInv
<1>2. l \in lists
  BY DEF List!listRemoveLast
<1>3. /\ ch[l] \in Seq(Nodes) /\ Len(ch[l]) \in Nat
      /\ Linked(next, previous, l, ch[l]) /\ num_of_elements[l] = Len(ch[l])
      /\ ListSeqs[l] \in Seq(Values \cup {NULL}) /\ ListSeqs[l] # NULL /\ Len(ListSeqs[l]) = Len(ch[l])
  BY <1>1, <1>2, CellsOfChain, SequenceIs DEF ListInv
<1>4. CASE Len(ch[l]) = 0
  <2>1. Promise!Nothing
    BY <1>3, <1>4, NothingPromise DEF List!listRemoveLast
  <2> QED
    BY <1>3, <1>4, <2>1 DEF Promise!RemoveLast
<1>5. CASE Len(ch[l]) # 0
  <2>1. PICK i : i = Len(ch[l])
    OBVIOUS
  <2>2. i \in 1..Len(ch[l]) /\ previous[List!Post(l)] = ch[l][i]
    <3>1. i \in 0..Len(ch[l]) /\ CellAt(l, ch[l], i + 1) = List!Post(l) /\ CellAt(l, ch[l], i) = ch[l][i]
      BY <1>3, <1>5, <2>1 DEF CellAt
    <3> QED
      BY <1>3, <1>5, <2>1, <3>1 DEF Linked
  <2>3. PICK n : n = ch[l][i]
    OBVIOUS
  <2>4. /\ List!Unlink(l, n)
        /\ current' = [current EXCEPT ![l] = IF current[l] = n THEN List!Post(l) ELSE current[l]]
    BY <1>3, <1>5, <2>2, <2>3 DEF List!listRemoveLast
  <2>5. /\ \A m \in lists : m # l => current'[m] = current[m]
        /\ current'[l] = IF current[l] = n THEN List!Post(l) ELSE current[l]
    BY <1>2, <2>4 DEF ListInv, ListTypes
  <2>6. PICK k0 : k0 = Promise!On(i)
    OBVIOUS
  <2>7. ASSUME current[l] = n
        PROVE  CursorAt(l, Removed(ch[l], i), k0)'
    <3>1. PICK d : d = Removed(ch[l], i)
      OBVIOUS
    <3>2. i \in 0..(Len(d) + 1) /\ CellAt(l, d, i) = List!Post(l)
      BY <1>3, <1>5, <2>1, <3>1 DEF Removed, CellAt
    <3>3. CursorAt(l, d, Promise!On(i))'
      BY <2>5, <2>7, <3>2, CursorSet
    <3> QED
      BY <2>6, <3>1, <3>3 DEF Promise!On
  <2>8. Promise!Delete(l, i, k0)
    <3>1. \/ current[l] = n /\ CursorAt(l, Removed(ch[l], i), k0)'
          \/ current[l] # n /\ current'[l] = current[l]
      BY <2>5, <2>7
    <3>2. TakesOut(l, n) /\ List!Freed({n}) /\ List!Returns(pointer[n])
      BY <2>4, UnlinkTakesOut
    <3> QED
      BY <1>1, <1>2, <2>2, <2>3, <2>5, <3>1, <3>2, DeletePromise
  <2> QED
    BY <1>3, <1>5, <2>1, <2>6, <2>8 DEF Promise!RemoveLast
<1> QED
  BY <1>4, <1>5

\* The element that the cursor is on goes: the cursor is between its neighbours.
LEMMA GapPromise ==
  ASSUME ListInv, ListTypes', PointersTyped,
         NEW l \in lists, NEW ch, Chained(ch), \A m \in lists : CursorOf(m, ch[m]),
         NEW i \in 1..Len(ch[l]), NEW n, n = ch[l][i], current[l] = n, List!UnlinkCurrent(l, n)
  PROVE  Promise!Delete(l, i, Promise!Between(i - 1, i))
<1>1. PICK d, k0 : d = Removed(ch[l], i) /\ k0 = Promise!Between(i - 1, i)
  OBVIOUS
<1>2. /\ l \in Lists /\ ch[l] \in Seq(Nodes) /\ Len(ch[l]) \in Nat /\ i \in Nat /\ i >= 1 /\ i <= Len(ch[l])
      /\ Linked(next, previous, l, ch[l]) /\ Once(ch[l])
      /\ \A k \in 0..(Len(ch[l]) + 1) : CellAt(l, ch[l], k) \in List!Cells
  <2>1. /\ l \in Lists /\ ch[l] \in Seq(Nodes) /\ Len(ch[l]) \in Nat
        /\ Linked(next, previous, l, ch[l]) /\ Once(ch[l])
    BY CellsOfChain DEF ListInv
  <2>2. \A k \in 0..(Len(ch[l]) + 1) : CellAt(l, ch[l], k) \in List!Cells
    BY CellsOfChain DEF ListInv
  <2>3. i \in Nat /\ i >= 1 /\ i <= Len(ch[l])
    BY <2>1
  <2> QED
    BY <2>1, <2>2, <2>3
<1>3. /\ previous[n] = CellAt(l, ch[l], i - 1) /\ next[n] = CellAt(l, ch[l], i + 1)
      /\ previous[n] \in List!Cells /\ next[n] \in List!Cells
  <2>1. /\ i - 1 \in 0..Len(ch[l]) /\ i \in 0..Len(ch[l]) /\ (i - 1) + 1 = i /\ CellAt(l, ch[l], i) = n
        /\ i - 1 \in 0..(Len(ch[l]) + 1) /\ i + 1 \in 0..(Len(ch[l]) + 1)
    BY <1>2 DEF CellAt
  <2> QED
    BY <2>1, <1>2 DEF Linked
<1>4. /\ i - 1 \in 0..(Len(d) + 1) /\ i \in 0..(Len(d) + 1)
      /\ CellAt(l, d, i - 1) = CellAt(l, ch[l], i - 1) /\ CellAt(l, d, i) = CellAt(l, ch[l], i + 1)
  <2>1. Len(d) = Len(ch[l]) - 1
    BY <1>1, <1>2, RemovedCells
  <2>2. \A k \in 0..(Len(d) + 1) :
          CellAt(l, d, k) = IF k < i THEN CellAt(l, ch[l], k) ELSE CellAt(l, ch[l], k + 1)
    BY <1>1, <1>2, RemovedCells
  <2>3. i - 1 \in 0..(Len(d) + 1) /\ i \in 0..(Len(d) + 1) /\ i - 1 < i /\ ~(i < i)
    BY <1>2, <2>1
  <2> QED
    BY <2>2, <2>3
<1>5. /\ current'[l] = List!Deleted(l, previous[n], next[n])
      /\ \A m \in lists : m # l => current'[m] = current[m]
  BY <1>2 DEF List!UnlinkCurrent, ListInv, ListTypes
<1>6. PICK before \in List!Cells, after \in List!Cells : before = previous[n] /\ after = next[n]
  BY <1>3
<1>7. CursorAt(l, d, k0)'
  <2>1. Stands(l, d, before, i - 1)' /\ Stands(l, d, after, i)'
    BY <1>3, <1>4, <1>6 DEF Stands, CellAt, List!Pre, List!Post
  <2>2. current'[l] = List!Deleted(l, before, after)'
    BY <1>5, <1>6 DEF List!Deleted
  <2>3. k0 = Promise!Between(i - 1, i)'
    BY <1>1 DEF Promise!Between
  <2> QED
    BY <2>1, <2>2, <2>3 DEF CursorAt, List!Cells
<1>8. TakesOut(l, n) /\ List!Freed({n}) /\ List!Returns(pointer[n])
  BY UnlinkTakesOut
<1>9. CursorAt(l, Removed(ch[l], i), k0)'
  BY <1>1, <1>7
<1>10. Promise!Delete(l, i, k0)
  BY <1>5, <1>8, <1>9, DeletePromise
<1> QED
  BY <1>1, <1>10

\* A cell that stands on its own was freed, and no other.
LEMMA PlaceValid ==
  ASSUME ListTypes, NEW ch, Chained(ch), NEW l \in lists, NEW x, NEW p, Stands(l, ch[l], x, p)
  PROVE  /\ p \in PlacesOf(ch[l]) /\ x \in List!Cells
         /\ List!Valid(x) <=> p # -1
         /\ x \in nodes <=> p \in 1..Len(ch[l])
<1>1. /\ ch[l] \in Seq(Nodes) /\ Len(ch[l]) \in Nat /\ On(ch[l]) \subseteq nodes /\ l \in Lists
      /\ \A k \in 1..Len(ch[l]) : ch[l][k] \in nodes
  <2>1. ch[l] \in Seq(Nodes) /\ Len(ch[l]) \in Nat /\ On(ch[l]) \subseteq nodes /\ l \in Lists
    BY CellsOfChain
  <2> QED
    BY <2>1 DEF On
<1>2. CASE p = -1 /\ x \in Nodes \ nodes
  BY <1>1, <1>2, CellsAre DEF List!Valid, PlacesOf
<1>3. CASE p \in 0..(Len(ch[l]) + 1) /\ x = CellAt(l, ch[l], p)
  <2>1. x \in List!Cells /\ (x \in Nodes <=> p \in 1..Len(ch[l])) /\ p \in PlacesOf(ch[l]) /\ p # -1
    BY <1>1, <1>3, CellsOfChain DEF PlacesOf
  <2>2. p \in 1..Len(ch[l]) => x \in nodes
    BY <1>1, <1>3 DEF CellAt
  <2> QED
    BY <2>1, <2>2 DEF List!Valid, ListTypes
<1> QED
  BY <1>2, <1>3 DEF Stands

LEMMA RemoveCurrentPromise ==
  ASSUME ListInv, ListTypes', PointersTyped, NEW l \in Lists, List!listRemoveCurrent(l)
  PROVE  Promise!RemoveCurrent(l)
<1>1. PICK ch : Chained(ch) /\ \A m \in lists : CursorOf(m, ch[m])
  BY DEF ListInv
<1>2. l \in lists
  BY DEF List!listRemoveCurrent
<1>3. /\ Len(ch[l]) \in Nat /\ ListSeqs[l] # NULL /\ DOMAIN ListSeqs[l] = 1..Len(ch[l])
      /\ ListTypes /\ CursorOf(l, ch[l])
  BY <1>1, <1>2, CellsOfChain, SequenceIs DEF ListInv
<1>4. ASSUME NEW p, Stands(l, ch[l], current[l], p), ListCursors[l] = Promise!On(p)
      PROVE  Promise!RemoveCurrent(l)
  <2>1. /\ List!Valid(current[l]) <=> p # -1
        /\ current[l] \in nodes <=> p \in 1..Len(ch[l])
        /\ ListCursors[l] = Promise!On(-1) <=> p = -1
        /\ ListCursors[l].left = p /\ ListCursors[l].gap = FALSE
    <3>1. /\ List!Valid(current[l]) <=> p # -1
          /\ current[l] \in nodes <=> p \in 1..Len(ch[l])
      BY <1>1, <1>2, <1>3, <1>4, PlaceValid
    <3>2. ListCursors[l].left = p /\ ListCursors[l].gap = FALSE
      BY <1>4 DEF Promise!On
    <3>3. Promise!On(-1).left = -1
      BY DEF Promise!On
    <3>4. ListCursors[l] = Promise!On(-1) <=> p = -1
      BY <1>4, <3>2, <3>3
    <3> QED
      BY <3>1, <3>2, <3>4
  <2>2. CASE p = -1
    <3>1. Promise!Undefined
      BY <2>1, <2>2, UndefinedPromise DEF List!listRemoveCurrent
    <3> QED
      BY <1>3, <2>1, <2>2, <3>1 DEF Promise!RemoveCurrent, Promise!Lost
  <2>3. CASE p # -1 /\ p \notin 1..Len(ch[l])
    <3>1. Promise!Nothing
      <4>1. current[l] \notin Nodes
        BY <2>1, <2>3 DEF List!Valid
      <4> QED
        BY <2>1, <2>3, <4>1, NothingPromise DEF List!listRemoveCurrent
    <3> QED
      BY <1>3, <2>1, <2>3, <3>1 DEF Promise!RemoveCurrent, Promise!Lost
  <2>4. CASE p \in 1..Len(ch[l])
    <3>0. p # -1 /\ p # 0 /\ p # Len(ch[l]) + 1
      BY <1>3, <2>4
    <3>1. PICK n : n = ch[l][p]
      OBVIOUS
    <3>2. current[l] = n /\ current[l] \in Nodes /\ List!Valid(current[l])
      BY <1>3, <1>4, <2>1, <2>4, <3>0, <3>1 DEF Stands, CellAt, ListTypes
    <3>3. List!UnlinkCurrent(l, n)
      BY <3>2 DEF List!listRemoveCurrent
    <3>4. Promise!Delete(l, p, Promise!Between(p - 1, p))
      BY <1>1, <1>2, <2>4, <3>1, <3>2, <3>3, GapPromise
    <3> QED
      BY <1>3, <2>1, <2>4, <3>0, <3>4 DEF Promise!RemoveCurrent, Promise!Lost
  <2> QED
    BY <2>2, <2>3, <2>4
<1>5. ASSUME NEW before \in List!Cells, NEW after \in List!Cells, NEW p, NEW q,
             current[l] = List!Deleted(l, before, after), ListCursors[l] = Promise!Between(p, q)
      PROVE  Promise!RemoveCurrent(l)
  <2>1. current[l] \notin Nodes
    BY <1>5, ListsAssumption DEF List!ListAssumption
  <2>2. Promise!Nothing
    BY <2>1, NothingPromise DEF List!listRemoveCurrent, List!Valid
  <2>3. ListCursors[l].gap = TRUE /\ ListCursors[l] # Promise!On(-1)
    BY <1>5 DEF Promise!Between, Promise!On
  <2> QED
    BY <1>3, <2>2, <2>3 DEF Promise!RemoveCurrent, Promise!Lost
<1> QED
  BY <1>1, <1>2, <1>3, <1>4, <1>5, CursorIs

LEMMA RemoveThisPromise ==
  ASSUME ListInv, ListTypes', PointersTyped, NEW l \in Lists, NEW v, List!listRemoveThis(l, v)
  PROVE  Promise!RemoveThis(l, v)
<1>1. PICK ch : Chained(ch) /\ \A m \in lists : CursorOf(m, ch[m])
  BY DEF ListInv
<1>2. l \in lists
  BY DEF List!listRemoveThis
<1>3. /\ ch[l] \in Seq(Nodes) /\ Len(ch[l]) \in Nat
      /\ Linked(next, previous, l, ch[l]) /\ num_of_elements[l] = Len(ch[l])
      /\ ListSeqs[l] \in Seq(Values \cup {NULL}) /\ ListSeqs[l] # NULL /\ Len(ListSeqs[l]) = Len(ch[l])
      /\ ListTypes
  BY <1>1, <1>2, CellsOfChain, SequenceIs DEF ListInv
<1>4. List!Chain(l) = ch[l] /\ List!ValuesOf(l) = ListSeqs[l]
  BY <1>2, <1>3, ChainIs DEF ListSeqs
<1>5. PICK k : k = List!SelectLastInSeq(List!ValuesOf(l), LAMBDA w : w = v)
  OBVIOUS
<1>6. k \in 0..Len(ch[l]) /\ k = Promise!S!SelectLastInSeq(ListSeqs[l], LAMBDA w : w = v)
  <2> DEFINE I == {i \in 1..Len(ch[l]) : ListSeqs[l][i] = v}
  <2>1. k = IF I # {} THEN List!Max(I) ELSE 0
    BY <1>3, <1>4, <1>5 DEF List!SelectLastInSeq
  <2>2. Promise!S!SelectLastInSeq(ListSeqs[l], LAMBDA w : w = v) = IF I # {} THEN Promise!S!Max(I) ELSE 0
    BY <1>3 DEF Promise!S!SelectLastInSeq
  <2>3. I \in SUBSET (1..Len(ch[l]))
    OBVIOUS
  <2> HIDE DEF I
  <2>4. List!Max(I) = Promise!S!Max(I)
    BY DEF List!Max, Promise!S!Max
  <2>5. I # {} => List!Max(I) \in I
    BY <1>3, <2>3, MaxIsOne
  <2> QED
    BY <1>3, <2>1, <2>2, <2>3, <2>4, <2>5
<1>7. IF k = 0 THEN List!NothingThere
      ELSE IF ch[l][k] = current[l] THEN List!UnlinkCurrent(l, ch[l][k])
           ELSE List!Unlink(l, ch[l][k]) /\ UNCHANGED current
  BY <1>4, <1>5 DEF List!listRemoveThis
<1>8. CASE k = 0
  <2>1. Promise!Nothing
    BY <1>7, <1>8, NothingPromise
  <2> QED
    BY <1>3, <1>6, <1>8, <2>1 DEF Promise!RemoveThis
<1>9. CASE k # 0
  <2>1. k \in 1..Len(ch[l])
    BY <1>3, <1>6, <1>9
  <2>2. PICK n : n = ch[l][k]
    OBVIOUS
  <2>3. CASE n = current[l]
    <3>1. List!UnlinkCurrent(l, n) /\ current[l] = n
      BY <1>7, <1>9, <2>2, <2>3
    <3>2. Promise!Delete(l, k, Promise!Between(k - 1, k))
      BY <1>1, <1>2, <2>1, <2>2, <3>1, GapPromise
    <3> QED
      BY <1>3, <1>6, <1>9, <3>2 DEF Promise!RemoveThis
  <2>4. CASE n # current[l]
    <3>1. List!Unlink(l, n) /\ UNCHANGED current
      BY <1>7, <1>9, <2>2, <2>4
    <3>2. PICK k0 : k0 = Promise!Between(k - 1, k)
      OBVIOUS
    <3>3. /\ TakesOut(l, n) /\ List!Freed({n}) /\ List!Returns(pointer[n])
          /\ \A m \in lists : m # l => current'[m] = current[m]
          /\ current[l] # n /\ current'[l] = current[l]
      BY <2>4, <3>1, UnlinkTakesOut
    <3>4. Promise!Delete(l, k, k0)
      BY <1>1, <1>2, <2>1, <2>2, <3>3, DeletePromise
    <3> QED
      BY <1>3, <1>6, <1>9, <3>2, <3>4 DEF Promise!RemoveThis
  <2> QED
    BY <2>3, <2>4
<1> QED
  BY <1>8, <1>9

\* The cursor is moved, and no list is changed.
LEMMA Moved ==
  ASSUME ListInv, ListTypes', PointersTyped, UNCHANGED <<lists, List!links>>,
         NEW l \in lists, NEW ch, Chained(ch), \A m \in lists : CursorOf(m, ch[m]),
         NEW p \in 0..(Len(ch[l]) + 1),
         current' = [current EXCEPT ![l] = CellAt(l, ch[l], p)]
  PROVE  Promise!Becomes(l, ListSeqs[l], Promise!On(p))
<1>1. PICK c, k : c = ch[l] /\ k = Promise!On(p)
  OBVIOUS
<1>2. /\ l \in Lists /\ c \in Seq(Nodes) /\ Len(c) \in Nat /\ ListTypes
      /\ Once(c) /\ Linked(next, previous, l, c) /\ num_of_elements[l] = Len(c) /\ On(c) \subseteq nodes
  BY <1>1, CellsOfChain DEF ListInv
<1>3. /\ lists' = lists /\ nodes' = nodes /\ next' = next /\ previous' = previous /\ pointer' = pointer
      /\ num_of_elements' = num_of_elements
  BY DEF List!links
<1>4. current'[l] = CellAt(l, c, p) /\ \A m \in lists : m # l => current'[m] = current[m]
  BY <1>1, <1>2 DEF ListTypes
<1>5. Changed(ch, l, c)
  <2>1. Rechain(ch, l, c)
    BY <1>1, <1>2, <1>3 DEF Rechain, ListTypes
  <2> QED
    BY <1>1, <1>3, <1>4, <2>1 DEF Changed
<1>6. CursorAt(l, c, k)'
  <2>1. CursorAt(l, c, Promise!On(p))'
    BY <1>1, <1>4, CursorSet
  <2> QED
    BY <1>1, <2>1 DEF Promise!On
<1>7. ValuesAt(c)' = ListSeqs[l]
  <2>1. ValuesAt(c) = ListSeqs[l]
    BY <1>1, <1>2, ViewNow
  <2> QED
    BY <1>3, <2>1 DEF ValuesAt
<1>8. Promise!Becomes(l, ValuesAt(c)', k)
  BY <1>2, <1>3, <1>5, <1>6, ListBecomes
<1> QED
  BY <1>1, <1>7, <1>8

LEMMA GoToPromise ==
  ASSUME ListInv, ListTypes', PointersTyped,
         NEW l \in lists, NEW ch, Chained(ch), \A m \in lists : CursorOf(m, ch[m]),
         NEW x, NEW p, Stands(l, ch[l], x, p), List!GoTo(l, x)
  PROVE  Promise!GoTo(l, p)
<1>1. /\ List!Valid(x) <=> p # -1
      /\ x \in nodes <=> p \in 1..Len(ch[l])
  BY PlaceValid DEF ListInv
<1>2. CASE p = -1
  BY <1>1, <1>2, UndefinedPromise DEF List!GoTo, Promise!GoTo, Promise!Lost
<1>3. CASE p # -1
  <2>1. /\ p \in 0..(Len(ch[l]) + 1) /\ x = CellAt(l, ch[l], p)
        /\ current' = [current EXCEPT ![l] = x] /\ UNCHANGED <<lists, List!links>>
        /\ List!Returns(IF x \in Nodes THEN pointer[x] ELSE NULL)
    BY <1>1, <1>3 DEF Stands, List!GoTo
  <2>2. Promise!Becomes(l, ListSeqs[l], Promise!On(p))
    BY <2>1, Moved
  <2>3. Promise!At(l, p) = IF x \in Nodes THEN pointer[x] ELSE NULL
    <3>1. /\ DOMAIN ListSeqs[l] = 1..Len(ch[l]) /\ Len(ch[l]) \in Nat
          /\ \A k \in 1..Len(ch[l]) : ListSeqs[l][k] = pointer[ch[l][k]]
      BY SequenceIs, CellsOfChain DEF ListInv
    <3>2. x \in Nodes <=> p \in 1..Len(ch[l])
      BY <1>1, <1>3 DEF List!Valid, ListInv, ListTypes
    <3>3. p \in 1..Len(ch[l]) => x = ch[l][p]
      BY <2>1, <3>1 DEF CellAt
    <3> QED
      BY <3>1, <3>2, <3>3 DEF Promise!At
  <2> QED
    BY <1>3, <2>1, <2>2, <2>3 DEF Promise!GoTo, Promise!Lost, Promise!Returns, List!Returns
<1> QED
  BY <1>2, <1>3

\* Where the steps from a cell of a list lead.
LEMMA Steps ==
  ASSUME ListTypes, NEW ch, Chained(ch), NEW l \in lists
  PROVE  /\ \A p \in 0..(Len(ch[l]) + 1) :
              /\ next[CellAt(l, ch[l], p)] = CellAt(l, ch[l], IF p = Len(ch[l]) + 1 THEN p ELSE p + 1)
              /\ previous[CellAt(l, ch[l], p)] = CellAt(l, ch[l], IF p = 0 THEN p ELSE p - 1)
         /\ List!Pre(l) = CellAt(l, ch[l], 0) /\ List!Post(l) = CellAt(l, ch[l], Len(ch[l]) + 1)
<1>1. Len(ch[l]) \in Nat /\ Linked(next, previous, l, ch[l])
  BY CellsOfChain
<1>2. List!Pre(l) = CellAt(l, ch[l], 0) /\ List!Post(l) = CellAt(l, ch[l], Len(ch[l]) + 1)
  BY <1>1 DEF CellAt
<1>3. ASSUME NEW p \in 0..(Len(ch[l]) + 1)
      PROVE  next[CellAt(l, ch[l], p)] = CellAt(l, ch[l], IF p = Len(ch[l]) + 1 THEN p ELSE p + 1)
  <2>1. CASE p = Len(ch[l]) + 1
    BY <1>1, <1>2, <2>1 DEF Linked
  <2>2. CASE p # Len(ch[l]) + 1
    <3>1. p \in 0..Len(ch[l])
      BY <1>1, <2>2
    <3> QED
      BY <1>1, <2>2, <3>1 DEF Linked
  <2> QED
    BY <2>1, <2>2
<1>4. ASSUME NEW p \in 0..(Len(ch[l]) + 1)
      PROVE  previous[CellAt(l, ch[l], p)] = CellAt(l, ch[l], IF p = 0 THEN p ELSE p - 1)
  <2>1. CASE p = 0
    BY <1>1, <1>2, <2>1 DEF Linked
  <2>2. CASE p # 0
    <3>1. p - 1 \in 0..Len(ch[l]) /\ (p - 1) + 1 = p
      BY <1>1, <2>2
    <3> QED
      BY <1>1, <2>2, <3>1 DEF Linked
  <2> QED
    BY <2>1, <2>2
<1> QED
  BY <1>2, <1>3, <1>4

LEMMA GetFirstPromise ==
  ASSUME ListInv, ListTypes', PointersTyped, NEW l \in Lists, List!listGetFirst(l)
  PROVE  Promise!GetFirst(l)
<1>1. PICK ch : Chained(ch) /\ \A m \in lists : CursorOf(m, ch[m])
  BY DEF ListInv
<1>2. l \in lists /\ List!GoTo(l, previous[next[next[List!Pre(l)]]])
  BY DEF List!listGetFirst
<1>3. PICK n : n = Len(ch[l])
  OBVIOUS
<1>4. /\ n \in Nat /\ ListSeqs[l] # NULL /\ (ListSeqs[l] = <<>> <=> n = 0)
  <2>1. n \in Nat /\ ListSeqs[l] \in Seq(Values \cup {NULL}) /\ ListSeqs[l] # NULL /\ Len(ListSeqs[l]) = n
    BY <1>1, <1>2, <1>3, CellsOfChain, SequenceIs DEF ListInv
  <2> QED
    BY <2>1
<1>5. /\ \A p \in 0..(n + 1) :
           /\ next[CellAt(l, ch[l], p)] = CellAt(l, ch[l], IF p = n + 1 THEN p ELSE p + 1)
           /\ previous[CellAt(l, ch[l], p)] = CellAt(l, ch[l], IF p = 0 THEN p ELSE p - 1)
      /\ List!Pre(l) = CellAt(l, ch[l], 0)
  BY <1>1, <1>2, <1>3, Steps DEF ListInv
<1>6. PICK k : k = IF n = 0 THEN 0 ELSE 1
  OBVIOUS
<1>7. previous[next[next[List!Pre(l)]]] = CellAt(l, ch[l], k)
  <2>1. next[List!Pre(l)] = CellAt(l, ch[l], 1)
    BY <1>4, <1>5
  <2>2. CASE n = 0
    <3>1. next[CellAt(l, ch[l], 1)] = CellAt(l, ch[l], 1) /\ previous[CellAt(l, ch[l], 1)] = CellAt(l, ch[l], 0)
      BY <1>5, <2>2
    <3> QED
      BY <1>6, <2>1, <2>2, <3>1
  <2>3. CASE n # 0
    <3>1. next[CellAt(l, ch[l], 1)] = CellAt(l, ch[l], 2)
      BY <1>4, <1>5, <2>3
    <3>2. previous[CellAt(l, ch[l], 2)] = CellAt(l, ch[l], 1)
      BY <1>4, <1>5, <2>3
    <3> QED
      BY <1>6, <2>1, <2>3, <3>1, <3>2
  <2> QED
    BY <2>2, <2>3
<1>8. Stands(l, ch[l], CellAt(l, ch[l], k), k)
  BY <1>3, <1>4, <1>6 DEF Stands
<1>9. Promise!GoTo(l, k)
  BY <1>1, <1>2, <1>7, <1>8, GoToPromise
<1> QED
  BY <1>4, <1>6, <1>9 DEF Promise!GetFirst

LEMMA GetLastPromise ==
  ASSUME ListInv, ListTypes', PointersTyped, NEW l \in Lists, List!listGetLast(l)
  PROVE  Promise!GetLast(l)
<1>1. PICK ch : Chained(ch) /\ \A m \in lists : CursorOf(m, ch[m])
  BY DEF ListInv
<1>2. l \in lists /\ List!GoTo(l, next[previous[previous[List!Post(l)]]])
  BY DEF List!listGetLast
<1>3. PICK n : n = Len(ch[l])
  OBVIOUS
<1>4. /\ n \in Nat /\ ListSeqs[l] # NULL /\ (ListSeqs[l] = <<>> <=> n = 0) /\ Len(ListSeqs[l]) = n
  <2>1. n \in Nat /\ ListSeqs[l] \in Seq(Values \cup {NULL}) /\ ListSeqs[l] # NULL /\ Len(ListSeqs[l]) = n
    BY <1>1, <1>2, <1>3, CellsOfChain, SequenceIs DEF ListInv
  <2> QED
    BY <2>1
<1>5. /\ \A p \in 0..(n + 1) :
           /\ next[CellAt(l, ch[l], p)] = CellAt(l, ch[l], IF p = n + 1 THEN p ELSE p + 1)
           /\ previous[CellAt(l, ch[l], p)] = CellAt(l, ch[l], IF p = 0 THEN p ELSE p - 1)
      /\ List!Post(l) = CellAt(l, ch[l], n + 1)
  BY <1>1, <1>2, <1>3, Steps DEF ListInv
<1>6. PICK k : k = IF n = 0 THEN 1 ELSE n
  OBVIOUS
<1>7. next[previous[previous[List!Post(l)]]] = CellAt(l, ch[l], k)
  <2>1. previous[List!Post(l)] = CellAt(l, ch[l], n)
    <3>1. n + 1 \in 0..(n + 1) /\ n + 1 # 0 /\ (n + 1) - 1 = n
      BY <1>4
    <3> QED
      BY <1>5, <3>1
  <2>2. CASE n = 0
    <3>1. previous[CellAt(l, ch[l], 0)] = CellAt(l, ch[l], 0) /\ next[CellAt(l, ch[l], 0)] = CellAt(l, ch[l], 1)
      BY <1>5, <2>2
    <3> QED
      BY <1>6, <2>1, <2>2, <3>1
  <2>3. CASE n # 0
    <3>1. previous[CellAt(l, ch[l], n)] = CellAt(l, ch[l], n - 1)
      BY <1>4, <1>5, <2>3
    <3>2. next[CellAt(l, ch[l], n - 1)] = CellAt(l, ch[l], n)
      <4>1. n - 1 \in 0..(n + 1) /\ n - 1 # n + 1 /\ (n - 1) + 1 = n
        BY <1>4, <2>3
      <4> QED
        BY <1>5, <4>1
    <3> QED
      BY <1>6, <2>1, <2>3, <3>1, <3>2
  <2> QED
    BY <2>2, <2>3
<1>8. Stands(l, ch[l], CellAt(l, ch[l], k), k)
  BY <1>3, <1>4, <1>6 DEF Stands
<1>9. Promise!GoTo(l, k)
  BY <1>1, <1>2, <1>7, <1>8, GoToPromise
<1> QED
  BY <1>4, <1>6, <1>9 DEF Promise!GetLast

\* A cursor in a gap can be read, and knows the neighbours.
LEMMA GapReads ==
  ASSUME NEW l \in Lists, NEW before \in List!Cells, NEW after \in List!Cells,
         current[l] = List!Deleted(l, before, after)
  PROVE  /\ List!Valid(current[l]) /\ current[l] \notin Nodes
         /\ List!NextOf(current[l]) = after /\ List!PreviousOf(current[l]) = before
<1>1. /\ List!IsDeleted(List!Deleted(l, before, after))
      /\ List!Deleted(l, before, after)[3] = before /\ List!Deleted(l, before, after)[4] = after
  BY GapIsDeleted
<1>2. current[l] \notin Nodes
  BY ListsAssumption DEF List!ListAssumption
<1> QED
  BY <1>1, <1>2 DEF List!Valid, List!NextOf, List!PreviousOf

LEMMA GetNextPromise ==
  ASSUME ListInv, ListTypes', PointersTyped, NEW l \in Lists, List!listGetNext(l)
  PROVE  Promise!GetNext(l)
<1>1. PICK ch : Chained(ch) /\ \A m \in lists : CursorOf(m, ch[m])
  BY DEF ListInv
<1>2. l \in lists
  BY DEF List!listGetNext
<1>3. /\ Len(ch[l]) \in Nat /\ ListSeqs[l] # NULL /\ Len(ListSeqs[l]) = Len(ch[l])
      /\ ListTypes /\ CursorOf(l, ch[l])
  BY <1>1, <1>2, CellsOfChain, SequenceIs DEF ListInv
<1>4. ASSUME NEW p, Stands(l, ch[l], current[l], p), ListCursors[l] = Promise!On(p)
      PROVE  Promise!GetNext(l)
  <2>1. /\ List!Valid(current[l]) <=> p # -1
        /\ current[l] \in List!Cells
    BY <1>1, <1>2, <1>3, <1>4, PlaceValid
  <2>2. ListCursors[l].right = p /\ ListCursors[l].gap = FALSE
    BY <1>4 DEF Promise!On
  <2>3. CASE p = -1
    <3>1. Promise!Undefined
      BY <2>1, <2>3, UndefinedPromise DEF List!listGetNext
    <3> QED
      BY <1>3, <2>2, <2>3, <3>1 DEF Promise!GetNext, Promise!GoTo, Promise!Lost
  <2>4. CASE p # -1
    <3>1. PICK k : k = IF p = Len(ch[l]) + 1 THEN p ELSE p + 1
      OBVIOUS
    <3>2. p \in 0..(Len(ch[l]) + 1) /\ current[l] = CellAt(l, ch[l], p)
      BY <1>4, <2>4 DEF Stands
    <3>3. List!NextOf(current[l]) = CellAt(l, ch[l], k)
      <4>1. next[CellAt(l, ch[l], p)] = CellAt(l, ch[l], k)
        BY <1>1, <1>2, <1>3, <3>1, <3>2, Steps
      <4> QED
        BY <2>1, <3>2, <4>1 DEF List!NextOf, List!IsDeleted
    <3>4. List!GoTo(l, CellAt(l, ch[l], k))
      BY <2>1, <2>4, <3>3 DEF List!listGetNext
    <3>5. Stands(l, ch[l], CellAt(l, ch[l], k), k)
      BY <1>3, <3>1, <3>2 DEF Stands
    <3>6. Promise!GoTo(l, k)
      BY <1>1, <1>2, <3>4, <3>5, GoToPromise
    <3>7. k = IF ListCursors[l].gap \/ ListCursors[l].right \in {-1, Len(ListSeqs[l]) + 1}
              THEN ListCursors[l].right ELSE ListCursors[l].right + 1
      BY <1>3, <2>2, <2>4, <3>1
    <3> QED
      BY <1>3, <3>6, <3>7 DEF Promise!GetNext, Promise!Lost
  <2> QED
    BY <2>3, <2>4
<1>5. ASSUME NEW before \in List!Cells, NEW after \in List!Cells, NEW p, NEW q,
             current[l] = List!Deleted(l, before, after), Stands(l, ch[l], after, q),
             ListCursors[l] = Promise!Between(p, q)
      PROVE  Promise!GetNext(l)
  <2>1. List!GoTo(l, after)
    BY <1>5, GapReads DEF List!listGetNext
  <2>2. Promise!GoTo(l, q)
    BY <1>1, <1>2, <1>5, <2>1, GoToPromise
  <2>3. ListCursors[l].gap = TRUE /\ ListCursors[l].right = q
    BY <1>5 DEF Promise!Between
  <2> QED
    BY <1>3, <2>2, <2>3 DEF Promise!GetNext
<1> QED
  BY <1>1, <1>2, <1>3, <1>4, <1>5, CursorIs

LEMMA GetPreviousPromise ==
  ASSUME ListInv, ListTypes', PointersTyped, NEW l \in Lists, List!listGetPrevious(l)
  PROVE  Promise!GetPrevious(l)
<1>1. PICK ch : Chained(ch) /\ \A m \in lists : CursorOf(m, ch[m])
  BY DEF ListInv
<1>2. l \in lists
  BY DEF List!listGetPrevious
<1>3. /\ Len(ch[l]) \in Nat /\ ListSeqs[l] # NULL
      /\ ListTypes /\ CursorOf(l, ch[l])
  BY <1>1, <1>2, CellsOfChain, SequenceIs DEF ListInv
<1>4. ASSUME NEW p, Stands(l, ch[l], current[l], p), ListCursors[l] = Promise!On(p)
      PROVE  Promise!GetPrevious(l)
  <2>1. /\ List!Valid(current[l]) <=> p # -1
        /\ current[l] \in List!Cells
    BY <1>1, <1>2, <1>3, <1>4, PlaceValid
  <2>2. ListCursors[l].left = p /\ ListCursors[l].gap = FALSE
    BY <1>4 DEF Promise!On
  <2>3. CASE p = -1
    <3>1. Promise!Undefined
      BY <2>1, <2>3, UndefinedPromise DEF List!listGetPrevious
    <3> QED
      BY <1>3, <2>2, <2>3, <3>1 DEF Promise!GetPrevious, Promise!GoTo, Promise!Lost
  <2>4. CASE p # -1
    <3>1. PICK k : k = IF p = 0 THEN p ELSE p - 1
      OBVIOUS
    <3>2. p \in 0..(Len(ch[l]) + 1) /\ current[l] = CellAt(l, ch[l], p)
      BY <1>4, <2>4 DEF Stands
    <3>3. List!PreviousOf(current[l]) = CellAt(l, ch[l], k)
      <4>1. previous[CellAt(l, ch[l], p)] = CellAt(l, ch[l], k)
        BY <1>1, <1>2, <1>3, <3>1, <3>2, Steps
      <4> QED
        BY <2>1, <3>2, <4>1 DEF List!PreviousOf, List!IsDeleted
    <3>4. List!GoTo(l, CellAt(l, ch[l], k))
      BY <2>1, <2>4, <3>3 DEF List!listGetPrevious
    <3>5. Stands(l, ch[l], CellAt(l, ch[l], k), k)
      BY <1>3, <3>1, <3>2 DEF Stands
    <3>6. Promise!GoTo(l, k)
      BY <1>1, <1>2, <3>4, <3>5, GoToPromise
    <3>7. k = IF ListCursors[l].gap \/ ListCursors[l].left \in {-1, 0}
              THEN ListCursors[l].left ELSE ListCursors[l].left - 1
      BY <1>3, <2>2, <2>4, <3>1
    <3> QED
      BY <1>3, <3>6, <3>7 DEF Promise!GetPrevious, Promise!Lost
  <2> QED
    BY <2>3, <2>4
<1>5. ASSUME NEW before \in List!Cells, NEW after \in List!Cells, NEW p, NEW q,
             current[l] = List!Deleted(l, before, after), Stands(l, ch[l], before, p),
             ListCursors[l] = Promise!Between(p, q)
      PROVE  Promise!GetPrevious(l)
  <2>1. List!GoTo(l, before)
    BY <1>5, GapReads DEF List!listGetPrevious
  <2>2. Promise!GoTo(l, p)
    BY <1>1, <1>2, <1>5, <2>1, GoToPromise
  <2>3. ListCursors[l].gap = TRUE /\ ListCursors[l].left = p
    BY <1>5 DEF Promise!Between
  <2> QED
    BY <1>3, <2>2, <2>3 DEF Promise!GetPrevious
<1> QED
  BY <1>1, <1>2, <1>3, <1>4, <1>5, CursorIs

LEMMA GetCurrentPromise ==
  ASSUME ListInv, ListTypes', PointersTyped, NEW l \in Lists, List!listGetCurrent(l)
  PROVE  Promise!GetCurrent(l)
<1>1. PICK ch : Chained(ch) /\ \A m \in lists : CursorOf(m, ch[m])
  BY DEF ListInv
<1>2. l \in lists /\ List!GoTo(l, current[l])
  BY DEF List!listGetCurrent
<1>3. ListSeqs[l] # NULL /\ ListTypes /\ CursorOf(l, ch[l])
  BY <1>1, <1>2, SequenceIs DEF ListInv
<1>4. ASSUME NEW p, Stands(l, ch[l], current[l], p), ListCursors[l] = Promise!On(p)
      PROVE  Promise!GetCurrent(l)
  <2>1. ListCursors[l].left = p /\ ListCursors[l].gap = FALSE
    BY <1>4 DEF Promise!On
  <2>2. Promise!GoTo(l, p)
    <3>1. PICK x : x = current[l]
      OBVIOUS
    <3>2. Stands(l, ch[l], x, p) /\ List!GoTo(l, x)
      BY <1>2, <1>4, <3>1
    <3> QED
      BY <1>1, <1>2, <3>2, GoToPromise
  <2> QED
    BY <1>3, <2>1, <2>2 DEF Promise!GetCurrent
<1>5. ASSUME NEW before \in List!Cells, NEW after \in List!Cells, NEW p, NEW q,
             current[l] = List!Deleted(l, before, after), ListCursors[l] = Promise!Between(p, q)
      PROVE  Promise!GetCurrent(l)
  <2>1. List!Valid(current[l]) /\ current[l] \notin Nodes
    BY <1>5, GapReads
  <2>2. List!NothingThere
    BY <1>2, <1>3, <2>1 DEF List!GoTo, List!NothingThere, List!Returns, ListTypes
  <2>3. ListCursors[l].gap = TRUE
    BY <1>5 DEF Promise!Between
  <2> QED
    BY <1>3, <2>2, <2>3, NothingPromise DEF Promise!GetCurrent
<1> QED
  BY <1>1, <1>2, <1>3, <1>4, <1>5, CursorIs

\* The mapping is that of UtilList.
LEMMA SameState ==
  /\ List!Abstract!Init <=> Promise!Init
  /\ (UNCHANGED List!Abstract!vars) <=> UNCHANGED Promise!vars
<1>1. List!Abstract!Init <=> Promise!Init
  BY DEF List!Abstract!Init, Promise!Init, List!Abstract!On, Promise!On, ListSeqs, ListCursors
<1>2. (UNCHANGED List!Abstract!vars) <=> UNCHANGED Promise!vars
  BY DEF List!Abstract!vars, Promise!vars, ListSeqs, ListCursors
<1> QED
  BY <1>1, <1>2

LEMMA SameChanges ==
  ASSUME NEW l, NEW m, NEW v
  PROVE  /\ List!Abstract!Create(l) <=> Promise!Create(l)
         /\ List!Abstract!Release(l) <=> Promise!Release(l)
         /\ List!Abstract!Copy(l, m) <=> Promise!Copy(l, m)
         /\ List!Abstract!Clear(l) <=> Promise!Clear(l)
         /\ List!Abstract!AddLast(l, v) <=> Promise!AddLast(l, v)
         /\ List!Abstract!AddFirst(l, v) <=> Promise!AddFirst(l, v)
<1> USE DEF List!Abstract!Becomes, List!Abstract!ReturnsNothing, List!Abstract!On,
            List!Abstract!Move, List!Abstract!Lost,
            Promise!Becomes, Promise!ReturnsNothing, Promise!On, Promise!Move, Promise!Lost,
            ListSeqs, ListCursors
<1>1. List!Abstract!Create(l) <=> Promise!Create(l)
  BY Zenon DEF List!Abstract!Create, Promise!Create
<1>2. List!Abstract!Release(l) <=> Promise!Release(l)
  BY Zenon DEF List!Abstract!Release, Promise!Release
<1>3. List!Abstract!Copy(l, m) <=> Promise!Copy(l, m)
  BY Zenon DEF List!Abstract!Copy, Promise!Copy
<1>4. List!Abstract!Clear(l) <=> Promise!Clear(l)
  BY Zenon DEF List!Abstract!Clear, Promise!Clear
<1>5. List!Abstract!AddLast(l, v) <=> Promise!AddLast(l, v)
  BY Zenon DEF List!Abstract!AddLast, Promise!AddLast
<1>6. List!Abstract!AddFirst(l, v) <=> Promise!AddFirst(l, v)
  BY Zenon DEF List!Abstract!AddFirst, Promise!AddFirst
<1> QED
  BY <1>1, <1>2, <1>3, <1>4, <1>5, <1>6

LEMMA SameRemovals ==
  ASSUME NEW l, NEW v
  PROVE  /\ List!Abstract!RemoveFirst(l) <=> Promise!RemoveFirst(l)
         /\ List!Abstract!RemoveLast(l) <=> Promise!RemoveLast(l)
         /\ List!Abstract!RemoveCurrent(l) <=> Promise!RemoveCurrent(l)
         /\ List!Abstract!RemoveThis(l, v) <=> Promise!RemoveThis(l, v)
<1> USE DEF List!Abstract!Delete, List!Abstract!Nothing, List!Abstract!Undefined,
            List!Abstract!Becomes, List!Abstract!Returns, List!Abstract!On, List!Abstract!Between,
            List!Abstract!Move, List!Abstract!Lost, List!Abstract!S!RemoveAt,
            List!Abstract!S!SelectLastInSeq, List!Abstract!S!Max,
            Promise!Delete, Promise!Nothing, Promise!Undefined,
            Promise!Becomes, Promise!Returns, Promise!On, Promise!Between,
            Promise!Move, Promise!Lost, Promise!S!RemoveAt,
            Promise!S!SelectLastInSeq, Promise!S!Max,
            ListSeqs, ListCursors
<1>1. List!Abstract!RemoveFirst(l) <=> Promise!RemoveFirst(l)
  BY Zenon DEF List!Abstract!RemoveFirst, Promise!RemoveFirst
<1>2. List!Abstract!RemoveLast(l) <=> Promise!RemoveLast(l)
  BY Zenon DEF List!Abstract!RemoveLast, Promise!RemoveLast
<1>3. List!Abstract!RemoveCurrent(l) <=> Promise!RemoveCurrent(l)
  BY Zenon DEF List!Abstract!RemoveCurrent, Promise!RemoveCurrent
<1>4. List!Abstract!RemoveThis(l, v) <=> Promise!RemoveThis(l, v)
  BY Zenon DEF List!Abstract!RemoveThis, Promise!RemoveThis
<1> QED
  BY <1>1, <1>2, <1>3, <1>4

LEMMA SameReads ==
  ASSUME NEW l
  PROVE  /\ List!Abstract!GetFirst(l) <=> Promise!GetFirst(l)
         /\ List!Abstract!GetLast(l) <=> Promise!GetLast(l)
         /\ List!Abstract!GetNext(l) <=> Promise!GetNext(l)
         /\ List!Abstract!GetPrevious(l) <=> Promise!GetPrevious(l)
         /\ List!Abstract!GetCurrent(l) <=> Promise!GetCurrent(l)
<1> USE DEF List!Abstract!GoTo, List!Abstract!Nothing, List!Abstract!Undefined,
            List!Abstract!Becomes, List!Abstract!Returns, List!Abstract!On, List!Abstract!At,
            List!Abstract!Lost,
            Promise!GoTo, Promise!Nothing, Promise!Undefined,
            Promise!Becomes, Promise!Returns, Promise!On, Promise!At, Promise!Lost,
            ListSeqs, ListCursors
<1>1. List!Abstract!GetFirst(l) <=> Promise!GetFirst(l)
  BY Zenon DEF List!Abstract!GetFirst, Promise!GetFirst
<1>2. List!Abstract!GetLast(l) <=> Promise!GetLast(l)
  BY Zenon DEF List!Abstract!GetLast, Promise!GetLast
<1>3. List!Abstract!GetNext(l) <=> Promise!GetNext(l)
  BY Zenon DEF List!Abstract!GetNext, Promise!GetNext
<1>4. List!Abstract!GetPrevious(l) <=> Promise!GetPrevious(l)
  BY Zenon DEF List!Abstract!GetPrevious, Promise!GetPrevious
<1>5. List!Abstract!GetCurrent(l) <=> Promise!GetCurrent(l)
  BY Zenon DEF List!Abstract!GetCurrent, Promise!GetCurrent
<1> QED
  BY <1>1, <1>2, <1>3, <1>4, <1>5

----------------------------------------------------------------------------
(* Every step is one of the sequences and cursors.                         *)

LEMMA BuildPointers ==
  ASSUME ListInv, PointersTyped, NEW l \in Lists \ lists, NEW vs, NEW size \in Nat,
         DOMAIN vs = 1..size, Len(vs) = size, \A k \in 1..size : vs[k] \in Values \cup {NULL},
         List!Build(l, vs)
  PROVE  PointersTyped'
<1>1. PICK ch : Chained(ch)
  BY DEF ListInv
<1>2. PICK c \in Seq(Nodes) :
        /\ Len(c) = size
        /\ \A k \in 1..size : pointer'[c[k]] = vs[k]
        /\ \A n \in Nodes : n \notin On(c) => pointer'[n] = pointer[n]
  BY <1>1, BuildRechains DEF ListInv
<1>3. ASSUME NEW n \in Nodes
      PROVE  pointer'[n] \in Values \cup {NULL}
  <2>1. CASE n \in On(c)
    BY <1>2, <2>1 DEF On
  <2>2. CASE n \notin On(c)
    BY <1>2, <2>2 DEF PointersTyped
  <2> QED
    BY <2>1, <2>2
<1>4. pointer' = [n \in Nodes |-> pointer'[n]]
  BY Zenon DEF List!Build
<1> QED
  BY <1>3, <1>4 DEF PointersTyped

LEMMA FreedPointers ==
  ASSUME PointersTyped, NEW S, List!Freed(S)
  PROVE  PointersTyped'
BY DEF PointersTyped, List!Freed

LEMMA InsertPointers ==
  ASSUME PointersTyped, NEW l, NEW b, NEW a, NEW v \in Values \cup {NULL}, List!Insert(l, b, a, v)
  PROVE  PointersTyped'
BY DEF PointersTyped, List!Insert, List!links

LEMMA GoToPointers ==
  ASSUME PointersTyped, NEW l, NEW c, List!GoTo(l, c)
  PROVE  PointersTyped'
BY DEF PointersTyped, List!GoTo, List!ReadsFreed, List!links

LEMMA PointersStep ==
  ASSUME ListInv, PointersTyped, [List!Next]_listVars
  PROVE  PointersTyped'
<1>1. CASE UNCHANGED listVars
  BY <1>1 DEF listVars, PointersTyped
<1>2. ASSUME UNCHANGED List!links
      PROVE  PointersTyped'
  BY <1>2 DEF List!links, PointersTyped
<1>3. ASSUME NEW l \in Lists, List!Change(l)
      PROVE  PointersTyped'
  <2>1. CASE List!newList(l)
    <3>1. DOMAIN <<>> = 1..0 /\ Len(<<>>) = 0 /\ 0 \in Nat
      OBVIOUS
    <3> QED
      BY <2>1, <3>1, BuildPointers DEF List!newList
  <2>2. CASE List!listRelease(l) \/ List!listClear(l)
    BY <2>2, FreedPointers DEF List!listRelease, List!listClear, List!RemoveAll
  <2>3. ASSUME NEW m \in Lists, List!listClone(l, m)
        PROVE  PointersTyped'
    <3>1. PICK ch : Chained(ch)
      BY DEF ListInv
    <3>2. l \in lists /\ m \in Lists \ lists /\ List!Build(m, List!ValuesOf(l))
      BY <2>3 DEF List!listClone
    <3>3. List!ValuesOf(l) = ListSeqs[l]
      BY <1>3, <3>2 DEF ListSeqs
    <3>4. /\ ListSeqs[l] \in Seq(Values \cup {NULL}) /\ Len(ListSeqs[l]) \in Nat
          /\ DOMAIN ListSeqs[l] = 1..Len(ListSeqs[l])
          /\ \A k \in 1..Len(ListSeqs[l]) : ListSeqs[l][k] \in Values \cup {NULL}
      <4>1. ListSeqs[l] \in Seq(Values \cup {NULL})
        BY <3>1, <3>2, SequenceIs DEF ListInv
      <4> QED
        BY <4>1
    <3> QED
      BY <3>2, <3>3, <3>4, BuildPointers
  <2>4. ASSUME NEW v \in Values \cup {NULL}, List!listAppend(l, v) \/ List!listPrepend(l, v)
        PROVE  PointersTyped'
    BY <2>4, InsertPointers DEF List!listAppend, List!listPrepend
  <2> QED
    BY <1>3, <2>1, <2>2, <2>3, <2>4 DEF List!Change
<1>4. ASSUME NEW l \in Lists, List!RemoveOne(l)
      PROVE  PointersTyped'
  <2>1. ASSUME NEW n, List!Unlink(l, n) \/ List!UnlinkCurrent(l, n)
        PROVE  PointersTyped'
    BY <2>1, UnlinkTakesOut, FreedPointers
  <2>2. ASSUME List!NothingThere \/ List!ReadsFreed
        PROVE  PointersTyped'
    BY <1>2, <2>2 DEF List!NothingThere, List!ReadsFreed
  <2>3. CASE List!listRemoveFirst(l) \/ List!listRemoveLast(l) \/ List!listRemoveCurrent(l)
    BY <2>1, <2>2, <2>3 DEF List!listRemoveFirst, List!listRemoveLast, List!listRemoveCurrent
  <2>4. ASSUME NEW v, List!listRemoveThis(l, v)
        PROVE  PointersTyped'
    BY <2>1, <2>2, <2>4 DEF List!listRemoveThis
  <2> QED
    BY <1>4, <2>3, <2>4 DEF List!RemoveOne
<1>5. ASSUME NEW l \in Lists, List!Read(l)
      PROVE  PointersTyped'
  <2>1. List!ReadsFreed \/ \E c : List!GoTo(l, c)
    BY <1>5 DEF List!Read, List!listGetFirst, List!listGetLast, List!listGetNext,
                List!listGetPrevious, List!listGetCurrent
  <2> QED
    BY <1>2, <2>1, GoToPointers DEF List!ReadsFreed
<1> QED
  BY <1>1, <1>3, <1>4, <1>5 DEF List!Next

\* Every call does what ListCursor says.
LEMMA ListPromise ==
  ASSUME ListInv, PointersTyped, List!Next
  PROVE  List!Abstract!Next
<1>1. PICK l \in Lists : List!Change(l) \/ List!RemoveOne(l) \/ List!Read(l)
  BY DEF List!Next
<1>2. ListTypes' /\ ~listCrashed
  <2>1. [List!Next]_listVars
    OBVIOUS
  <2> QED
    BY <2>1, ListInvStep DEF ListInv, List!Next
<1>3. CASE List!Change(l)
  <2>1. CASE List!newList(l)
    BY <1>2, <2>1, NewPromise, SameChanges DEF List!Abstract!Next
  <2>2. CASE List!listRelease(l)
    BY <1>2, <2>2, ReleasePromise, SameChanges DEF List!Abstract!Next
  <2>3. CASE List!listClear(l)
    BY <1>2, <2>3, ClearPromise, SameChanges DEF List!Abstract!Next
  <2>4. ASSUME NEW m \in Lists, List!listClone(l, m)
        PROVE  List!Abstract!Next
    BY <1>2, <2>4, ClonePromise, SameChanges DEF List!Abstract!Next
  <2>5. ASSUME NEW v \in Values \cup {NULL}, List!listAppend(l, v)
        PROVE  List!Abstract!Next
    BY <1>2, <2>5, AppendPromise, SameChanges DEF List!Abstract!Next
  <2>6. ASSUME NEW v \in Values \cup {NULL}, List!listPrepend(l, v)
        PROVE  List!Abstract!Next
    BY <1>2, <2>6, PrependPromise, SameChanges DEF List!Abstract!Next
  <2> QED
    BY <1>3, <2>1, <2>2, <2>3, <2>4, <2>5, <2>6 DEF List!Change
<1>4. CASE List!RemoveOne(l)
  <2>1. CASE List!listRemoveFirst(l)
    BY <1>2, <2>1, RemoveFirstPromise, SameRemovals DEF List!Abstract!Next
  <2>2. CASE List!listRemoveLast(l)
    BY <1>2, <2>2, RemoveLastPromise, SameRemovals DEF List!Abstract!Next
  <2>3. CASE List!listRemoveCurrent(l)
    BY <1>2, <2>3, RemoveCurrentPromise, SameRemovals DEF List!Abstract!Next
  <2>4. ASSUME NEW v \in Values, List!listRemoveThis(l, v)
        PROVE  List!Abstract!Next
    BY <1>2, <2>4, RemoveThisPromise, SameRemovals DEF List!Abstract!Next
  <2> QED
    BY <1>4, <2>1, <2>2, <2>3, <2>4 DEF List!RemoveOne
<1>5. CASE List!Read(l)
  <2>1. CASE List!listGetFirst(l)
    BY <1>2, <2>1, GetFirstPromise, SameReads DEF List!Abstract!Next
  <2>2. CASE List!listGetLast(l)
    BY <1>2, <2>2, GetLastPromise, SameReads DEF List!Abstract!Next
  <2>3. CASE List!listGetNext(l)
    BY <1>2, <2>3, GetNextPromise, SameReads DEF List!Abstract!Next
  <2>4. CASE List!listGetPrevious(l)
    BY <1>2, <2>4, GetPreviousPromise, SameReads DEF List!Abstract!Next
  <2>5. CASE List!listGetCurrent(l)
    BY <1>2, <2>5, GetCurrentPromise, SameReads DEF List!Abstract!Next
  <2> QED
    BY <1>5, <2>1, <2>2, <2>3, <2>4, <2>5 DEF List!Read
<1> QED
  BY <1>1, <1>3, <1>4, <1>5

LEMMA ListsStart ==
  ASSUME List!Init
  PROVE  PointersTyped /\ List!Abstract!Init
<1>1. PointersTyped
  BY DEF List!Init, PointersTyped
<1>2. ListSeqs = [l \in Lists |-> NULL] /\ ListCursors = [l \in Lists |-> Promise!On(0)]
  BY ViewIs DEF List!Init, View
<1>3. Promise!Init
  BY <1>2 DEF List!Init, Promise!Init
<1> QED
  BY <1>1, <1>3, SameState

\* Whatever a program does with its lists, every call returns, and leaves behind,
\* what a sequence with a cursor says: a cursor whose element was removed goes on
\* between the neighbours it had, and an element that was freed is read only when
\* the cursor's place was removed behind its back: genericlist.c.
THEOREM ClientListsPromise == MCSpec => ListRefinesCursor
<1> DEFINE allVars == <<part, operationVars, vars, bufferVars, listVars, tableVars>>
           Inv == ListInv /\ PointersTyped
<1>1. MCInit => Inv /\ List!Abstract!Init
  BY ListInvInit, ListsStart DEF MCInit
<1>2. [MCNext]_allVars => [List!Next]_listVars
  BY DEF MCNext
<1>3. Inv /\ [MCNext]_allVars => Inv'
  BY <1>2, ListInvStep, PointersStep
<1>4. Inv /\ [MCNext]_allVars =>
        [part = "list" => (List!Abstract!vars' = List!Abstract!vars \/ List!Abstract!Next)]_<<part, listVars>>
  <2> SUFFICES ASSUME Inv, [MCNext]_allVars, part = "list", ~UNCHANGED <<part, listVars>>
               PROVE  List!Abstract!Next
    OBVIOUS
  <2>1. List!Next
    BY DEF MCNext
  <2> QED
    BY <2>1, ListPromise
<1> QED
  BY <1>1, <1>3, <1>4, PTL DEF MCSpec, ListRefinesCursor

----------------------------------------------------------------------------
(* The operations as the part of MCSpec: what ClientOperation_Proofs proves*)
(* of its module holds of the part, whose locals have another name here.   *)

OperationPart == INSTANCE ClientOperation_Proofs WITH locals <- opLocals

\* The definitions of the part are those of ClientOperation, whatever their name.
LEMMA SamePrograms == \A op : Operation!Program(op) = OperationPart!Program(op)
BY Zenon DEF Operation!Program, Operation!enumInstanceNames, Operation!Usual,
     Operation!Exchange, Operation!New, Operation!Step, Operation!OrElse,
     Operation!HeaderExit, Operation!Free, Operation!Return,
     Operation!TransportExit, Operation!ErrorExit, Operation!Enumeration,
     Operation!Hand, Operation!execQuery, Operation!enumInstances,
     Operation!associators, Operation!associatorNames, Operation!references,
     Operation!referenceNames, Operation!enumClassNames,
     Operation!enumClasses, Operation!getInstance, Operation!Clone,
     Operation!getClass, Operation!createInstance, Operation!setInstance,
     Operation!deleteInstance, Operation!Temporary, Operation!setProperty,
     Operation!getProperty, Operation!invokeMethod, OperationPart!Program,
     OperationPart!enumInstanceNames, OperationPart!Usual,
     OperationPart!Exchange, OperationPart!New, OperationPart!Step,
     OperationPart!OrElse, OperationPart!HeaderExit, OperationPart!Free,
     OperationPart!Return, OperationPart!TransportExit,
     OperationPart!ErrorExit, OperationPart!Enumeration, OperationPart!Hand,
     OperationPart!execQuery, OperationPart!enumInstances,
     OperationPart!associators, OperationPart!associatorNames,
     OperationPart!references, OperationPart!referenceNames,
     OperationPart!enumClassNames, OperationPart!enumClasses,
     OperationPart!getInstance, OperationPart!Clone, OperationPart!getClass,
     OperationPart!createInstance, OperationPart!setInstance,
     OperationPart!deleteInstance, OperationPart!Temporary,
     OperationPart!setProperty, OperationPart!getProperty,
     OperationPart!invokeMethod

LEMMA SameOperationNext == Operation!Next <=> OperationPart!Next
<1>1. \A op : Operation!Call(op) <=> OperationPart!Call(op)
  BY SamePrograms, Zenon DEF Operation!Call, Operation!Idle, Operation!Now,
       Operation!NoLocals, Operation!Locals, Operation!StatusOps,
       Operation!NoAnswer, Operation!NoWire, OperationPart!Call,
       OperationPart!Idle, OperationPart!Now, OperationPart!NoLocals,
       OperationPart!Locals, OperationPart!StatusOps, OperationPart!NoAnswer,
       OperationPart!NoWire
<1>2. \A object : Operation!CallerReleases(object) <=> OperationPart!CallerReleases(object)
  BY Zenon DEF Operation!CallerReleases, Operation!Idle, Operation!Release,
       Operation!Parts, Operation!Element, OperationPart!CallerReleases,
       OperationPart!Idle, OperationPart!Release, OperationPart!Parts,
       OperationPart!Element
<1>3. /\ Operation!releaseClient <=> OperationPart!releaseClient
      /\ Operation!NewStep <=> OperationPart!NewStep
      /\ Operation!FreeStep <=> OperationPart!FreeStep
      /\ Operation!ReturnStep <=> OperationPart!ReturnStep
      /\ Operation!HandStep <=> OperationPart!HandStep
  BY Zenon DEF Operation!releaseClient, Operation!Idle, Operation!Release,
       Operation!Parts, Operation!Element, Operation!NewStep, Operation!Doing,
       Operation!Proceed, Operation!Allocate, Operation!Object, Operation!Now,
       Operation!Given, Operation!FreeStep, Operation!ReturnStep,
       Operation!NoLocals, Operation!Locals, Operation!HandStep,
       OperationPart!releaseClient, OperationPart!Idle, OperationPart!Release,
       OperationPart!Parts, OperationPart!Element, OperationPart!NewStep,
       OperationPart!Doing, OperationPart!Proceed, OperationPart!Allocate,
       OperationPart!Object, OperationPart!Now, OperationPart!Given,
       OperationPart!FreeStep, OperationPart!ReturnStep,
       OperationPart!NoLocals, OperationPart!Locals, OperationPart!HandStep
<1>4. /\ Operation!genRequest <=> OperationPart!genRequest
      /\ Operation!InArguments <=> OperationPart!InArguments
      /\ Operation!addPayload <=> OperationPart!addPayload
      /\ Operation!writeHeaders <=> OperationPart!writeHeaders
      /\ Operation!writeCb <=> OperationPart!writeCb
  BY Zenon DEF Operation!genRequest, Operation!Doing, Operation!Proceed,
       Operation!ResetConnection, Operation!InArguments, Operation!Leave,
       Operation!Given, Operation!Object, Operation!Now, Operation!addPayload,
       Operation!Failed, Operation!Allocate, Operation!writeHeaders,
       Operation!writeCb, Operation!Op, OperationPart!genRequest,
       OperationPart!Doing, OperationPart!Proceed,
       OperationPart!ResetConnection, OperationPart!InArguments,
       OperationPart!Leave, OperationPart!Given, OperationPart!Object,
       OperationPart!Now, OperationPart!addPayload, OperationPart!Failed,
       OperationPart!Allocate, OperationPart!writeHeaders,
       OperationPart!writeCb, OperationPart!Op
<1>5. /\ Operation!getResponse <=> OperationPart!getResponse
      /\ Operation!checkStatus <=> OperationPart!checkStatus
      /\ Operation!scanCimXmlResponse <=> OperationPart!scanCimXmlResponse
      /\ Operation!checkError <=> OperationPart!checkError
  BY Zenon DEF Operation!getResponse, Operation!Doing, Operation!Failed,
       Operation!Leave, Operation!Given, Operation!Allocate, Operation!Object,
       Operation!Now, Operation!Proceed, Operation!checkStatus,
       Operation!scanCimXmlResponse, Operation!Scanned, Operation!Locals,
       Operation!checkError, OperationPart!getResponse, OperationPart!Doing,
       OperationPart!Failed, OperationPart!Leave, OperationPart!Given,
       OperationPart!Allocate, OperationPart!Object, OperationPart!Now,
       OperationPart!Proceed, OperationPart!checkStatus,
       OperationPart!scanCimXmlResponse, OperationPart!Scanned,
       OperationPart!Locals, OperationPart!checkError
<1>6. /\ Operation!SetFailed <=> OperationPart!SetFailed
      /\ Operation!SetUnsupported <=> OperationPart!SetUnsupported
      /\ Operation!SetError <=> OperationPart!SetError
      /\ Operation!cloneStatus <=> OperationPart!cloneStatus
      /\ Operation!SetOK <=> OperationPart!SetOK
  BY Zenon DEF Operation!SetFailed, Operation!Doing, Operation!Proceed,
       Operation!Report, Operation!Object, Operation!Now,
       Operation!SetUnsupported, Operation!SetError, Operation!cloneStatus,
       Operation!SetOK, OperationPart!SetFailed, OperationPart!Doing,
       OperationPart!Proceed, OperationPart!Report, OperationPart!Object,
       OperationPart!Now, OperationPart!SetUnsupported,
       OperationPart!SetError, OperationPart!cloneStatus, OperationPart!SetOK
<1>7. /\ Operation!CloneFirst <=> OperationPart!CloneFirst
      /\ Operation!CloneValue <=> OperationPart!CloneValue
      /\ Operation!TakeFirst <=> OperationPart!TakeFirst
      /\ Operation!OutArguments <=> OperationPart!OutArguments
  BY Zenon DEF Operation!CloneFirst, Operation!Doing, Operation!Proceed,
       Operation!HasElement, Operation!Element, Operation!Allocate,
       Operation!Object, Operation!Now, Operation!CloneValue,
       Operation!TakeFirst, Operation!OutArguments, Operation!Release,
       Operation!Parts, OperationPart!CloneFirst, OperationPart!Doing,
       OperationPart!Proceed, OperationPart!HasElement, OperationPart!Element,
       OperationPart!Allocate, OperationPart!Object, OperationPart!Now,
       OperationPart!CloneValue, OperationPart!TakeFirst,
       OperationPart!OutArguments, OperationPart!Release, OperationPart!Parts
<1> QED
  BY <1>1, <1>2, <1>3, <1>4, <1>5, <1>6, <1>7 DEF Operation!Next, OperationPart!Next

LEMMA SameOperationRest ==
  /\ Operation!Init <=> OperationPart!Init
  /\ Operation!TypeOK <=> OperationPart!TypeOK
  /\ Operation!AnswersThisExchange <=> OperationPart!AnswersThisExchange
  /\ Operation!NoUseAfterRelease <=> OperationPart!NoUseAfterRelease
  /\ Operation!NothingLost <=> OperationPart!NothingLost
  /\ Operation!OpsAssumption <=> OperationPart!OpsAssumption
  /\ operationVars = OperationPart!vars
<1>1. Operation!Init <=> OperationPart!Init
  BY Zenon DEF Operation!Init, Operation!NoLocals, Operation!Locals,
       Operation!NoAnswer, Operation!NoWire, OperationPart!Init,
       OperationPart!NoLocals, OperationPart!Locals, OperationPart!NoAnswer,
       OperationPart!NoWire
<1>2. Operation!TypeOK <=> OperationPart!TypeOK
  BY Zenon DEF Operation!TypeOK, Operation!Objects, Operation!Locals,
       OperationPart!TypeOK, OperationPart!Objects, OperationPart!Locals
<1>3. Operation!AnswersThisExchange <=> OperationPart!AnswersThisExchange
  BY Zenon DEF Operation!AnswersThisExchange, Operation!Returned,
       Operation!Idle, Operation!Verdict, Operation!Refused,
       Operation!Described, Operation!Op, Operation!Now, Operation!StatusOps,
       OperationPart!AnswersThisExchange, OperationPart!Returned,
       OperationPart!Idle, OperationPart!Verdict, OperationPart!Refused,
       OperationPart!Described, OperationPart!Op, OperationPart!Now,
       OperationPart!StatusOps
<1>4. Operation!NoUseAfterRelease <=> OperationPart!NoUseAfterRelease
  BY Zenon DEF Operation!NoUseAfterRelease, OperationPart!NoUseAfterRelease
<1>5. Operation!NothingLost <=> OperationPart!NothingLost
  BY Zenon DEF Operation!NothingLost, Operation!Idle, Operation!Parts,
       Operation!Element, Operation!Forgotten, Operation!AllOps,
       Operation!EnumOps, Operation!ObjectOps, Operation!StatusOps,
       Operation!DataOps, OperationPart!NothingLost, OperationPart!Idle,
       OperationPart!Parts, OperationPart!Element, OperationPart!Forgotten,
       OperationPart!AllOps, OperationPart!EnumOps, OperationPart!ObjectOps,
       OperationPart!StatusOps, OperationPart!DataOps
<1>6. Operation!OpsAssumption <=> OperationPart!OpsAssumption
  BY Zenon DEF Operation!OpsAssumption, Operation!AllOps, Operation!EnumOps,
       Operation!ObjectOps, Operation!StatusOps, Operation!DataOps,
       Operation!AllBodies, Operation!Objects, Operation!Locals,
       OperationPart!OpsAssumption, OperationPart!AllOps,
       OperationPart!EnumOps, OperationPart!ObjectOps,
       OperationPart!StatusOps, OperationPart!DataOps,
       OperationPart!AllBodies, OperationPart!Objects, OperationPart!Locals
<1>7. operationVars = OperationPart!vars
  BY Zenon DEF operationVars, OperationPart!vars
<1> QED
  BY <1>1, <1>2, <1>3, <1>4, <1>5, <1>6, <1>7

\* What the client does, seen from the connection, is a behaviour of
\* ClientOperation.
LEMMA OperationBehaviour == MCSpec => OperationPart!Spec
<1>1. MCInit => OperationPart!Init
  BY SameOperationRest DEF MCInit
<1>2. [MCNext]_<<part, operationVars, vars, bufferVars, listVars, tableVars>>
        => [OperationPart!Next]_(OperationPart!vars)
  <2>1. ASSUME MCNext
        PROVE  OperationPart!Next \/ UNCHANGED operationVars
    BY <2>1, SameOperationNext DEF MCNext
  <2>2. operationVars = OperationPart!vars /\ (operationVars = OperationPart!vars)'
    BY SameOperationRest DEF operationVars, OperationPart!vars
  <2> QED
    BY <2>1, <2>2
<1> QED
  BY <1>1, <1>2, PTL DEF MCSpec, OperationPart!Spec

\* The variables of an operation have their types: see OperationTypes.
THEOREM ClientTypes == MCSpec => []TypeOK
<1>1. MCSpec => OperationPart!Spec
  BY OperationBehaviour
<1>2. OperationPart!TypeOK => TypeOK
  BY SameOperationRest DEF TypeOK
<1>3. OperationPart!Spec => []OperationPart!TypeOK
  BY OperationAssumption, SameOperationRest, OperationPart!OperationTypes
<1> QED
  BY <1>1, <1>2, <1>3, PTL

\* Nothing of a connection is used after its release: see OperationsRelease.
THEOREM ClientReleases == MCSpec => []NoUseAfterRelease
<1>1. MCSpec => OperationPart!Spec
  BY OperationBehaviour
<1>2. OperationPart!NoUseAfterRelease => NoUseAfterRelease
  BY SameOperationRest DEF NoUseAfterRelease
<1>3. OperationPart!Spec => []OperationPart!NoUseAfterRelease
  BY OperationAssumption, SameOperationRest, OperationPart!OperationsRelease
<1> QED
  BY <1>1, <1>2, <1>3, PTL

\* Every operation answers for its own exchange: see OperationsAnswer.
THEOREM ClientAnswers == MCSpec => []AnswersThisExchange
<1>1. MCSpec => OperationPart!Spec
  BY OperationBehaviour
<1>2. OperationPart!AnswersThisExchange => AnswersThisExchange
  BY SameOperationRest DEF AnswersThisExchange
<1>3. OperationPart!Spec => []OperationPart!AnswersThisExchange
  BY OperationAssumption, SameOperationRest, OperationPart!OperationsAnswer
<1> QED
  BY <1>1, <1>2, <1>3, PTL

\* What is lost is what was found to be lost: see OperationsForget.
THEOREM ClientForgets == MCSpec => []NothingLost
<1>1. MCSpec => OperationPart!Spec
  BY OperationBehaviour
<1>2. OperationPart!NothingLost => NothingLost
  BY SameOperationRest DEF NothingLost
<1>3. OperationPart!Spec => []OperationPart!NothingLost
  BY OperationAssumption, SameOperationRest, OperationPart!OperationsForget
<1> QED
  BY <1>1, <1>2, <1>3, PTL

==============================================================================
