------------------------- MODULE ConnectionControl -------------------------
(***************************************************************************)
(* The legacy entry points (frontend/sfcc/sfcclient.c): the threads of a   *)
(* program share one environment, which the first cmciConnect makes and    *)
(* the release of the last client releases, counted under a mutex; and the *)
(* loader below it (cimc/cimcclient.c), which opens and closes the library *)
(* of a backend.                                                           *)
(*                                                                         *)
(* What runs between pthread_mutex_lock and pthread_mutex_unlock is split  *)
(* only where somebody else could see the difference.                      *)
(***************************************************************************)
EXTENDS Naturals, FiniteSets

CONSTANTS
  Threads,
  Schemes,     \* what a connection is asked for
  Installed,   \* the schemes that have a library
  Refusing,    \* the schemes whose backend may refuse a connection
  NULL

ASSUME NullAssumption ==
  /\ NULL \notin Threads /\ NULL \notin Schemes /\ NULL \notin Installed
  /\ NULL \notin {"backend", "cmciRelease"}
  /\ \A environments \in SUBSET Installed : NULL # environments

ASSUME ThreadsAssumption == IsFiniteSet(Threads)

VARIABLES
  ccMux,      \* the thread that holds the mutex, or NULL
  ccCount, ccEnv, ccRelease,  \* ConnectionControl; an environment is its scheme
  freed,      \* what ccEnv points to has been released
  loads,      \* how often each library is open
  table,      \* the function release in the table of each library
  pc, asked, failed,          \* each thread: where it is, the scheme it asked
                              \* for, and that its call of cmciConnect failed
  client,     \* each thread's client, the library it is from, or NULL
  lost,       \* the threads whose client is from a library that was closed
  own,        \* environments that the program has by the other entry points
  wanted,     \* the schemes this program asks for
  crashed     \* the process used what is not there

control == <<ccCount, ccEnv, ccRelease, freed>>
library == <<loads, table>>
locals == <<asked, failed>>
program == <<own, wanted>>
vars == <<ccMux, control, library, pc, locals, client, lost, program, crashed>>

Goto(t, place) == pc' = [pc EXCEPT ![t] = place]

Lock(t) == ccMux = NULL /\ ccMux' = t
Unlock(t) == ccMux' = NULL

----------------------------------------------------------------------------
(* The loader.                                                             *)

\* dlopen: a library that was not there comes with a fresh table.
Opened(s) ==
  /\ loads' = [loads EXCEPT ![s] = @ + 1]
  /\ table' = IF loads[s] = 0 THEN [table EXCEPT ![s] = "backend"] ELSE table

\* dlclose: the last one takes the library away from the clients.
Closed(s) ==
  /\ loads' = [loads EXCEPT ![s] = @ - 1]
  /\ lost' = IF loads[s] = 1 THEN lost \cup {t \in Threads : client[t] = s} ELSE lost
  /\ UNCHANGED table

----------------------------------------------------------------------------
(* cmciConnect2.                                                           *)

cmciConnect(t, s) ==
  /\ pc[t] = "idle" /\ client[t] = NULL
  /\ asked' = [asked EXCEPT ![t] = s]
  /\ failed' = [failed EXCEPT ![t] = FALSE]
  /\ Goto(t, "connect")
  /\ UNCHANGED <<ccMux, control, library, client, lost, program, crashed>>

ConnectLocks(t) ==
  /\ pc[t] = "connect"
  /\ Lock(t)
  /\ Goto(t, "environment")
  /\ UNCHANGED <<control, library, locals, client, lost, program, crashed>>

\* Mutant: only the connection that makes the environment is counted.
TakeEnvironment_NotCounted(t) ==
  /\ pc[t] = "environment" /\ ccCount > 0
  /\ Goto(t, "client")
  /\ UNCHANGED <<ccMux, control, library, locals, client, lost, program, crashed>>

\* An environment that is there is taken whatever its scheme.
TakeEnvironment(t) ==
  /\ pc[t] = "environment" /\ ccCount > 0
  /\ ccCount' = ccCount + 1
  /\ Goto(t, "client")
  /\ UNCHANGED <<ccMux, ccEnv, ccRelease, freed, library, locals, client, lost, program, crashed>>

NewCIMCEnv(t) ==
  /\ pc[t] = "environment" /\ ccCount = 0
  /\ asked[t] \in Installed
  /\ ccEnv' = asked[t] /\ freed' = FALSE
  /\ Opened(asked[t])
  /\ ccCount' = ccCount + 1
  /\ Goto(t, "client")
  /\ UNCHANGED <<ccMux, ccRelease, locals, client, lost, program, crashed>>

NewCIMCEnvFails(t) ==
  /\ pc[t] = "environment" /\ ccCount = 0
  /\ asked[t] \notin Installed
  /\ ccEnv' = NULL
  /\ failed' = [failed EXCEPT ![t] = TRUE]
  /\ Unlock(t)
  /\ Goto(t, "release")
  /\ UNCHANGED <<ccCount, ccRelease, freed, library, asked, client, lost, program, crashed>>

\* Mutant: the function of the backend is noted at every connection.
Noted_EveryTime(s) == table[s]

\* The function of the backend is noted once.
Noted(s) == IF ccRelease = NULL THEN table[s] ELSE ccRelease

\* connect2 of the backend.  The table belongs to all clients of the library.
Connect2(t) ==
  /\ pc[t] = "client"
  /\ client' = [client EXCEPT ![t] = ccEnv]
  /\ ccRelease' = Noted(ccEnv)
  /\ table' = [table EXCEPT ![ccEnv] = "cmciRelease"]
  /\ Unlock(t)
  /\ Goto(t, "idle")
  /\ UNCHANGED <<ccCount, ccEnv, freed, loads, locals, lost, program, crashed>>

\* Mutant: nothing is undone, as if the connection had not been counted.
AfterRefusal_NotUndone == "status"

\* The count goes back as for the release of a client.
AfterRefusal == "release"

Connect2Refuses(t) ==
  /\ pc[t] = "client" /\ ccEnv \in Refusing
  /\ failed' = [failed EXCEPT ![t] = TRUE]
  /\ Unlock(t)
  /\ Goto(t, AfterRefusal)
  /\ UNCHANGED <<control, library, asked, client, lost, program, crashed>>

\* After cmciRelease(NULL), without the mutex: a message is made if the caller
\* gave a status that has none and if there is an environment.
Status(t) ==
  /\ pc[t] = "status"
  /\ \/ ccEnv # NULL /\ Goto(t, "message")
     \/ Goto(t, "idle")
  /\ UNCHANGED <<ccMux, control, library, locals, client, lost, program, crashed>>

\* native_new_CMPIString looks at ccEnv again.
Message(t) ==
  /\ pc[t] = "message"
  /\ crashed' = (ccEnv = NULL \/ freed)
  /\ Goto(t, "idle")
  /\ UNCHANGED <<ccMux, control, library, locals, client, lost, program>>

----------------------------------------------------------------------------
(* cmciRelease.                                                            *)

\* CMRelease of a client calls the function in the table.  If the library was
\* closed there is no telling, even if it is open again.
CMRelease(t) ==
  /\ pc[t] = "idle" /\ client[t] # NULL
  /\ failed' = [failed EXCEPT ![t] = FALSE]
  /\ \/ /\ loads[client[t]] > 0 /\ table[client[t]] = "cmciRelease"
        /\ Goto(t, "release")
        /\ UNCHANGED crashed
     \/ t \in lost /\ crashed' = TRUE /\ UNCHANGED pc
  /\ UNCHANGED <<ccMux, control, library, asked, client, lost, program>>

ReleaseLocks(t) ==
  /\ pc[t] = "release"
  /\ Lock(t)
  /\ Goto(t, IF failed[t] THEN "count" ELSE "free")
  /\ UNCHANGED <<control, library, locals, client, lost, program, crashed>>

\* The noted function is that of the backend, which frees the client.
ReleaseClient(t) ==
  /\ pc[t] = "free" /\ ccRelease = "backend"
  /\ client' = [client EXCEPT ![t] = NULL]
  /\ lost' = lost \ {t}
  /\ Goto(t, "count")
  /\ UNCHANGED <<ccMux, control, library, locals, program, crashed>>

\* Or cmciRelease, which waits for the mutex of its own caller, or none.
ReleasesItself(t) ==
  /\ pc[t] = "free" /\ ccRelease = "cmciRelease"
  /\ Goto(t, "release")
  /\ UNCHANGED <<ccMux, control, library, locals, client, lost, program, crashed>>

NothingNoted(t) ==
  /\ pc[t] = "free" /\ ccRelease = NULL
  /\ crashed' = TRUE
  /\ UNCHANGED <<ccMux, control, library, pc, locals, client, lost, program>>

Left(t) == IF failed[t] THEN "status" ELSE "idle"

Uncount(t) ==
  /\ pc[t] = "count" /\ ccCount # 1
  /\ ccCount' = IF ccCount > 0 THEN ccCount - 1 ELSE 0
  /\ Unlock(t)
  /\ Goto(t, Left(t))
  /\ UNCHANGED <<ccEnv, ccRelease, freed, library, locals, client, lost, program, crashed>>

\* The last one releases the environment.
ReleaseCIMCEnv(t) ==
  /\ pc[t] = "count" /\ ccCount = 1
  /\ ccCount' = 0
  /\ freed' = TRUE
  /\ Closed(ccEnv)
  /\ Goto(t, "forget")
  /\ UNCHANGED <<ccMux, ccEnv, ccRelease, locals, client, program, crashed>>

ForgetEnvironment(t) ==
  /\ pc[t] = "forget"
  /\ ccEnv' = NULL /\ ccRelease' = NULL
  /\ Unlock(t)
  /\ Goto(t, Left(t))
  /\ UNCHANGED <<ccCount, freed, library, locals, client, lost, program, crashed>>

----------------------------------------------------------------------------
(* The program may have an environment of its own, from NewCIMCEnv itself. *)

OwnEnvironment(s) ==
  /\ own = {}
  /\ own' = {s}
  /\ Opened(s)
  /\ UNCHANGED <<ccMux, control, pc, locals, client, lost, wanted, crashed>>

ReleaseOwnEnvironment(s) ==
  /\ s \in own
  /\ own' = {}
  /\ Closed(s)
  /\ UNCHANGED <<ccMux, control, pc, locals, client, wanted, crashed>>

----------------------------------------------------------------------------
\* own is NULL in a program that uses the legacy entry points only.
Init ==
  /\ ccMux = NULL
  /\ ccCount = 0 /\ ccEnv = NULL /\ ccRelease = NULL /\ freed = FALSE
  /\ loads = [s \in Installed |-> 0]
  /\ table = [s \in Installed |-> "backend"]
  /\ pc = [t \in Threads |-> "idle"]
  /\ asked = [t \in Threads |-> NULL]
  /\ failed = [t \in Threads |-> FALSE]
  /\ client = [t \in Threads |-> NULL]
  /\ lost = {}
  /\ own \in {{}, NULL}
  /\ wanted \in SUBSET Schemes
  /\ crashed = FALSE

Connect(t) ==
  \/ \E s \in wanted : cmciConnect(t, s)
  \/ ConnectLocks(t)
  \/ TakeEnvironment(t) \/ NewCIMCEnv(t) \/ NewCIMCEnvFails(t)
  \/ Connect2(t) \/ Connect2Refuses(t)
  \/ Status(t) \/ Message(t)

Release(t) ==
  \/ CMRelease(t) \/ ReleaseLocks(t)
  \/ ReleaseClient(t) \/ ReleasesItself(t) \/ NothingNoted(t)
  \/ Uncount(t) \/ ReleaseCIMCEnv(t) \/ ForgetEnvironment(t)

Next ==
  /\ ~crashed
  /\ \/ \E t \in Threads : Connect(t) \/ Release(t)
     \/ own # NULL /\ \E s \in Installed : OwnEnvironment(s) \/ ReleaseOwnEnvironment(s)

Spec == Init /\ [][Next]_vars

----------------------------------------------------------------------------
(* Properties.                                                             *)

Calling == {t \in Threads : pc[t] # "idle"}
Clients == {t \in Threads : client[t] # NULL}

\* When no call is under way and no client is left, however many connections
\* failed on the way, there is no environment and no library is open but the
\* program's own.
NothingKept ==
  /\ Calling = {} /\ Clients = {} => ccEnv = NULL /\ ccCount = 0
  /\ ccMux = NULL =>
       \A s \in Installed :
         loads[s] = Cardinality({e \in {ccEnv} : e = s}) +
                    (IF own = NULL THEN 0 ELSE Cardinality(own \cap {s}))

\* In a program that asks only for schemes that are installed, every client is
\* counted, so that it keeps its environment and its library until it is
\* released.  (The failed connection of another program takes back a count that
\* it did not make, and that may be of somebody else's client by then.)
ClientsKeepEnvironment ==
  wanted \subseteq Installed =>
    /\ lost = {}
    /\ Clients # {} => ccEnv # NULL /\ ccRelease # NULL /\ ~freed
    /\ ccMux = NULL => ccCount >= Cardinality(Clients)

\* Nobody waits for the mutex in the function that the holder of the mutex is
\* in: the release noted is that of the backend.  It is so in a program that
\* has no environment of its own, which keeps the library and its table.
ReleaseIsTheBackends ==
  own = NULL => ccRelease # "cmciRelease"

\* Comment, sfcclient.c, line 106: "Can't create CMPIString without
\* ConnectionControl.ccEnv !"
EnvironmentWhenUsed ==
  \A t \in Threads : pc[t] = "message" => ccEnv # NULL /\ ~freed

============================================================================
