------------------------------ MODULE Program -------------------------------
(***************************************************************************)
(* The running program (program/main.go): its start, the requests it       *)
(* serves on two HTTP servers, and its shutdown on a signal.               *)
(*                                                                         *)
(* A request passes authentication, the timeout handler, the limiter and   *)
(* the SCIM server, to the backend. The timeout handler runs everything    *)
(* behind it in a goroutine of its own, which it cannot stop: a client     *)
(* that has been answered with a timeout leaves a handler running.         *)
(*                                                                         *)
(* The in-memory backend is the abstract ResourceStore, which              *)
(* InMemoryBackend is proved to implement. Of the SQL backend only the     *)
(* rows of the main tables are followed, at the moments at which a         *)
(* transaction looks at them and changes them on any of the databases      *)
(* (SQLBackend has the rest).                                              *)
(***************************************************************************)
EXTENDS ScimServer, FiniteSets

CONSTANTS
  Conns,        \* the connections made, of one request each
  HTTPRequests,
  Types,        \* components of paths that can be taken for a type
  Absent,
  Storages,     \* what may be configured: "file", "sql" or "dummy"
  Contents,     \* what the file or the database may hold at the start
  Modes,        \* "interactive" or "service"
  Never         \* no signal yet, no answer yet

ASSUME ProgramAssumption ==
  /\ Nil \notin HTTPRequests /\ Never \notin Nat
  /\ \A r \in HTTPRequests :
       r.server \in Servers /\ {"method", "body"} \subseteq DOMAIN r /\ r.body \in Bodies
  /\ Contents \subseteq [Tenants \X Types \X IDs -> Data \cup {Absent}]

VARIABLES
  mode,       \* how the program was started
  storage,    \* the backend it was started with
  phase,      \* where run is
  told,       \* a signal or a Stop of the service, and when
  accepting,  \* the servers that accept connections
  request,    \* each connection's request, or Nil
  answer,     \* the status its client has got
  handler,    \* where the goroutine behind the timeout handler is
  reply,      \* what that goroutine has written
  store, call, status, result,  \* the backend
  file,       \* the storage file
  seen,       \* history: the values of each resource since the save began
  wrote,      \* history: the connections whose request has changed a resource
  writer      \* history: the connection that has changed each resource last

backendVars == <<store, call, status, result>>
historyVars == <<wrote, writer>>
connVars    == <<request, answer, handler, reply>>
mainVars    == <<mode, storage, phase, told, accepting, file, seen>>
vars == <<mainVars, connVars, backendVars, historyVars>>

InMemory == INSTANCE ResourceStore WITH
  Callers <- Conns, Requests <- {}

Slots == InMemory!Slots

NobodyYet == [s \in Slots |-> Never]

Init ==
  /\ mode \in Modes
  /\ storage \in Storages
  /\ phase = "starting"
  /\ told = Never
  /\ accepting = {}
  /\ request = [c \in Conns |-> Nil]
  /\ answer = [c \in Conns |-> Never]
  /\ handler = [c \in Conns |-> "none"]
  /\ reply = [c \in Conns |-> Never]
  /\ store \in Contents
  /\ call = [c \in Conns |-> Nil]
  /\ status = [c \in Conns |-> "idle"]
  /\ result = [c \in Conns |-> Nil]
  /\ file = store
  /\ seen = [s \in Slots |-> {}]
  /\ wrote = {}
  /\ writer = NobodyYet

\* run has returned, with the file saved or an error logged, or it was killed.
Running == phase \notin {"stopped", "unsaved", "killed"}

-----------------------------------------------------------------------------
(* Requests.                                                               *)

Open(c) == request[c] # Nil /\ answer[c] = Never

\* A client sends a request, and the authentication turns it down or lets it in.
Connect(c) ==
  /\ Running
  /\ request[c] = Nil
  /\ \E r \in HTTPRequests :
       /\ r.server \in accepting
       /\ request' = [request EXCEPT ![c] = r]
       /\ \/ /\ tenantGetter(r) = {}
             /\ answer' = [answer EXCEPT ![c] = 403]
             /\ UNCHANGED handler
          \/ /\ tenantGetter(r) # {}
             /\ handler' = [handler EXCEPT ![c] = "limiting"]
             /\ UNCHANGED answer
  /\ UNCHANGED <<mainVars, reply, backendVars, historyVars>>

\* The goroutine has written its answer.
Write(c, code) ==
  /\ handler' = [handler EXCEPT ![c] = "finished"]
  /\ reply' = [reply EXCEPT ![c] = code]

Invoke(c, theCall) ==
  /\ call' = [call EXCEPT ![c] = theCall]
  /\ status' = [status EXCEPT ![c] = "pending"]
  /\ UNCHANGED <<store, result>>

\* limiter.Wait: the tenant's limiter admits the request, now or later (rates
\* and bursts are about time, which is left out) ...
Admit(c) ==
  /\ Running
  /\ handler[c] = "limiting"
  /\ \E t \in tenantGetter(request[c]) :
       LET s == ServeHTTP(t, request[c])
       IN  \/ /\ s.kind = "answer"
              /\ Write(c, s.code)
              /\ UNCHANGED backendVars
           \/ /\ s.kind = "call"
              /\ Invoke(c, s.call)
              /\ handler' = [handler EXCEPT ![c] = "calling"]
              /\ UNCHANGED reply
  /\ UNCHANGED <<mainVars, request, answer, historyVars>>

\* Slip: having refused a request, the limiter passes it on.
RefuseAndServe(c) ==
  /\ Running
  /\ handler[c] = "limiting"
  /\ Write(c, 429)
  /\ \E t \in tenantGetter(request[c]) :
       LET s == ServeHTTP(t, request[c])
       IN  s.kind = "call" /\ Invoke(c, s.call)
  /\ UNCHANGED <<mainVars, request, answer, historyVars>>

\* ... unless the wait would be longer than what is left of the time, or the
\* time has come meanwhile.
Refuse(c) ==
  /\ Running
  /\ handler[c] = "limiting"
  /\ Write(c, 429)
  /\ UNCHANGED <<mainVars, request, answer, backendVars, historyVars>>

\* What a list contains is not followed here (InMemoryBackend, SQLBackend).
List(c) ==
  /\ InMemory!Calling(c, "list")
  /\ InMemory!Answer(c, InMemory!Result("ok", Nil))
  /\ UNCHANGED store

FileStep(c) ==
  \/ /\ status[c] = "pending" /\ InMemory!Slot(call[c]) \in Slots
     /\ \/ InMemory!Create(c) \/ InMemory!Update(c)
        \/ InMemory!Delete(c) \/ InMemory!Missing(c)
  \/ List(c) \/ InMemory!Fail(c)

-----------------------------------------------------------------------------
(* The SQL backend. Its tables know a resource by the ID in its body, which *)
(* is what a create or an update writes; an update or a delete checks the   *)
(* ID in the URL first, and other transactions may commit in between.       *)

URLSlot(c)  == <<call[c].tenant, call[c].type, call[c].id>>
BodySlot(c) == <<call[c].tenant, call[c].type, call[c].body.id>>

\* The row that a call writes, if it is there.
SQLSlot(c) == IF call[c].op = "delete" THEN URLSlot(c) ELSE BodySlot(c)

\* What a method has checked before it begins its transaction.
SQLAccepts(c) ==
  /\ call[c].type \in ResourceTypes
  /\ call[c].op # "delete" => validatingObjectParser(call[c].type, call[c].body).kind = "ok"

\* ensureHasRecord, at one moment of the transaction.
SQLLooksUp(c) ==
  /\ InMemory!Calling(c, "update") \/ InMemory!Calling(c, "delete")
  /\ SQLAccepts(c)
  /\ URLSlot(c) \in Slots

SQLCheck(c) ==
  /\ SQLLooksUp(c)
  /\ store[URLSlot(c)] # Absent
  /\ status' = [status EXCEPT ![c] = "checked"]
  /\ UNCHANGED <<store, call, result>>

SQLMissing(c) ==
  /\ SQLLooksUp(c)
  /\ store[URLSlot(c)] = Absent
  /\ InMemory!Answer(c, InMemory!Result("missing", Nil))
  /\ UNCHANGED store

\* A primary key refuses a row that another create has inserted meanwhile.
SQLCreate(c) ==
  /\ InMemory!Calling(c, "create") /\ SQLAccepts(c)
  /\ SQLSlot(c) \in Slots
  /\ store[SQLSlot(c)] = Absent
  /\ store' = [store EXCEPT ![SQLSlot(c)] = call[c].body.data]
  /\ InMemory!Answer(c, InMemory!Result("ok", call[c].body.data))

SQLConflict(c) ==
  /\ InMemory!Calling(c, "create") /\ SQLAccepts(c)
  /\ SQLSlot(c) \in Slots
  /\ store[SQLSlot(c)] # Absent
  /\ InMemory!Answer(c, InMemory!Result("conflict", Nil))
  /\ UNCHANGED store

\* UPDATE or DELETE, and the commit. Nobody looks at the number of rows that were
\* affected, which is 0 if the row is not there, or no longer.
SQLUpdate(c) ==
  /\ status[c] = "checked" /\ call[c].op = "update"
  /\ store' = IF SQLSlot(c) \in Slots /\ store[SQLSlot(c)] # Absent
              THEN [store EXCEPT ![SQLSlot(c)] = call[c].body.data] ELSE store
  /\ InMemory!Answer(c, InMemory!Result("ok", call[c].body.data))

SQLDelete(c) ==
  /\ status[c] = "checked" /\ call[c].op = "delete"
  /\ store' = [store EXCEPT ![SQLSlot(c)] = Absent]
  /\ InMemory!Answer(c, InMemory!Result("ok", Nil))

\* Any error, before or after the check: the transaction is rolled back.
SQLFail(c) ==
  /\ status[c] \in {"pending", "checked"}
  /\ \E kind \in {"malformed", "error", "panic"} : InMemory!Answer(c, InMemory!Result(kind, Nil))
  /\ UNCHANGED store

SQLStep(c) ==
  \/ SQLCheck(c)  \/ SQLMissing(c) \/ SQLCreate(c) \/ SQLConflict(c)
  \/ SQLUpdate(c) \/ SQLDelete(c)  \/ List(c)      \/ SQLFail(c)

-----------------------------------------------------------------------------
\* The dummy backend only parses, and forgets.
DummyStep(c) ==
  /\ status[c] = "pending"
  /\ LET p == IF call[c].op \in {"create", "update"}
              THEN validatingObjectParser(call[c].type, call[c].body).kind ELSE "ok"
     IN  InMemory!Answer(c, InMemory!Result(IF p = "error" THEN "malformed" ELSE p, Nil))
  /\ UNCHANGED store

\* The resource that the call of c is about.
Target(c) == IF storage = "sql" THEN SQLSlot(c) ELSE InMemory!Slot(call[c])

\* Whether this is the step in which the call of c takes effect: a write of a
\* resource with what it holds already is one, an UPDATE of no row is not.
TakesEffect(c) ==
  /\ status'[c] = "done" /\ result'[c].kind = "ok"
  /\ call[c].op # "list" /\ storage # "dummy"
  /\ Target(c) \in Slots
  /\ IF call[c].op = "delete"
     THEN store[Target(c)] # Absent /\ store'[Target(c)] = Absent
     ELSE store'[Target(c)] = call[c].body.data

Effect(c) ==
  /\ Running
  /\ \/ storage = "file"  /\ FileStep(c)
     \/ storage = "sql"   /\ SQLStep(c)
     \/ storage = "dummy" /\ DummyStep(c)
  /\ IF TakesEffect(c)
     THEN wrote' = wrote \cup {c} /\ writer' = [writer EXCEPT ![Target(c)] = c]
     ELSE UNCHANGED historyVars
  /\ seen' = IF phase = "saving" THEN [s \in Slots |-> seen[s] \cup {store'[s]}] ELSE seen
  /\ UNCHANGED <<mode, storage, phase, told, accepting, file, connVars>>

\* The handler returns.
Finish(c) ==
  /\ Running
  /\ handler[c] = "calling" /\ status[c] = "done"
  /\ Write(c, handleBackendError(call[c].op, result[c].kind))
  /\ InMemory!Return(c)
  /\ UNCHANGED <<mainVars, request, answer, historyVars>>

\* The timeout handler passes on what the goroutine has written, or its panic.
Respond(c) ==
  /\ Running
  /\ Open(c)
  /\ handler[c] = "finished"
  /\ answer' = [answer EXCEPT ![c] = reply[c]]
  /\ UNCHANGED <<mainVars, request, handler, reply, backendVars, historyVars>>

\* Slip: a timeout is answered like a refusal.
TimeoutRefusing(c) ==
  /\ Running
  /\ Open(c)
  /\ answer' = [answer EXCEPT ![c] = 429]
  /\ UNCHANGED <<mainVars, request, handler, reply, backendVars, historyVars>>

\* The time is up, or the client has gone.
Timeout(c) ==
  /\ Running
  /\ Open(c)
  /\ answer' = [answer EXCEPT ![c] = 503]
  /\ UNCHANGED <<mainVars, request, handler, reply, backendVars, historyVars>>

-----------------------------------------------------------------------------
(* run.                                                                    *)

Main(from, to) == phase = from /\ phase' = to

\* windermere.New has returned, and one server after the other listens. Then run
\* goes on to start the extension, if any.
ListenFedtls ==
  /\ Main("starting", "listening")
  /\ accepting' = {"fedtls"}
  /\ UNCHANGED <<mode, storage, told, file, seen, connVars, backendVars, historyVars>>

ListenSkolsynk ==
  /\ Main("listening", "extending")
  /\ accepting' = accepting \cup {"skolsynk"}
  /\ UNCHANGED <<mode, storage, told, file, seen, connVars, backendVars, historyVars>>

\* log.Fatalf: run cannot start, or a server ends without having been shut down.
Fatal ==
  /\ phase \in {"starting", "listening"} \/ accepting # {}
  /\ Running
  /\ phase' = "killed"
  /\ UNCHANGED <<mode, storage, told, accepting, file, seen, connVars, backendVars, historyVars>>

\* waitForShutdownSignal: a Stop of the service may be there already.
Wait ==
  /\ Main("extending", "waiting")
  /\ UNCHANGED <<mode, storage, told, accepting, file, seen, connVars, backendVars, historyVars>>

\* The operating system delivers a signal, for which there is no room in the
\* channel: it is dropped unless run is waiting for it.
Signal ==
  /\ mode = "interactive" /\ Running
  /\ told = Never
  /\ told' = IF phase = "waiting" THEN "taken" ELSE Never
  /\ phase' = IF phase = "waiting" THEN "closing" ELSE phase
  /\ accepting' = IF phase = "waiting" THEN accepting \ {"fedtls"} ELSE accepting
  /\ UNCHANGED <<mode, storage, file, seen, connVars, backendVars, historyVars>>

\* The service manager calls Stop, which sends and waits.
Stop ==
  /\ mode = "service" /\ Running
  /\ told = Never
  /\ told' = "sent"
  /\ UNCHANGED <<mode, storage, phase, accepting, file, seen, connVars, backendVars, historyVars>>

\* run receives it, and shuts the first server down.
TakeStop ==
  /\ told = "sent"
  /\ Main("waiting", "closing")
  /\ told' = "taken"
  /\ accepting' = accepting \ {"fedtls"}
  /\ UNCHANGED <<mode, storage, file, seen, connVars, backendVars, historyVars>>

\* Slip: Shutdown waits for the handlers, too.
QuietHandlers(server) ==
  \A c \in Conns : handler[c] \in {"limiting", "calling"} => request[c].server # server

\* Shutdown returns when no connection of the server has an open request.
Quiet(server) == \A c \in Conns : Open(c) => request[c].server # server

ShutdownFedtls ==
  /\ Quiet("fedtls")
  /\ Main("closing", "closingSkolsynk")
  /\ accepting' = accepting \ {"skolsynk"}
  /\ UNCHANGED <<mode, storage, told, file, seen, connVars, backendVars, historyVars>>

\* Slip: the second server is shut down without waiting for it.
ShutdownSkolsynkAtOnce ==
  /\ Main("closingSkolsynk", "saving")
  /\ seen' = [s \in Slots |-> {store[s]}]
  /\ UNCHANGED <<mode, storage, told, accepting, file, connVars, backendVars, historyVars>>

\* Then the extension stops, and Windermere.Shutdown begins.
ShutdownSkolsynk ==
  /\ Quiet("skolsynk")
  /\ Main("closingSkolsynk", "saving")
  /\ seen' = [s \in Slots |-> {store[s]}]
  /\ UNCHANGED <<mode, storage, told, accepting, file, connVars, backendVars, historyVars>>

\* Save has written a file (FileStorage: of each resource a value that it has
\* had since), and run is done.
Save ==
  /\ Main("saving", "stopped")
  /\ IF storage = "file"
     THEN \E f \in [Slots -> UNION {seen[s] : s \in Slots}] :
            (\A s \in Slots : f[s] \in seen[s]) /\ file' = f
     ELSE UNCHANGED file
  /\ UNCHANGED <<mode, storage, told, accepting, seen, connVars, backendVars, historyVars>>

\* Save returns an error, which is logged.
SaveFails ==
  /\ storage = "file"
  /\ Main("saving", "unsaved")
  /\ UNCHANGED <<mode, storage, told, accepting, file, seen, connVars, backendVars, historyVars>>

\* Save meets the write of a handler that is still running.
SaveRaces ==
  /\ storage = "file"
  /\ \E s \in Slots : Cardinality(seen[s]) > 1
  /\ Main("saving", "killed")
  /\ UNCHANGED <<mode, storage, told, accepting, file, seen, connVars, backendVars, historyVars>>

-----------------------------------------------------------------------------
MainStep ==
  \/ ListenSkolsynk \/ Wait
  \/ TakeStop \/ ShutdownFedtls \/ ShutdownSkolsynk \/ Save \/ SaveFails \/ SaveRaces

Next ==
  \/ ListenFedtls \/ MainStep \/ Fatal \/ Signal \/ Stop
  \/ \E c \in Conns :
       Connect(c) \/ Admit(c) \/ Refuse(c) \/ Effect(c) \/ Finish(c) \/ Respond(c) \/ Timeout(c)

\* run and the connections' goroutines run, timers fire and the extension starts;
\* nothing is assumed of New, of the limiter and of the backend: each may hang.
Fairness ==
  /\ WF_vars(MainStep)
  /\ \A c \in Conns : WF_vars(Respond(c) \/ Timeout(c))

Spec == Init /\ [][Next]_vars /\ Fairness

-----------------------------------------------------------------------------
(* Properties.                                                             *)

Codes == {Aborted, 200, 201, 204, 400, 403, 404, 409, 415, 429, 500, 501, 503}
Phases == {"starting", "listening", "extending", "waiting", "closing", "closingSkolsynk", "saving",
           "stopped", "unsaved", "killed"}

\* Type correctness of run, the connections and the handlers.
TypeOK ==
  /\ mode \in Modes /\ phase \in Phases
  /\ told \in {Never, "sent", "taken"}
  /\ accepting \subseteq Servers
  /\ request \in [Conns -> HTTPRequests \cup {Nil}]
  /\ answer \in [Conns -> Codes \cup {Never}]
  /\ handler \in [Conns -> {"none", "limiting", "calling", "finished"}]
  /\ \A c \in Conns : handler[c] = "calling" <=> status[c] # "idle"
  /\ store \in [Slots -> Data \cup {Absent}]
  /\ file \in [Slots -> Data \cup {Absent}]
  /\ seen \in [Slots -> SUBSET (Data \cup {Absent})]

Done(c) == answer[c] \in {200, 201, 204}
Refused(c) == answer[c] \in 400 .. 499

\* The calls whose success promises a change: all but lists of the in-memory
\* backend; of the SQL backend only creates, since an update or a delete that finds
\* no row to change is answered like one that does.
Promises(c) ==
  \/ storage = "file" /\ request[c].method # "GET"
  \/ storage = "sql"  /\ request[c].method = "POST"

\* What a client is told is true and stays true, although four goroutines at
\* most decide it between them: a request that was answered with success has
\* taken effect, if that is promised, and one that was refused has not and never
\* will, whatever is still running on its behalf. (A timeout or an aborted
\* connection says nothing: the effect may come later, even after that of a retry.)
AnswersAreTrue ==
  \A c \in Conns : /\ Done(c) /\ Promises(c) => c \in wrote
                   /\ Refused(c) => c \notin wrote

\* A request only ever changes resources of the tenant that it was authenticated
\* as: of the client with its API key, or of the entity with its certificate.
OwnTenantOnly ==
  [][\A s \in Slots : store'[s] # store[s] =>
       \E c \in Conns : /\ writer'[s] = c
                        /\ \/ request[c].server = "fedtls" /\ request[c].sender = s[1]
                           \/ request[c].server = "skolsynk"
                              /\ s[1] \in DOMAIN Clients
                              /\ request[c].sender = Clients[s[1]]]_vars

\* "Shutting down, waiting for active requests to finish..." (main.go): when the
\* program has stopped by itself, the file holds what every request that was
\* answered with success has written. Only handlers that were given up for dead
\* can change a resource while it is being saved.
AnsweredIsSaved ==
  phase = "stopped" /\ storage = "file" =>
    \A s \in Slots :
      writer[s] # Never /\ Done(writer[s]) => file[s] = store[s]

\* A Stop of the service returns, unless the program never finishes to start, and
\* an interactive program ends once it has taken a signal: the send does not miss
\* the moment in which run is ready to receive, and no client, nor a handler that
\* hangs, can keep the program from stopping.
ShutdownEnds ==
  (told # Never /\ phase # "starting") ~> ~Running
=============================================================================
