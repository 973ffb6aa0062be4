---------------------------- MODULE ProgramProofs ---------------------------
(***************************************************************************)
(* Theorems about Program, for any connections, requests and backends:     *)
(* what clients are told is true, requests change only the resources of    *)
(* their own tenant, and what was answered with success is saved.          *)
(***************************************************************************)
EXTENDS Program, TLAPS

-----------------------------------------------------------------------------
(* The inductive invariant.                                                *)

Kinds == {"ok", "conflict", "missing", "malformed", "error", "panic"}
SuccessCodes == {200, 201, 204}

\* The goroutine of connection c makes the call that its request stands for.
Faithful(c) ==
  /\ call[c].op \in DOMAIN Success
  /\ call[c].op = "list" <=> request[c].method = "GET"
  /\ call[c].op = "create" <=> request[c].method = "POST"
  /\ call[c].tenant \in tenantGetter(request[c])

\* The calls whose success promises a change.
Promising(c) ==
  \/ storage = "file" /\ call[c].op # "list"
  \/ storage = "sql"  /\ call[c].op = "create"

\* What the call has returned says whether it has taken effect.
ResultIsTrue(c) ==
  /\ result[c].kind \in Kinds
  /\ c \in wrote => result[c].kind = "ok"
  /\ result[c].kind = "ok" /\ Promising(c) => c \in wrote

\* The goroutine has written what is true, whether it is passed on or not.
ReplyIsTrue(c) ==
  /\ reply[c] \in SuccessCodes /\ Promises(c) => c \in wrote
  /\ reply[c] \in 400 .. 499 => c \notin wrote

\* A client is told what the goroutine has written, or that the time was up, or
\* that it is not authenticated, and then there is no goroutine.
AnswerInv(c) ==
  answer[c] # Never =>
    \/ answer[c] = 503
    \/ answer[c] = 403 /\ handler[c] = "none"
    \/ answer[c] = reply[c] /\ handler[c] = "finished"

ConnInv(c) ==
  /\ status[c] = "idle" <=> handler[c] # "calling"
  /\ request[c] = Nil => handler[c] = "none" /\ answer[c] = Never
  /\ handler[c] \in {"none", "limiting"} \/ status[c] \in {"pending", "checked"} => c \notin wrote
  /\ handler[c] = "calling" => Faithful(c)
  /\ status[c] = "done" => ResultIsTrue(c)
  /\ handler[c] = "finished" => ReplyIsTrue(c)
  /\ AnswerInv(c)

ConnTypes ==
  /\ request \in [Conns -> HTTPRequests \cup {Nil}]
  /\ handler \in [Conns -> {"none", "limiting", "calling", "finished"}]
  /\ status \in [Conns -> {"idle", "pending", "checked", "done"}]
  /\ DOMAIN answer = Conns /\ DOMAIN reply = Conns
  /\ DOMAIN call = Conns /\ DOMAIN result = Conns
  /\ DOMAIN store = Slots /\ DOMAIN writer = Slots

IInv == ConnTypes /\ \A c \in Conns : ConnInv(c)

-----------------------------------------------------------------------------
(* The functions of a request and of a result.                             *)

\* A request that the server answers by itself is refused, and another becomes
\* a call of its own tenant, a list if it is a GET.
LEMMA Serving ==
  ASSUME NEW t, NEW r \in HTTPRequests
  PROVE  /\ ServeHTTP(t, r).kind = "answer" =>
              ServeHTTP(t, r).code \in {400, 404, 415, 500, 501}
         /\ ServeHTTP(t, r).kind = "call" =>
              /\ ServeHTTP(t, r).call.op \in DOMAIN Success
              /\ ServeHTTP(t, r).call.op = "list" <=> r.method = "GET"
              /\ ServeHTTP(t, r).call.op = "create" <=> r.method = "POST"
              /\ ServeHTTP(t, r).call.tenant = t
<1>1. putCompatibilityHandler(r).method = r.method
  BY ProgramAssumption DEF putCompatibilityHandler
<1>2. DOMAIN Success = {"create", "update", "delete", "list"}
  BY DEF Success
<1> DEFINE q == putCompatibilityHandler(r)
           g == genericSCIMHandler(t, q)
<1>3. /\ g.kind = "answer" => g.code \in {400, 404, 415, 500, 501}
      /\ g.kind = "call" => /\ g.call.op \in DOMAIN Success
                            /\ g.call.op = "list" <=> r.method = "GET"
                            /\ g.call.op = "create" <=> r.method = "POST"
                            /\ g.call.tenant = t
  <2> HIDE DEF q
  <2>1. q.method = r.method
    BY <1>1 DEF q
  <2> QED
    BY <1>2, <2>1 DEF genericSCIMHandler, Answered, Calling
<1> HIDE DEF q, g
<1> QED
  BY <1>3 DEF ServeHTTP, Answered, g, q

\* Only a call that has succeeded is answered with success.
LEMMA Mapping ==
  ASSUME NEW op \in DOMAIN Success, NEW kind \in Kinds
  PROVE  /\ handleBackendError(op, kind) \in SuccessCodes => kind = "ok"
         /\ handleBackendError(op, kind) \in 400 .. 499 => kind # "ok"
BY DEF handleBackendError, Success, Aborted, Kinds, SuccessCodes

LEMMA ParserKinds ==
  ASSUME NEW ty, NEW b
  PROVE  validatingObjectParser(ty, b).kind \in {"ok", "error", "panic"}
BY DEF validatingObjectParser, objectParser, Ok, Err, Panic

-----------------------------------------------------------------------------
(* The steps of the backend.                                               *)

\* A step of the backend looks whether a row is there, or is the last one of the
\* call. It changes at most the resource that the call is about, and only if the call
\* takes effect, which it does if its success promises that.
Executed(c) ==
  /\ status[c] \in {"pending", "checked"}
  /\ \/ status' = [status EXCEPT ![c] = "checked"] /\ result' = result
     \/ /\ status' = [status EXCEPT ![c] = "done"]
        /\ \E k \in Kinds : \E v : result' = [result EXCEPT ![c] = InMemory!Result(k, v)]
  /\ call' = call
  /\ DOMAIN store' = DOMAIN store
  /\ \A s \in Slots : store'[s] # store[s] => s = Target(c) /\ TakesEffect(c)
  /\ status'[c] = "done" /\ result'[c].kind = "ok" /\ Promising(c) => TakesEffect(c)

\* The call is over, with an answer that promises nothing.
Fruitless(c) ==
  \E k \in Kinds : \E v : /\ InMemory!Answer(c, InMemory!Result(k, v))
                          /\ k = "ok" => ~Promising(c)

LEMMA WithoutEffect ==
  ASSUME ConnTypes, NEW c \in Conns, status[c] \in {"pending", "checked"}, store' = store,
         Fruitless(c)
  PROVE  Executed(c)
<1>1. PICK k \in Kinds : \E v : InMemory!Answer(c, InMemory!Result(k, v))
                                 /\ (k = "ok" => ~Promising(c))
  BY DEF Fruitless
<1>2. PICK v : InMemory!Answer(c, InMemory!Result(k, v)) /\ (k = "ok" => ~Promising(c))
  BY <1>1
<1>3. /\ status' = [status EXCEPT ![c] = "done"]
      /\ \E kind \in Kinds : \E w : result' = [result EXCEPT ![c] = InMemory!Result(kind, w)]
      /\ call' = call
  BY <1>2 DEF InMemory!Answer
<1>4. result'[c].kind = k
  BY <1>2 DEF InMemory!Answer, InMemory!Result, ConnTypes
<1> QED
  BY <1>2, <1>3, <1>4 DEF Executed

LEMMA FileExecuting ==
  ASSUME ConnTypes, NEW c \in Conns, storage = "file", FileStep(c)
  PROVE  Executed(c)
<1> USE DEF InMemory!Result, InMemory!Answer, InMemory!Calling, Kinds, ConnTypes
<1>1. CASE InMemory!Slot(call[c]) \in Slots /\ InMemory!Create(c)
  BY <1>1 DEF Executed, InMemory!Create, TakesEffect, Target, Promising
<1>2. CASE InMemory!Slot(call[c]) \in Slots /\ InMemory!Update(c)
  BY <1>2 DEF Executed, InMemory!Update, TakesEffect, Target, Promising
<1>3. CASE InMemory!Slot(call[c]) \in Slots /\ InMemory!Delete(c)
  BY <1>3 DEF Executed, InMemory!Delete, TakesEffect, Target, Promising
<1>4. CASE InMemory!Missing(c) \/ List(c) \/ InMemory!Fail(c)
  <2>1. status[c] = "pending" /\ store' = store
    BY <1>4 DEF InMemory!Missing, List, InMemory!Fail
  <2>2. Fruitless(c)
    BY <1>4 DEF Fruitless, InMemory!Missing, List, InMemory!Fail, Promising
  <2> QED
    BY <2>1, <2>2, WithoutEffect
<1> QED
  BY <1>1, <1>2, <1>3, <1>4 DEF FileStep

LEMMA SQLExecuting ==
  ASSUME ConnTypes, NEW c \in Conns, storage = "sql", SQLStep(c)
  PROVE  Executed(c)
<1> USE DEF InMemory!Result, InMemory!Answer, InMemory!Calling, Kinds, ConnTypes
<1>1. CASE SQLCheck(c)
  BY <1>1 DEF Executed, SQLCheck, SQLLooksUp
<1>2. CASE SQLCreate(c)
  BY <1>2 DEF Executed, SQLCreate, TakesEffect, Target, Promising
<1>3. CASE SQLUpdate(c)
  <2>1. status[c] = "checked" /\ call[c].op = "update" /\ ~Promising(c)
    BY <1>3 DEF SQLUpdate, Promising
  <2>2. CASE SQLSlot(c) \in Slots /\ store[SQLSlot(c)] # Absent
    BY <1>3, <2>1, <2>2 DEF Executed, SQLUpdate, TakesEffect, Target
  <2>3. CASE ~(SQLSlot(c) \in Slots /\ store[SQLSlot(c)] # Absent)
    <3>1. store' = store /\ Fruitless(c)
      BY <1>3, <2>1, <2>3 DEF SQLUpdate, Fruitless
    <3> QED
      BY <2>1, <3>1, WithoutEffect
  <2> QED
    BY <2>2, <2>3
<1>4. CASE SQLDelete(c)
  <2>1. status[c] = "checked" /\ call[c].op = "delete" /\ ~Promising(c)
    BY <1>4 DEF SQLDelete, Promising
  <2> QED
    BY <1>4, <2>1 DEF Executed, SQLDelete, TakesEffect, Target
<1>5. CASE SQLMissing(c) \/ SQLConflict(c) \/ List(c) \/ SQLFail(c)
  <2>1. status[c] \in {"pending", "checked"} /\ store' = store
    BY <1>5 DEF SQLMissing, SQLLooksUp, SQLConflict, List, SQLFail
  <2>2. Fruitless(c)
    BY <1>5 DEF Fruitless, SQLMissing, SQLConflict, List, SQLFail, Promising
  <2> QED
    BY <2>1, <2>2, WithoutEffect
<1> QED
  BY <1>1, <1>2, <1>3, <1>4, <1>5 DEF SQLStep

LEMMA DummyExecuting ==
  ASSUME ConnTypes, NEW c \in Conns, storage = "dummy", DummyStep(c)
  PROVE  Executed(c)
<1> DEFINE kind == validatingObjectParser(call[c].type, call[c].body).kind
           p == IF call[c].op \in {"create", "update"} THEN kind ELSE "ok"
           k == IF p = "error" THEN "malformed" ELSE p
<1>1. k \in Kinds
  <2>1. kind \in {"ok", "error", "panic"}
    BY ParserKinds
  <2> HIDE DEF kind
  <2> QED
    BY <2>1 DEF Kinds
<1>2. InMemory!Answer(c, InMemory!Result(k, Nil)) /\ status[c] = "pending" /\ store' = store
  BY DEF DummyStep
<1> HIDE DEF k
<1> QED
  BY <1>1, <1>2, WithoutEffect DEF Fruitless, Promising

LEMMA Executing ==
  ASSUME ConnTypes, NEW c \in Conns, Effect(c)
  PROVE  Executed(c)
BY FileExecuting, SQLExecuting, DummyExecuting DEF Effect

-----------------------------------------------------------------------------
(* Each action keeps the invariant.                                        *)

LEMMA EffectInv ==
  ASSUME IInv, NEW c \in Conns, Effect(c)
  PROVE  IInv'
<1>1. Executed(c)
  BY Executing DEF IInv
<1>2. /\ status'[c] = "done" => result'[c].kind \in Kinds
      /\ status' \in [Conns -> {"idle", "pending", "checked", "done"}]
      /\ status[c] \in {"pending", "checked"} /\ status'[c] \in {"checked", "done"}
      /\ DOMAIN result' = Conns
      /\ \A d \in Conns \ {c} : status'[d] = status[d] /\ result'[d] = result[d]
  BY <1>1 DEF Executed, IInv, ConnTypes, InMemory!Result
<1>3. /\ UNCHANGED <<storage, request, answer, handler, reply, call>>
      /\ IF TakesEffect(c) THEN wrote' = wrote \cup {c} ELSE wrote' = wrote
      /\ TakesEffect(c) => status'[c] = "done" /\ result'[c].kind = "ok"
      /\ DOMAIN store' = DOMAIN store /\ DOMAIN writer' = DOMAIN writer
      /\ status'[c] = "done" /\ result'[c].kind = "ok" /\ Promising(c) => TakesEffect(c)
  BY <1>1 DEF Executed, Effect, connVars, historyVars, TakesEffect
<1>4. ConnTypes'
  BY <1>2, <1>3 DEF IInv, ConnTypes
<1>5. ASSUME NEW d \in Conns PROVE ConnInv(d)'
  <2>1. ConnInv(d) /\ c \in Conns /\ ConnInv(c)
    BY DEF IInv
  <2>2. Faithful(d)' <=> Faithful(d)
    BY <1>3 DEF Faithful
  <2>3. AnswerInv(d)' <=> AnswerInv(d)
    BY <1>3 DEF AnswerInv
  <2>4. CASE d = c
    <3>1. handler[c] = "calling" /\ c \notin wrote
      BY <1>2, <2>1 DEF ConnInv
    <3>2. status'[c] = "done" => ResultIsTrue(c)'
      BY <1>2, <1>3, <3>1 DEF ResultIsTrue, Promising
    <3>3. status'[c] = "checked" => c \notin wrote'
      BY <1>3, <3>1
    <3> QED
      BY <1>2, <1>3, <2>1, <2>2, <2>3, <2>4, <3>1, <3>2, <3>3 DEF ConnInv
  <2>5. CASE d # c
    <3>1. d \in wrote' <=> d \in wrote
      BY <1>3, <2>5
    <3> QED
      BY <1>2, <1>3, <2>1, <2>2, <2>3, <2>5, <3>1
      DEF ConnInv, ResultIsTrue, ReplyIsTrue, Promising, Promises
  <2> QED
    BY <2>4, <2>5
<1> QED
  BY <1>4, <1>5 DEF IInv

LEMMA ConnectInv ==
  ASSUME IInv, NEW c \in Conns, Connect(c)
  PROVE  IInv'
<1> USE ProgramAssumption DEF IInv, Connect, mainVars, backendVars, historyVars
<1>1. ConnTypes'
  BY DEF ConnTypes
<1>2. ASSUME NEW d \in Conns PROVE ConnInv(d)'
  BY DEF ConnTypes, ConnInv, Faithful, ResultIsTrue, ReplyIsTrue, Promises, Promising, AnswerInv
<1> QED
  BY <1>1, <1>2

LEMMA AdmitInv ==
  ASSUME IInv, NEW c \in Conns, Admit(c)
  PROVE  IInv'
<1>1. PICK t \in tenantGetter(request[c]) :
        LET s == ServeHTTP(t, request[c])
        IN  \/ s.kind = "answer" /\ Write(c, s.code) /\ UNCHANGED backendVars
            \/ /\ s.kind = "call"
               /\ Invoke(c, s.call)
               /\ handler' = [handler EXCEPT ![c] = "calling"]
               /\ UNCHANGED reply
  BY DEF Admit
<1>2. request[c] \in HTTPRequests
  BY DEF Admit, IInv, ConnTypes, ConnInv
<1> DEFINE s == ServeHTTP(t, request[c])
<1>3. /\ s.kind = "answer" => s.code \in {400, 404, 415, 500, 501}
      /\ s.kind = "call" => /\ s.call.op \in DOMAIN Success
                            /\ s.call.op = "list" <=> request[c].method = "GET"
                            /\ s.call.op = "create" <=> request[c].method = "POST"
                            /\ s.call.tenant = t
  BY <1>2, Serving
<1> HIDE DEF s
<1>4. \/ s.kind = "answer" /\ Write(c, s.code) /\ UNCHANGED backendVars
      \/ /\ s.kind = "call"
         /\ Invoke(c, s.call)
         /\ handler' = [handler EXCEPT ![c] = "calling"]
         /\ UNCHANGED reply
  BY <1>1 DEF s
<1>5. ConnTypes'
  BY <1>4 DEF IInv, ConnTypes, Admit, Write, Invoke, mainVars, backendVars, historyVars
<1>6. ASSUME NEW d \in Conns PROVE ConnInv(d)'
  <2>1. CASE d = c
    BY <1>2, <1>3, <1>4, <2>1, ProgramAssumption
    DEF IInv, ConnTypes, Admit, Write, Invoke, mainVars, backendVars, historyVars,
        ConnInv, Faithful, ResultIsTrue, ReplyIsTrue, Promises, Promising, AnswerInv, SuccessCodes
  <2>2. CASE d # c
    BY <1>4, <2>2
    DEF IInv, ConnTypes, Admit, Write, Invoke, mainVars, backendVars, historyVars,
        ConnInv, Faithful, ResultIsTrue, ReplyIsTrue, Promises, Promising, AnswerInv
  <2> QED
    BY <2>1, <2>2
<1> QED
  BY <1>5, <1>6 DEF IInv

LEMMA RefuseInv ==
  ASSUME IInv, NEW c \in Conns, Refuse(c)
  PROVE  IInv'
<1> USE DEF IInv, Refuse, Write, mainVars, backendVars, historyVars
<1>1. ConnTypes'
  BY DEF ConnTypes
<1>2. ASSUME NEW d \in Conns PROVE ConnInv(d)'
  BY DEF ConnTypes, ConnInv, Faithful, ResultIsTrue, ReplyIsTrue, Promises, Promising, AnswerInv, SuccessCodes
<1> QED
  BY <1>1, <1>2

LEMMA FinishInv ==
  ASSUME IInv, NEW c \in Conns, Finish(c)
  PROVE  IInv'
<1>1. /\ call[c].op \in DOMAIN Success /\ result[c].kind \in Kinds
      /\ c \in wrote => result[c].kind = "ok"
      /\ result[c].kind = "ok" /\ Promises(c) => c \in wrote
  BY DEF Finish, IInv, ConnInv, Faithful, ResultIsTrue, Promises, Promising
<1> DEFINE code == handleBackendError(call[c].op, result[c].kind)
<1>2. /\ code \in SuccessCodes => result[c].kind = "ok"
      /\ code \in 400 .. 499 => result[c].kind # "ok"
  BY <1>1, Mapping
<1> HIDE DEF code
<1>3. /\ handler[c] = "calling" /\ Write(c, code) /\ InMemory!Return(c)
      /\ UNCHANGED <<mainVars, request, answer, historyVars>>
  BY DEF Finish, code
<1>4. ConnTypes'
  BY <1>3 DEF IInv, ConnTypes, Write, InMemory!Return, mainVars, historyVars
<1>5. ASSUME NEW d \in Conns PROVE ConnInv(d)'
  <2>1. CASE d = c
    BY <1>1, <1>2, <1>3, <2>1
    DEF IInv, ConnTypes, Write, InMemory!Return, mainVars, historyVars,
        ConnInv, Faithful, ResultIsTrue, ReplyIsTrue, Promises, Promising, AnswerInv
  <2>2. CASE d # c
    BY <1>3, <2>2
    DEF IInv, ConnTypes, Write, InMemory!Return, mainVars, historyVars,
        ConnInv, Faithful, ResultIsTrue, ReplyIsTrue, Promises, Promising, AnswerInv
  <2> QED
    BY <2>1, <2>2
<1> QED
  BY <1>4, <1>5 DEF IInv

LEMMA AnswerStep ==
  ASSUME IInv, NEW c \in Conns, Respond(c) \/ Timeout(c)
  PROVE  IInv'
<1> USE DEF IInv, Respond, Timeout, Open, mainVars, backendVars, historyVars
<1>1. ConnTypes'
  BY DEF ConnTypes
<1>2. ASSUME NEW d \in Conns PROVE ConnInv(d)'
  BY DEF ConnTypes, ConnInv, Faithful, ResultIsTrue, ReplyIsTrue, Promises, Promising, AnswerInv
<1> QED
  BY <1>1, <1>2

LEMMA MainInv ==
  ASSUME IInv, ListenFedtls \/ MainStep \/ Fatal \/ Signal \/ Stop
  PROVE  IInv'
<1>1. UNCHANGED <<storage, connVars, backendVars, historyVars>>
  BY DEF ListenFedtls, ListenSkolsynk, MainStep, Fatal, Signal, Stop, Wait, TakeStop, ShutdownFedtls,
         ShutdownSkolsynk, Save, SaveFails, SaveRaces
<1> QED
  BY <1>1 DEF connVars, backendVars, historyVars, IInv, ConnTypes, ConnInv, Faithful,
              ResultIsTrue, ReplyIsTrue, Promises, Promising, AnswerInv

LEMMA InitInv == Init => IInv
BY ProgramAssumption
DEF Init, Slots, InMemory!Slots, IInv, ConnTypes, ConnInv, Faithful, ResultIsTrue, ReplyIsTrue, Promises, Promising, AnswerInv, NobodyYet

LEMMA NextInv == IInv /\ [Next]_vars => IInv'
<1> SUFFICES ASSUME IInv, [Next]_vars PROVE IInv'
  OBVIOUS
<1>1. CASE ListenFedtls \/ MainStep \/ Fatal \/ Signal \/ Stop
  BY <1>1, MainInv
<1>2. ASSUME NEW c \in Conns,
             Connect(c) \/ Admit(c) \/ Refuse(c) \/ Effect(c) \/ Finish(c)
             \/ Respond(c) \/ Timeout(c)
      PROVE  IInv'
  BY <1>2, ConnectInv, AdmitInv, RefuseInv, EffectInv, FinishInv, AnswerStep
<1>3. CASE UNCHANGED vars
  BY <1>3 DEF vars, mainVars, connVars, backendVars, historyVars, IInv, ConnTypes, ConnInv,
              Faithful, ResultIsTrue, ReplyIsTrue, Promises, Promising, AnswerInv
<1> QED
  BY <1>1, <1>2, <1>3 DEF Next

-----------------------------------------------------------------------------

\* Between its request and its answer every goroutine knows what is true.
THEOREM Invariance == Spec => []IInv
BY InitInv, NextInv, PTL DEF Spec

\* A client that is told of a success has had its effect if that is promised, and
\* one that is refused never has, although a timeout stops no goroutine behind it.
THEOREM TrueAnswers == Spec => []AnswersAreTrue
<1>1. IInv => AnswersAreTrue
  <2> SUFFICES ASSUME IInv, NEW c \in Conns
               PROVE  /\ Done(c) /\ Promises(c) => c \in wrote
                      /\ Refused(c) => c \notin wrote
    BY DEF AnswersAreTrue
  <2>1. ConnInv(c)
    BY DEF IInv
  <2> QED
    BY <2>1, ProgramAssumption
    DEF ConnInv, AnswerInv, ReplyIsTrue, Done, Refused, SuccessCodes, Promises
<1> QED
  BY <1>1, Invariance, PTL

\* A request only changes resources of the tenant it was authenticated as.
THEOREM OwnTenant == Spec => OwnTenantOnly
<1> DEFINE Mine(s, c) ==
      \/ request[c].server = "fedtls" /\ request[c].sender = s[1]
      \/ /\ request[c].server = "skolsynk"
         /\ s[1] \in DOMAIN Clients
         /\ request[c].sender = Clients[s[1]]
<1>1. ASSUME IInv, [Next]_vars, NEW s \in Slots, store'[s] # store[s]
      PROVE  \E c \in Conns : writer'[s] = c /\ Mine(s, c)
  <2>1. PICK c \in Conns : Effect(c)
    BY <1>1
    DEF Next, ListenFedtls, ListenSkolsynk, MainStep, Fatal, Signal, Stop, Wait, TakeStop, ShutdownFedtls,
        ShutdownSkolsynk, Save, SaveFails, SaveRaces, Connect, Admit, Refuse, Finish,
        Respond, Timeout, Invoke, InMemory!Return, vars, backendVars
  <2>2. Executed(c) /\ DOMAIN writer = Slots
    BY <1>1, <2>1, Executing DEF IInv, ConnTypes
  <2>3. s = Target(c) /\ writer'[s] = c
    BY <1>1, <2>1, <2>2 DEF Executed, Effect
  <2>4. s[1] = call[c].tenant
    BY <2>3 DEF Target, InMemory!Slot, SQLSlot, URLSlot, BodySlot
  <2>5. call[c].tenant \in tenantGetter(request[c])
    BY <1>1, <2>2 DEF IInv, ConnInv, Faithful, Executed
  <2>6. request[c] \in HTTPRequests
    BY <1>1, <2>2 DEF IInv, ConnTypes, ConnInv, Executed
  <2> QED
    BY <2>3, <2>4, <2>5, <2>6, ProgramAssumption DEF tenantGetter, lookupTenant, Servers
<1>2. IInv /\ [Next]_vars =>
        [\A s \in Slots : store'[s] # store[s] =>
           \E c \in Conns : /\ writer'[s] = c
                            /\ \/ request[c].server = "fedtls" /\ request[c].sender = s[1]
                               \/ request[c].server = "skolsynk"
                                  /\ s[1] \in DOMAIN Clients
                                  /\ request[c].sender = Clients[s[1]]]_vars
  BY <1>1
<1> QED
  BY <1>2, Invariance, PTL DEF Spec, OwnTenantOnly

-----------------------------------------------------------------------------
(* The shutdown.                                                           *)

\* run has returned by itself.
Over == {"stopped", "unsaved"}

\* The values that requests and the backend hand over.
Values ==
  /\ writer \in [Slots -> Conns \cup {Never}]
  /\ \A c \in Conns : /\ handler[c] = "finished" => reply[c] \in Codes
                      /\ handler[c] = "calling" => call[c].body \in Bodies

\* From one phase of the shutdown to the next fewer requests are possible: first
\* no new ones on a server, then none on it that has not been answered.
Closing ==
  /\ phase = "closing" => "fedtls" \notin accepting
  /\ phase \in {"closingSkolsynk", "saving"} \cup Over => accepting = {}
  /\ phase = "closingSkolsynk" => \A c \in Conns : Open(c) => request[c].server # "fedtls"
  /\ phase \in {"saving"} \cup Over => \A c \in Conns : ~Open(c)

\* The one that has changed s last was answered with success.
Promised(s) == writer[s] # Never /\ Done(writer[s])

\* During the save such a resource does not change.
Saving ==
  /\ phase = "saving" => \A s \in Slots : Promised(s) => seen[s] = {store[s]}
  /\ AnsweredIsSaved

ShutdownInv == IInv /\ TypeOK /\ Values /\ Closing /\ Saving

\* A call is made with the body of its request.
LEMMA ServingBody ==
  ASSUME NEW t, NEW r \in HTTPRequests, ServeHTTP(t, r).kind = "call"
  PROVE  ServeHTTP(t, r).call.body \in Bodies
<1>1. putCompatibilityHandler(r).body = r.body
  BY ProgramAssumption DEF putCompatibilityHandler
<1> DEFINE q == putCompatibilityHandler(r)
           g == genericSCIMHandler(t, q)
<1>2. g.kind = "call" => g.call.body = q.body
  <2> HIDE DEF q
  <2> QED
    BY DEF genericSCIMHandler, Answered, Calling
<1> HIDE DEF q, g
<1>3. ServeHTTP(t, r) = g
  BY DEF ServeHTTP, Answered, g, q
<1>4. r.body \in Bodies
  BY ProgramAssumption
<1> QED
  BY <1>1, <1>2, <1>3, <1>4 DEF q

\* What is written is one of the codes.
LEMMA WrittenCodes ==
  ASSUME NEW op \in DOMAIN Success, NEW kind \in Kinds
  PROVE  handleBackendError(op, kind) \in Codes
BY DEF handleBackendError, Success, Aborted, Kinds, Codes

LEMMA CallingStatus ==
  ASSUME IInv
  PROVE  \A c \in Conns : handler[c] = "calling" <=> status[c] # "idle"
BY DEF IInv, ConnInv

\* The backend keeps payloads.
LEMMA ExecutingStore ==
  ASSUME ShutdownInv, NEW c \in Conns, Effect(c)
  PROVE  store' \in [Slots -> Data \cup {Absent}]
<1> USE DEF InMemory!Answer, InMemory!Calling
<1>1. store \in [Slots -> Data \cup {Absent}]
  BY DEF ShutdownInv, TypeOK
<1>2. Executed(c)
  BY Executing DEF ShutdownInv, IInv
<1>3. call[c].body.data \in Data
  BY <1>2 DEF Executed, ShutdownInv, IInv, ConnInv, Values, Bodies
<1>4. CASE storage = "file" /\ FileStep(c)
  BY <1>1, <1>3, <1>4
  DEF FileStep, InMemory!Create, InMemory!Update, InMemory!Delete, InMemory!Missing, List,
      InMemory!Fail
<1>5. CASE storage = "sql" /\ SQLStep(c)
  BY <1>1, <1>3, <1>5
  DEF SQLStep, SQLCheck, SQLMissing, SQLCreate, SQLConflict, SQLUpdate, SQLDelete, List, SQLFail
<1>6. CASE storage = "dummy" /\ DummyStep(c)
  BY <1>1, <1>6 DEF DummyStep
<1> QED
  BY <1>4, <1>5, <1>6 DEF Effect

\* A handler that still runs was not answered with success.
LEMMA EffectShutdown ==
  ASSUME ShutdownInv, NEW c \in Conns, Effect(c)
  PROVE  ShutdownInv'
<1>0. IInv /\ TypeOK /\ Values /\ Closing /\ Saving /\ Running
  BY DEF ShutdownInv, Effect
<1>1. IInv'
  BY <1>0, EffectInv
<1>2. Executed(c)
  BY <1>0, Executing DEF IInv
<1>3. /\ UNCHANGED <<mode, storage, phase, told, accepting, file, request, answer, handler, reply>>
      /\ call' = call
      /\ writer' = writer \/ writer' = [writer EXCEPT ![Target(c)] = c]
  BY <1>2 DEF Effect, Executed, connVars, historyVars
<1>4. seen' = IF phase = "saving" THEN [s \in Slots |-> seen[s] \cup {store'[s]}] ELSE seen
  BY DEF Effect
<1>5. store' \in [Slots -> Data \cup {Absent}]
  BY ExecutingStore
<1>6. seen' \in [Slots -> SUBSET (Data \cup {Absent})]
  BY <1>0, <1>4, <1>5 DEF TypeOK
<1>7. TypeOK'
  BY <1>0, <1>1, <1>3, <1>5, <1>6, CallingStatus DEF TypeOK, IInv, ConnInv
<1>8. Values'
  BY <1>0, <1>3 DEF Values
<1>9. Closing'
  BY <1>0, <1>3 DEF Closing, Open
<1>10. ~Done(c) /\ c \notin {w \in Conns : Done(w)}
  <2>1. answer[c] \in {Never, 503}
    BY <1>0, <1>2 DEF Executed, IInv, ConnInv, AnswerInv
  <2> QED
    BY <2>1, ProgramAssumption DEF Done
<1>11. Saving'
  <2>1. phase # "stopped"
    BY <1>0 DEF Running
  <2>2. ASSUME phase = "saving", NEW s \in Slots, Promised(s)'
        PROVE  seen'[s] = {store'[s]}
    <3>1. writer'[s] # c
      BY <1>3, <1>10, <2>2 DEF Promised, Done
    <3>2. writer'[s] = writer[s]
      BY <1>0, <1>3, <3>1 DEF Values
    <3>3. seen[s] = {store[s]}
      BY <1>0, <1>3, <2>2, <3>2 DEF Saving, Promised, Done
    <3>4. store'[s] = store[s]
      <4>1. SUFFICES ASSUME store'[s] # store[s] PROVE FALSE
        OBVIOUS
      <4>2. s = Target(c) /\ TakesEffect(c)
        BY <1>2, <4>1 DEF Executed
      <4>3. writer' = [writer EXCEPT ![s] = c]
        BY <4>2 DEF Effect
      <4> QED
        BY <1>0, <3>1, <4>3 DEF Values
    <3>5. seen'[s] = seen[s] \cup {store'[s]}
      BY <1>4, <2>2
    <3> QED
      BY <3>3, <3>4, <3>5
  <2> QED
    BY <1>3, <2>1, <2>2 DEF Saving, AnsweredIsSaved
<1> QED
  BY <1>1, <1>7, <1>8, <1>9, <1>11 DEF ShutdownInv

\* No request arrives on a server that has been shut down.
LEMMA ConnectShutdown ==
  ASSUME ShutdownInv, NEW c \in Conns, Connect(c)
  PROVE  ShutdownInv'
<1>0. IInv /\ TypeOK /\ Values /\ Closing /\ Saving /\ Running
  BY DEF ShutdownInv, Connect
<1>1. IInv'
  BY <1>0, ConnectInv
<1>2. PICK r \in HTTPRequests :
        /\ r.server \in accepting
        /\ request' = [request EXCEPT ![c] = r]
        /\ \/ answer' = [answer EXCEPT ![c] = 403] /\ UNCHANGED handler
           \/ handler' = [handler EXCEPT ![c] = "limiting"] /\ UNCHANGED answer
  BY DEF Connect
<1>3. /\ UNCHANGED <<mode, storage, phase, told, accepting, file, seen, reply, store, call,
                     status, result, wrote, writer>>
      /\ request[c] = Nil
  BY DEF Connect, mainVars, backendVars, historyVars
<1>4. phase \notin {"saving", "closingSkolsynk"} \cup Over
  BY <1>0, <1>2 DEF Closing
<1>5. TypeOK'
  BY <1>0, <1>1, <1>2, <1>3, CallingStatus DEF TypeOK, Codes, IInv, ConnInv
<1>6. Values'
  BY <1>0, <1>2, <1>3 DEF Values, TypeOK
<1>7. Closing' /\ Saving'
  BY <1>0, <1>3, <1>4 DEF Closing, Saving, AnsweredIsSaved, Over
<1> QED
  BY <1>1, <1>5, <1>6, <1>7 DEF ShutdownInv

\* The steps of a handler that change neither the store nor an answer.
LEMMA HandlerShutdown ==
  ASSUME ShutdownInv, NEW c \in Conns, Admit(c) \/ Refuse(c) \/ Finish(c)
  PROVE  ShutdownInv'
<1>0. IInv /\ TypeOK /\ Values /\ Closing /\ Saving
  BY DEF ShutdownInv
<1>1. IInv'
  BY <1>0, AdmitInv, RefuseInv, FinishInv
<1>2. UNCHANGED <<mode, storage, phase, told, accepting, file, seen, request, answer, store,
                  wrote, writer>>
  BY DEF Admit, Refuse, Finish, mainVars, backendVars, historyVars, Invoke, InMemory!Return
<1>3. handler' \in [Conns -> {"none", "limiting", "calling", "finished"}]
  BY <1>1 DEF IInv, ConnTypes
<1>4. \A d \in Conns : handler'[d] = "calling" <=> status'[d] # "idle"
  BY <1>1 DEF IInv, ConnInv
<1>5. TypeOK'
  BY <1>0, <1>2, <1>3, <1>4 DEF TypeOK
<1>6. Values'
  <2>0. DOMAIN call = Conns /\ DOMAIN reply = Conns /\ DOMAIN handler = Conns
    BY <1>0 DEF IInv, ConnTypes
  <2>1. CASE Admit(c)
    <3>1. PICK t \in tenantGetter(request[c]) :
            LET s == ServeHTTP(t, request[c])
            IN  \/ s.kind = "answer" /\ Write(c, s.code) /\ UNCHANGED backendVars
                \/ /\ s.kind = "call"
                   /\ Invoke(c, s.call)
                   /\ handler' = [handler EXCEPT ![c] = "calling"]
                   /\ UNCHANGED reply
      BY <2>1 DEF Admit
    <3>2. request[c] \in HTTPRequests
      BY <1>0, <2>1 DEF Admit, IInv, ConnTypes, ConnInv
    <3> DEFINE s == ServeHTTP(t, request[c])
    <3>3. /\ s.kind = "answer" => s.code \in {400, 404, 415, 500, 501}
          /\ s.kind = "call" => s.call.body \in Bodies
      BY <3>2, Serving, ServingBody
    <3> HIDE DEF s
    <3>4. \/ s.kind = "answer" /\ Write(c, s.code) /\ call' = call
          \/ /\ s.kind = "call"
             /\ call' = [call EXCEPT ![c] = s.call]
             /\ handler' = [handler EXCEPT ![c] = "calling"]
             /\ UNCHANGED reply
      BY <3>1 DEF s, Invoke, backendVars
    <3> QED
      BY <1>0, <1>2, <2>0, <3>3, <3>4 DEF Values, Write, Codes
  <2>2. CASE Refuse(c)
    BY <1>0, <1>2, <2>0, <2>2 DEF Values, Refuse, Write, Codes, backendVars
  <2>3. CASE Finish(c)
    <3> DEFINE code == handleBackendError(call[c].op, result[c].kind)
    <3>1. call[c].op \in DOMAIN Success /\ result[c].kind \in Kinds
      BY <1>0, <2>3 DEF Finish, IInv, ConnInv, Faithful, ResultIsTrue
    <3>2. code \in Codes
      BY <3>1, WrittenCodes
    <3> HIDE DEF code
    <3>3. Write(c, code) /\ call' = [call EXCEPT ![c] = Nil]
      BY <2>3 DEF Finish, code, InMemory!Return
    <3> QED
      BY <1>0, <1>2, <2>0, <3>2, <3>3 DEF Values, Write
  <2> QED
    BY <2>1, <2>2, <2>3
<1>7. Closing' /\ Saving'
  BY <1>0, <1>2 DEF Closing, Saving, AnsweredIsSaved, Promised, Done, Open
<1> QED
  BY <1>1, <1>5, <1>6, <1>7 DEF ShutdownInv

\* Nobody is answered once the servers have been shut down.
LEMMA AnswerShutdown ==
  ASSUME ShutdownInv, NEW c \in Conns, Respond(c) \/ Timeout(c)
  PROVE  ShutdownInv'
<1>0. IInv /\ TypeOK /\ Values /\ Closing /\ Saving /\ Open(c)
  BY DEF ShutdownInv, Respond, Timeout
<1>1. IInv'
  BY <1>0, AnswerStep
<1>2. UNCHANGED <<mode, storage, phase, told, accepting, file, seen, request, handler, reply,
                  store, call, status, result, wrote, writer>>
  BY DEF Respond, Timeout, mainVars, backendVars, historyVars
<1>3. PICK code \in Codes : answer' = [answer EXCEPT ![c] = code]
  <2>1. handler[c] = "finished" => reply[c] \in Codes
    BY <1>0 DEF Values
  <2>2. 503 \in Codes
    BY DEF Codes
  <2> QED
    BY <2>1, <2>2 DEF Respond, Timeout
<1>4. TypeOK'
  BY <1>0, <1>2, <1>3 DEF TypeOK
<1>5. Values'
  BY <1>0, <1>2 DEF Values
<1>6. phase \notin {"saving"} \cup Over
  BY <1>0 DEF Closing
<1>7. \A d \in Conns : Open(d)' => Open(d)
  BY <1>0, <1>2, <1>3 DEF TypeOK, Open
<1>8. Closing' /\ Saving'
  BY <1>0, <1>2, <1>6, <1>7 DEF Closing, Saving, AnsweredIsSaved, Over
<1> QED
  BY <1>1, <1>4, <1>5, <1>8 DEF ShutdownInv

\* run itself.
LEMMA MainShutdown ==
  ASSUME ShutdownInv, ListenFedtls \/ MainStep \/ Fatal \/ Signal \/ Stop
  PROVE  ShutdownInv'
<1>0. IInv /\ TypeOK /\ Values /\ Closing /\ Saving
  BY DEF ShutdownInv
<1>1. IInv'
  BY <1>0, MainInv
<1>2. UNCHANGED <<mode, storage, request, answer, handler, reply, store, call, status, result,
                  wrote, writer>>
  BY DEF ListenFedtls, ListenSkolsynk, MainStep, Fatal, Signal, Stop, Wait, TakeStop, ShutdownFedtls, ShutdownSkolsynk,
         Save, SaveFails, SaveRaces, Main, connVars, backendVars, historyVars
<1>3. Values'
  BY <1>0, <1>2 DEF Values
<1>4. \A c \in Conns : Open(c)' <=> Open(c)
  BY <1>2 DEF Open
<1>5. \A s \in Slots : Promised(s)' <=> Promised(s)
  BY <1>2 DEF Promised, Done
<1>6. CASE ListenFedtls \/ ListenSkolsynk \/ Wait \/ TakeStop \/ Fatal \/ Signal \/ Stop
  <2>1. /\ UNCHANGED <<file, seen>>
        /\ phase' \in Phases /\ told' \in {Never, "sent", "taken"}
        /\ accepting' \subseteq Servers
    BY <1>0, <1>6 DEF ListenFedtls, ListenSkolsynk, Wait, TakeStop, Fatal, Signal, Stop, Main, TypeOK, Phases, Servers
  <2>2. TypeOK'
    BY <1>0, <1>2, <2>1 DEF TypeOK
  <2>3. \/ phase' = phase /\ accepting' = accepting
        \/ phase' \in {"listening", "extending", "waiting", "killed"}
        \/ phase' = "closing" /\ accepting' = accepting \ {"fedtls"}
    BY <1>6 DEF ListenFedtls, ListenSkolsynk, Wait, TakeStop, Fatal, Signal, Stop, Main
  <2>4. Closing'
    BY <1>0, <1>2, <1>4, <2>3 DEF Closing, Over
  <2>5. Saving'
    BY <1>0, <1>2, <1>5, <2>1, <2>3 DEF Saving, AnsweredIsSaved, Promised
  <2> QED
    BY <1>1, <1>3, <2>2, <2>4, <2>5 DEF ShutdownInv
<1>7. CASE ShutdownFedtls
  <2>1. /\ phase = "closing" /\ phase' = "closingSkolsynk" /\ UNCHANGED <<told, file, seen>>
        /\ accepting' = accepting \ {"skolsynk"} /\ Quiet("fedtls")
    BY <1>7 DEF ShutdownFedtls, Main
  <2>2. TypeOK'
    BY <1>0, <1>2, <2>1 DEF TypeOK, Phases
  <2>3. accepting' = {}
    BY <1>0, <2>1 DEF Closing, TypeOK, Servers
  <2>4. Closing' /\ Saving'
    BY <1>2, <1>4, <2>1, <2>3 DEF Closing, Quiet, Over, Saving, AnsweredIsSaved
  <2> QED
    BY <1>1, <1>3, <2>2, <2>4 DEF ShutdownInv
<1>8. CASE ShutdownSkolsynk
  <2>1. /\ phase = "closingSkolsynk" /\ phase' = "saving" /\ UNCHANGED <<told, accepting, file>>
        /\ seen' = [s \in Slots |-> {store[s]}] /\ Quiet("skolsynk")
    BY <1>8 DEF ShutdownSkolsynk, Main
  <2>2. TypeOK'
    BY <1>0, <1>2, <2>1 DEF TypeOK, Phases
  <2>3. \A c \in Conns : ~Open(c)
    <3> SUFFICES ASSUME NEW c \in Conns, Open(c) PROVE FALSE
      OBVIOUS
    <3>1. request[c] \in HTTPRequests
      BY <1>0 DEF TypeOK, Open
    <3>2. request[c].server \in Servers
      BY <3>1, ProgramAssumption
    <3> QED
      BY <1>0, <2>1, <3>2 DEF Closing, Quiet, Servers
  <2>4. Closing'
    BY <1>0, <1>4, <2>1, <2>3 DEF Closing, Over
  <2>5. Saving'
    BY <1>2, <2>1 DEF Saving, AnsweredIsSaved
  <2> QED
    BY <1>1, <1>3, <2>2, <2>4, <2>5 DEF ShutdownInv
<1>9. CASE Save \/ SaveFails \/ SaveRaces
  <2>1. /\ phase = "saving" /\ phase' \in Over \cup {"killed"} /\ UNCHANGED <<told, accepting, seen>>
        /\ phase' = "stopped" /\ storage = "file" => \A s \in Slots : file'[s] \in seen[s]
    BY <1>9 DEF Save, SaveFails, SaveRaces, Main, Over
  <2>2. file' \in [Slots -> Data \cup {Absent}]
    <3>1. CASE UNCHANGED file
      BY <1>0, <3>1 DEF TypeOK
    <3>2. CASE ~UNCHANGED file
      <4>1. PICK f \in [Slots -> UNION {seen[s] : s \in Slots}] : file' = f
        BY <1>9, <3>2 DEF Save, SaveFails, SaveRaces
      <4>2. UNION {seen[s] : s \in Slots} \subseteq Data \cup {Absent}
        BY <1>0 DEF TypeOK
      <4> QED
        BY <4>1, <4>2
    <3> QED
      BY <3>1, <3>2
  <2>3. TypeOK'
    BY <1>0, <1>2, <2>1, <2>2 DEF TypeOK, Phases, Over
  <2>4. Closing'
    BY <1>0, <1>4, <2>1 DEF Closing, Over
  <2>5. Saving'
    <3>1. ASSUME phase' = "stopped", storage = "file", NEW s \in Slots, Promised(s)
          PROVE  file'[s] = store[s]
      BY <1>0, <2>1, <3>1 DEF Saving
    <3> QED
      BY <1>2, <1>5, <2>1, <3>1 DEF Saving, AnsweredIsSaved, Promised, Over
  <2> QED
    BY <1>1, <1>3, <2>3, <2>4, <2>5 DEF ShutdownInv
<1> QED
  BY <1>6, <1>7, <1>8, <1>9 DEF MainStep

LEMMA InitShutdown == Init => ShutdownInv
<1> SUFFICES ASSUME Init PROVE ShutdownInv
  OBVIOUS
<1>1. IInv
  BY InitInv
<1>2. TypeOK
  BY ProgramAssumption DEF Init, TypeOK, Phases, Slots, InMemory!Slots
<1>3. Values /\ Closing /\ Saving
  BY DEF Init, Values, NobodyYet, Closing, Over, Saving, AnsweredIsSaved
<1> QED
  BY <1>1, <1>2, <1>3 DEF ShutdownInv

LEMMA NextShutdown == ShutdownInv /\ [Next]_vars => ShutdownInv'
<1> SUFFICES ASSUME ShutdownInv, [Next]_vars PROVE ShutdownInv'
  OBVIOUS
<1>1. CASE ListenFedtls \/ MainStep \/ Fatal \/ Signal \/ Stop
  BY <1>1, MainShutdown
<1>2. ASSUME NEW c \in Conns,
             Connect(c) \/ Admit(c) \/ Refuse(c) \/ Effect(c) \/ Finish(c)
             \/ Respond(c) \/ Timeout(c)
      PROVE  ShutdownInv'
  BY <1>2, ConnectShutdown, HandlerShutdown, EffectShutdown, AnswerShutdown
<1>3. CASE UNCHANGED vars
  <2>1. IInv'
    BY <1>3, NextInv DEF ShutdownInv
  <2>2. UNCHANGED <<mainVars, connVars, backendVars, historyVars>>
    BY <1>3 DEF vars
  <2>3. (TypeOK /\ Values /\ Closing /\ Saving)'
    BY <2>2 DEF mainVars, connVars, backendVars, historyVars, ShutdownInv, TypeOK, Values,
      Closing, Saving, AnsweredIsSaved, Promised, Done, Open
  <2> QED
    BY <2>1, <2>3 DEF ShutdownInv
<1> QED
  BY <1>1, <1>2, <1>3 DEF Next

\* From the signal to the end no resource that was promised to a client is lost.
THEOREM ShutdownInvariance == Spec => []ShutdownInv
BY InitShutdown, NextShutdown, PTL DEF Spec

\* The variables of run, of the connections and of the backend keep their types.
THEOREM TypeCorrectness == Spec => []TypeOK
<1>1. ShutdownInv => TypeOK
  BY DEF ShutdownInv
<1> QED
  BY <1>1, ShutdownInvariance, PTL

\* When the program has stopped by itself, the file holds what every request that
\* was answered with success has written, although handlers that were given up may
\* still write while it is saved.
THEOREM SavedAnswers == Spec => []AnsweredIsSaved
<1>1. ShutdownInv => AnsweredIsSaved
  BY DEF ShutdownInv, Saving
<1> QED
  BY <1>1, ShutdownInvariance, PTL
=============================================================================
