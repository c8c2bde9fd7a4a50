---------------------------- MODULE RemedyProofs ----------------------------
(***************************************************************************)
(* Remedy, for every value of its constants: the client of the model and   *)
(* the adapter of the containers keep the promises that Remedy states.     *)
(***************************************************************************)
EXTENDS Remedy, TLAPS

-----------------------------------------------------------------------------
(* The client of the model                                                 *)

\* Something that ends a stream was yielded.
Marked == \E i \in 1..Len(yields) : yields[i] \in Client!Errors \cup {"final", "refused"}

\* The inductive invariant of GenerateContent: an attempt calls the provider once,
\* and only a request that does not stream has a second attempt; while the provider
\* is asked yield has not answered false, and before a retry it was not called; a
\* stream that is complete has its mark.
ClientInv ==
  /\ Client!TypeOK
  /\ modelCalls <= IF phase \in {"idle", "loop"} THEN attempt ELSE attempt + 1
  /\ phase \in {"provider", "ending"} => modelCalls > 0
  /\ stream \/ phase = "idle" => attempt = 0
  /\ phase \in {"idle", "loop", "provider"} => ~stopped
  /\ late => stream /\ ~completed /\ phase = "returned"
  /\ phase \in {"idle", "loop"} \/ (phase = "provider" /\ ~emitted) => yields = <<>>
  /\ stream /\ completed => Marked
  /\ phase = "returned" /\ stream /\ ~stopped => Marked

\* QuotaPolicy and the bounds are positive, and stream is a flag.
LEMMA ClientConstants ==
  QuotaAttempts \in Nat \ {0} /\ MaxModelCalls \in Nat \ {0} /\ Streams \subseteq BOOLEAN
BY RemedyAssumption DEF Client!LLMAssumption

\* GenerateContent begins in the invariant.
LEMMA ClientInit == Client!Init => ClientInv
<1> SUFFICES ASSUME Client!Init PROVE ClientInv
  OBVIOUS
<1>1. yields = <<>> /\ yields \in Seq(Client!Items)
  BY DEF Client!Init, Client!Idle
<1>2. {emitted, completed, stopped, late} \subseteq BOOLEAN /\ ~completed /\ ~stopped /\ ~late
  BY Zenon DEF Client!Init, Client!Idle
<1> QED
  BY <1>1, <1>2, ClientConstants DEF Client!Init, Client!Idle, ClientInv, Client!TypeOK, Client!Phases

\* What a call of yield does to the history.
LEMMA ClientYield ==
  ASSUME ClientInv, NEW item \in Client!Items, Client!Yield(item)
  PROVE  /\ yields' \in Seq(Client!Items) /\ stopped' \in BOOLEAN /\ late' \in BOOLEAN
         /\ late' = (late \/ stopped)
         /\ Marked \/ item \in Client!Errors \cup {"final", "refused"} => Marked'
<1>1. /\ yields \in Seq(Client!Items) /\ stopped \in BOOLEAN /\ late \in BOOLEAN
      /\ yields' = Append(yields, item)
  BY DEF ClientInv, Client!TypeOK, Client!Yield
<1>2. /\ yields' \in Seq(Client!Items) /\ Len(yields') = Len(yields) + 1
      /\ \A i \in 1..Len(yields) : yields'[i] = yields[i]
      /\ yields'[Len(yields) + 1] = item /\ Len(yields) \in Nat
  BY <1>1
<1>3. stopped' \in BOOLEAN /\ late' \in BOOLEAN /\ late' = (late \/ stopped)
  BY <1>1, Zenon DEF Client!Yield
<1>4. CASE Marked
  <2>1. PICK i \in 1..Len(yields) : yields[i] \in Client!Errors \cup {"final", "refused"}
    BY <1>4 DEF Marked
  <2>2. i \in 1..Len(yields') /\ yields'[i] \in Client!Errors \cup {"final", "refused"}
    BY <1>2, <2>1
  <2> QED BY <1>2, <1>3, <2>2 DEF Marked
<1>5. CASE item \in Client!Errors \cup {"final", "refused"}
  <2>1. Len(yields) + 1 \in 1..Len(yields') /\ yields'[Len(yields) + 1] \in Client!Errors \cup {"final", "refused"}
    BY <1>2, <1>5
  <2> QED BY <1>2, <1>3, <2>1 DEF Marked
<1> QED BY <1>2, <1>3, <1>4, <1>5

\* Every step of GenerateContent keeps the invariant.
LEMMA ClientStepSound == ClientInv /\ [Client!Next]_clientVars => ClientInv'
<1> SUFFICES ASSUME ClientInv, [Client!Next]_clientVars PROVE ClientInv'
  OBVIOUS
<1> USE ClientConstants
<1>0. <<>> \in Seq(Client!Items)
  OBVIOUS
<1>1. CASE phase = "idle" /\ Client!Begin
  <2>1. {emitted', completed', stopped', late'} \subseteq BOOLEAN /\ ~completed' /\ ~stopped'
    BY <1>1, Zenon DEF Client!Begin, ClientInv, Client!TypeOK
  <2> QED BY <1>0, <1>1, <2>1 DEF Client!Begin, ClientInv, Client!TypeOK, Client!Phases, Marked
<1>11. CASE Client!Refuse
  <2>1. Client!Yield("refused") /\ "refused" \in Client!Items
    BY <1>11 DEF Client!Refuse, Client!Items
  <2>2. /\ Marked' /\ {stopped', late'} \subseteq BOOLEAN /\ yields' \in Seq(Client!Items)
        /\ late' = (late \/ stopped)
    BY <2>1, ClientYield, Zenon
  <2>3. yields' # <<>>
    BY <2>1 DEF Client!Yield, ClientInv, Client!TypeOK
  <2>4. Client!TypeOK'
    BY <1>11, <2>2, <2>3 DEF Client!Refuse, ClientInv, Client!TypeOK, Client!Phases
  <2>5. attempt' = 0 /\ modelCalls' <= attempt' + 1 /\ phase' = "returned"
    BY <1>11 DEF Client!Refuse, ClientInv, Client!TypeOK
  <2>6. ~late'
    BY <1>11, <2>2, Zenon DEF Client!Refuse, ClientInv
  <2> QED BY <2>2, <2>4, <2>5, <2>6 DEF ClientInv
<1>2. CASE Client!Call
  <2>1. {emitted', completed', stopped', late'} \subseteq BOOLEAN /\ ~completed' /\ ~stopped'
    BY <1>2, Zenon DEF Client!Call, Client!Silent, ClientInv, Client!TypeOK
  <2> QED BY <1>2, <2>1 DEF Client!Call, Client!Silent, ClientInv, Client!TypeOK, Client!Phases, Marked
<1>3. CASE Client!Quota
  <2>1. CASE attempt + 1 < QuotaAttempts
    BY <1>3, <2>1 DEF Client!Quota, Client!Retry, Client!Silent, ClientInv, Client!TypeOK,
       Client!Phases, Marked
  <2>2. CASE ~(attempt + 1 < QuotaAttempts)
    <3>1. Client!Yield("quota") /\ "quota" \in Client!Items
      BY <1>3, <2>2 DEF Client!Quota, Client!Retry, Client!Items, Client!Errors
    <3> QED BY <1>3, <2>2, <3>1, ClientYield DEF Client!Quota, Client!Retry, ClientInv,
             Client!TypeOK, Client!Phases
  <2> QED BY <2>1, <2>2
<1>4. CASE Client!Finish
  BY <1>4 DEF Client!Finish, Client!Silent, ClientInv, Client!TypeOK, Client!Phases, Marked
<1>5. CASE Client!End
  <2>1. CASE stream /\ ~completed
    <3>1. Client!Yield("malformed") /\ "malformed" \in Client!Items
      BY <1>5, <2>1 DEF Client!End, Client!Items, Client!Errors
    <3>2. Marked' /\ {stopped', late'} \subseteq BOOLEAN /\ yields' \in Seq(Client!Items)
      BY <3>1, ClientYield DEF Client!Errors
    <3>3. Client!TypeOK'
      BY <1>5, <3>2 DEF Client!End, ClientInv, Client!TypeOK, Client!Phases
    <3> QED BY <1>5, <2>1, <3>2, <3>3, Zenon DEF Client!End, ClientInv, Client!TypeOK
  <2>2. CASE ~(stream /\ ~completed)
    BY <1>5, <2>2 DEF Client!End, Client!Silent, ClientInv, Client!TypeOK, Client!Phases, Marked
  <2> QED BY <2>1, <2>2
<1>6. ASSUME NEW item \in Client!Errors, Client!Fail(item) PROVE ClientInv'
  <2>1. Client!Yield(item) /\ item \in Client!Items
    BY <1>6 DEF Client!Fail, Client!Items
  <2> QED BY <1>6, <2>1, ClientYield, Zenon DEF Client!Fail, ClientInv, Client!TypeOK, Client!Phases
<1>7. ASSUME NEW item \in {"response", "final"}, Client!Response(item) PROVE ClientInv'
  <2>1. Client!Yield(item) /\ item \in Client!Items
    BY <1>7 DEF Client!Response, Client!Items
  <2> QED BY <1>7, <2>1, ClientYield DEF Client!Response, ClientInv, Client!TypeOK, Client!Phases
<1>8. CASE UNCHANGED clientVars
  BY <1>8 DEF clientVars, ClientInv, Client!TypeOK, Marked
<1>9. Client!Done => UNCHANGED clientVars
  BY DEF Client!Done, Client!vars, clientVars
<1> QED BY <1>1, <1>11, <1>2, <1>3, <1>4, <1>5, <1>6, <1>7, <1>8, <1>9 DEF Client!Next, Client!Step

\* GenerateContent, for every policy and provider: yield is not called after it
\* answered false but for the error that ends an incomplete stream, the provider
\* calls are bounded, and a stream that ends without an error is whole.
THEOREM ModelClientStaysSound == RemedySpec => []ModelClientSound
<1>1. RemedyInit => ClientInv
  BY ClientInit DEF RemedyInit
<1>2. ClientInv /\ [RemedyNext]_remedyVars => ClientInv'
  BY ClientStepSound DEF RemedyNext, ClientStep, AdapterStep, remedyVars
<1>3. ClientInv => ModelClientSound
  BY RemedyAssumption DEF ClientInv, ModelClientSound, Client!NoYieldAfterStop, Client!CallsBounded,
     Client!StreamEndMarked, Client!TypeOK, Client!LLMAssumption, Marked
<1> QED BY <1>1, <1>2, <1>3, PTL DEF RemedySpec

\* GenerateContent repeats a request only while nothing was yielded of it.
THEOREM RepeatsOnlySilence == RemedySpec => Client!RetriesBeforeEmission
<1>1. RemedyInit => ClientInv
  BY ClientInit DEF RemedyInit
<1>2. ClientInv /\ [RemedyNext]_remedyVars => ClientInv'
  BY ClientStepSound DEF RemedyNext, ClientStep, AdapterStep, remedyVars
<1>3. ClientInv /\ [RemedyNext]_remedyVars =>
        [modelCalls' > modelCalls => yields = <<>>]_(Client!vars)
  <2> SUFFICES ASSUME ClientInv, [RemedyNext]_remedyVars, modelCalls' > modelCalls
               PROVE  yields = <<>>
    OBVIOUS
  <2>1. modelCalls \in Nat
    BY DEF ClientInv, Client!TypeOK
  <2>2. modelCalls' # modelCalls
    BY <2>1
  <2>3. Client!Call
    BY <2>2 DEF RemedyNext, ClientStep, AdapterStep, remedyVars, clientVars, Client!Next,
       Client!Begin, Client!Refuse, Client!Step, Client!Quota, Client!Retry, Client!Finish, Client!End,
       Client!Fail, Client!Response, Client!Done, Client!vars
  <2> QED BY <2>3 DEF ClientInv, Client!Call
<1> QED BY <1>1, <1>2, <1>3, PTL DEF RemedySpec, Client!RetriesBeforeEmission

-----------------------------------------------------------------------------
(* The adapter of the containers                                           *)

Requests == {"resolve", "logs", "restart"}

\* The last call of each goroutine.
AdapterCall ==
  [op : Operations \cup {"none"}, target : Adapter!Targets \cup {Nobody},
   pc : {"idle", "lock", "negotiate"} \cup Requests,
   found : SUBSET [id : ContainerIDs, name : Names, service : Services, running : BOOLEAN],
   restarted : SUBSET ContainerIDs,
   result : {"none", "ok", "rejected", "unavailable"}]

FoundIDs(call) == {c.id : c \in call.found}

\* What a call knows: before it returns it has restarted nothing, a restart is asked
\* for one container, and one that returned reports what it did.
CallTruthful(call) ==
  /\ call.pc # "idle" => call.op \in Operations /\ call.restarted = {}
  /\ call.pc = "logs" => call.op = "evidence"
  /\ call.pc = "restart" => call.op = "execute" /\ \E c \in call.found : call.found = {c}
  /\ \A id, other \in call.restarted : id = other
  /\ call.restarted # {} => call.op = "execute" /\ FoundIDs(call) = call.restarted
  /\ call.op = "execute" /\ call.pc = "idle" =>
       /\ call.result = "ok" => call.restarted # {}
       /\ call.result = "rejected" => call.restarted = {}

\* The mutex is with the call that negotiates, and no other request is made before
\* that has succeeded.
MutexInv ==
  /\ mutex \in Callers \cup {Nobody}
  /\ negotiated \in BOOLEAN
  /\ negotiations = IF negotiated THEN 1 ELSE 0
  /\ \A p \in Callers :
       /\ mutex = p <=> adapterCalls[p].pc = "negotiate"
       /\ mutex = p => ~negotiated
       /\ adapterCalls[p].pc \in Requests => negotiated

EngineInv ==
  /\ containers \subseteq [id : used, name : Names, service : Services, running : BOOLEAN]
  /\ used \subseteq ContainerIDs

\* The inductive invariant of the adapter and its engine.
AdapterInv ==
  /\ EngineInv
  /\ MutexInv
  /\ adapterCalls \in [Callers -> AdapterCall]
  /\ \A p \in Callers : CallTruthful(adapterCalls[p])

\* The adapter begins in the invariant.
LEMMA AdapterInit == Adapter!Init => AdapterInv
<1> SUFFICES ASSUME Adapter!Init PROVE AdapterInv
  OBVIOUS
<1> DEFINE new == Adapter!NewCall("none", Nobody, "idle", "none")
<1>1. new \in AdapterCall /\ CallTruthful(new) /\ new.pc = "idle"
  BY Zenon DEF Adapter!NewCall, AdapterCall, CallTruthful
<1>2. adapterCalls = [p \in Callers |-> new]
  BY DEF Adapter!Init
<1> HIDE DEF new
<1>3. adapterCalls \in [Callers -> AdapterCall]
      /\ \A p \in Callers : CallTruthful(adapterCalls[p]) /\ adapterCalls[p].pc = "idle"
  BY <1>1, <1>2
<1>4. EngineInv /\ MutexInv
  BY <1>3, RemedyAssumption, Zenon DEF EngineInv, MutexInv, Requests, Adapter!Init, Adapter!DockerAssumption
<1> QED BY <1>3, <1>4 DEF AdapterInv

\* The calls after a step of caller p.
Others(p) == \A q \in Callers : q # p => adapterCalls'[q] = adapterCalls[q]

\* A step changes the call of p only, and leaves it typed and truthful.
Moves(p) ==
  /\ adapterCalls' \in [Callers -> AdapterCall]
  /\ Others(p)
  /\ CallTruthful(adapterCalls[p])'

\* Return ends the call and keeps all but its result.
LEMMA Returned ==
  ASSUME AdapterInv, NEW p \in Callers, NEW result \in {"ok", "rejected", "unavailable"},
         Adapter!Return(p, result), adapterCalls[p].pc # "idle",
         result = "ok" => adapterCalls[p].op # "execute"
  PROVE  Moves(p) /\ adapterCalls'[p].pc = "idle"
<1>1. adapterCalls \in [Callers -> AdapterCall] /\ CallTruthful(adapterCalls[p])
  BY DEF AdapterInv
<1> DEFINE call == adapterCalls'[p]
<1>2. adapterCalls' \in [Callers -> AdapterCall] /\ Others(p)
  <2> DEFINE once == [adapterCalls EXCEPT ![p].pc = "idle"]
  <2>1. once \in [Callers -> AdapterCall] /\ \A q \in Callers : q # p => once[q] = adapterCalls[q]
    BY <1>1 DEF AdapterCall
  <2>2. adapterCalls' = [once EXCEPT ![p].result = result]
    BY DEF Adapter!Return
  <2> HIDE DEF once
  <2> QED BY <2>1, <2>2 DEF AdapterCall, Others
<1>3. /\ call.op = adapterCalls[p].op /\ call.found = adapterCalls[p].found
      /\ call.restarted = adapterCalls[p].restarted
      /\ call.pc = "idle" /\ call.result = result
  BY <1>1 DEF Adapter!Return, AdapterCall
<1>4. CallTruthful(adapterCalls[p])'
  BY <1>1, <1>3 DEF CallTruthful, FoundIDs
<1> QED BY <1>2, <1>3, <1>4 DEF Moves

\* Goto moves a call on that is not about to read logs or to restart.
LEMMA Moved ==
  ASSUME AdapterInv, NEW p \in Callers, NEW pc \in {"lock", "negotiate", "resolve"},
         Adapter!Goto(p, pc), adapterCalls[p].pc # "idle"
  PROVE  Moves(p) /\ adapterCalls'[p].pc = pc
<1>1. adapterCalls \in [Callers -> AdapterCall] /\ CallTruthful(adapterCalls[p])
  BY DEF AdapterInv
<1> DEFINE call == adapterCalls'[p]
<1>2. adapterCalls' \in [Callers -> AdapterCall] /\ Others(p)
  BY <1>1 DEF Adapter!Goto, AdapterCall, Others, Requests
<1>3. /\ call.op = adapterCalls[p].op /\ call.found = adapterCalls[p].found
      /\ call.restarted = adapterCalls[p].restarted /\ call.pc = pc
  BY <1>1 DEF Adapter!Goto, AdapterCall
<1>4. CallTruthful(adapterCalls[p])'
  BY <1>1, <1>3, Zenon DEF CallTruthful, FoundIDs
<1> QED BY <1>2, <1>3, <1>4 DEF Moves

\* The calls after a step of p; the engine and the mutex have lemmas of their own.
LEMMA CallsKept ==
  ASSUME AdapterInv, NEW p \in Callers, Moves(p)
  PROVE  /\ adapterCalls' \in [Callers -> AdapterCall]
         /\ \A q \in Callers : CallTruthful(adapterCalls[q])'
<1>1. ASSUME NEW q \in Callers PROVE CallTruthful(adapterCalls[q])'
  BY DEF AdapterInv, Moves, Others, CallTruthful, FoundIDs
<1> QED BY <1>1 DEF Moves

\* A step of p that leaves the adapter's fields alone, and p away from negotiate.
LEMMA MutexKept ==
  ASSUME AdapterInv, NEW p \in Callers, Moves(p), UNCHANGED Adapter!adapter,
         adapterCalls[p].pc # "negotiate", adapterCalls'[p].pc # "negotiate",
         adapterCalls'[p].pc \in Requests => negotiated
  PROVE  MutexInv'
BY DEF AdapterInv, MutexInv, Moves, Others, Adapter!adapter

-----------------------------------------------------------------------------
(* The steps of the adapter                                                *)

\* Containers come, go, stop and start: no call learns of it.
LEMMA EngineSteps ==
  ASSUME AdapterInv
  PROVE  /\ \A id \in ContainerIDs, name \in Names, service \in Services :
              Adapter!Create(id, name, service) => AdapterInv'
         /\ \A c \in containers : Adapter!Remove(c) \/ Adapter!Toggle(c) => AdapterInv'
<1>1. ASSUME UNCHANGED <<Adapter!adapter, adapterCalls>>, EngineInv' PROVE AdapterInv'
  BY <1>1 DEF AdapterInv, MutexInv, Adapter!adapter, CallTruthful, FoundIDs
<1>2. ASSUME NEW id \in ContainerIDs, NEW name \in Names, NEW service \in Services,
             Adapter!Create(id, name, service)
      PROVE  AdapterInv'
  <2> DEFINE new == [id |-> id, name |-> name, service |-> service, running |-> TRUE]
  <2>0. new \in [id : used', name : Names, service : Services, running : BOOLEAN]
    BY <1>2 DEF Adapter!Create
  <2>2. \A c \in containers : c \in [id : used', name : Names, service : Services, running : BOOLEAN]
    BY <1>2 DEF Adapter!Create, EngineInv, AdapterInv
  <2>3. containers' = containers \cup {new} /\ used' = used \cup {id}
    BY <1>2 DEF Adapter!Create
  <2> HIDE DEF new
  <2>1. EngineInv'
    BY <2>0, <2>2, <2>3 DEF EngineInv, AdapterInv
  <2> QED BY <1>1, <1>2, <2>1 DEF Adapter!Create
<1>3. ASSUME NEW c \in containers, Adapter!Remove(c) PROVE AdapterInv'
  <2>1. EngineInv'
    BY <1>3 DEF Adapter!Remove, EngineInv, AdapterInv
  <2> QED BY <1>1, <1>3, <2>1 DEF Adapter!Remove
<1>4. ASSUME NEW c \in containers, Adapter!Toggle(c) PROVE AdapterInv'
  <2>0. c \in [id : used, name : Names, service : Services, running : BOOLEAN]
    BY DEF EngineInv, AdapterInv
  <2>1. [c EXCEPT !.running = ~@]
          \in [id : used, name : Names, service : Services, running : BOOLEAN]
    BY <2>0, Zenon
  <2>2. EngineInv'
    BY <1>4, <2>1 DEF Adapter!Toggle, EngineInv, AdapterInv
  <2> QED BY <1>1, <1>4, <2>2 DEF Adapter!Toggle
<1> QED BY <1>2, <1>3, <1>4

\* A call begins, or is rejected at once.
LEMMA BeginStep ==
  ASSUME AdapterInv, NEW p \in Callers, NEW op \in Operations, NEW target \in Adapter!Targets,
         NEW accepted \in BOOLEAN, Adapter!Begin(p, op, target, accepted)
  PROVE  AdapterInv'
<1> DEFINE new == IF accepted THEN Adapter!NewCall(op, target, "lock", "none")
                              ELSE Adapter!NewCall(op, target, "idle", "rejected")
<1>1. new \in AdapterCall /\ CallTruthful(new) /\ new.pc \in {"idle", "lock"}
  BY Zenon DEF Adapter!NewCall, AdapterCall, CallTruthful, FoundIDs
<1>2. adapterCalls' = [adapterCalls EXCEPT ![p] = new] /\ adapterCalls[p].pc = "idle"
      /\ UNCHANGED <<Adapter!engine, Adapter!adapter>>
  BY DEF Adapter!Begin, Adapter!At
<1> HIDE DEF new
<1>3. adapterCalls'[p] = new /\ Others(p) /\ adapterCalls' \in [Callers -> AdapterCall]
  BY <1>1, <1>2 DEF AdapterInv, Others
<1>4. CallTruthful(adapterCalls[p])'
  BY <1>1, <1>3 DEF CallTruthful, FoundIDs
<1>5. Moves(p)
  BY <1>3, <1>4 DEF Moves
<1>6. EngineInv'
  BY <1>2 DEF AdapterInv, EngineInv, Adapter!engine
<1> QED BY <1>1, <1>2, <1>3, <1>5, <1>6, CallsKept, MutexKept DEF AdapterInv, Requests

\* negotiate takes the mutex: it was free, so nobody was negotiating.
LEMMA LockStep ==
  ASSUME AdapterInv, NEW p \in Callers, Adapter!Lock(p)
  PROVE  AdapterInv'
<1>1. /\ adapterCalls[p].pc = "lock" /\ mutex = Nobody
      /\ UNCHANGED <<Adapter!engine, negotiated, negotiations>>
  BY DEF Adapter!Lock, Adapter!At
<1>2. EngineInv'
  BY <1>1 DEF AdapterInv, EngineInv, Adapter!engine
<1>3. CASE negotiated
  <2>1. Adapter!Goto(p, "resolve") /\ UNCHANGED mutex
    BY <1>3 DEF Adapter!Lock
  <2>2. Moves(p) /\ adapterCalls'[p].pc = "resolve"
    BY <1>1, <2>1, Moved
  <2>3. UNCHANGED Adapter!adapter
    BY <1>1, <2>1 DEF Adapter!adapter
  <2> QED BY <1>1, <1>2, <1>3, <2>2, <2>3, CallsKept, MutexKept DEF AdapterInv
<1>4. CASE ~negotiated
  <2>1. Adapter!Goto(p, "negotiate") /\ mutex' = p
    BY <1>4 DEF Adapter!Lock
  <2>2. Moves(p) /\ adapterCalls'[p].pc = "negotiate"
    BY <1>1, <2>1, Moved
  <2>3. MutexInv'
    BY <1>1, <1>4, <2>1, <2>2, RemedyAssumption DEF AdapterInv, MutexInv, Moves, Others, Requests,
       Adapter!DockerAssumption
  <2> QED BY <1>2, <2>2, <2>3, CallsKept DEF AdapterInv
<1> QED BY <1>3, <1>4

\* The negotiation ends: it was the only one, and no request went out before it.
LEMMA NegotiateStep ==
  ASSUME AdapterInv, NEW p \in Callers, Adapter!Negotiate(p) \/ Adapter!NegotiateFails(p)
  PROVE  AdapterInv'
<1>1. adapterCalls[p].pc = "negotiate" /\ mutex' = Nobody /\ UNCHANGED Adapter!engine
  BY DEF Adapter!Negotiate, Adapter!NegotiateFails, Adapter!At
<1>2. EngineInv'
  BY <1>1 DEF AdapterInv, EngineInv, Adapter!engine
<1>3. mutex = p /\ ~negotiated /\ negotiations = 0
      /\ \A q \in Callers : q # p => adapterCalls[q].pc \notin {"negotiate"} \cup Requests
  BY <1>1 DEF AdapterInv, MutexInv
<1>4. CASE Adapter!Negotiate(p)
  <2>1. Adapter!Goto(p, "resolve") /\ negotiated' = TRUE /\ negotiations' = 1
    BY <1>3, <1>4 DEF Adapter!Negotiate
  <2>2. Moves(p) /\ adapterCalls'[p].pc = "resolve"
    BY <1>1, <2>1, Moved
  <2>3. MutexInv'
    BY <1>1, <1>3, <2>1, <2>2, RemedyAssumption DEF MutexInv, Moves, Others, Adapter!DockerAssumption
  <2> QED BY <1>2, <2>2, <2>3, CallsKept DEF AdapterInv
<1>5. CASE Adapter!NegotiateFails(p)
  <2>1. Adapter!Return(p, "unavailable") /\ UNCHANGED <<negotiated, negotiations>>
    BY <1>5 DEF Adapter!NegotiateFails
  <2>2. Moves(p) /\ adapterCalls'[p].pc = "idle"
    BY <1>1, <2>1, Returned
  <2>3. MutexInv'
    BY <1>1, <1>3, <2>1, <2>2, RemedyAssumption DEF AdapterInv, MutexInv, Moves, Others, Requests,
       Adapter!DockerAssumption
  <2> QED BY <1>2, <2>2, <2>3, CallsKept DEF AdapterInv
<1> QED BY <1>4, <1>5

\* A call that is answered and has to do nothing more.
LEMMA EndStep ==
  ASSUME AdapterInv, NEW p \in Callers, NEW result \in {"ok", "rejected", "unavailable"},
         Adapter!Return(p, result), UNCHANGED <<Adapter!engine, Adapter!adapter>>,
         adapterCalls[p].pc \in Requests, result = "ok" => adapterCalls[p].op # "execute"
  PROVE  AdapterInv'
<1>1. Moves(p) /\ adapterCalls'[p].pc = "idle"
  BY Returned DEF Requests
<1>2. EngineInv'
  BY DEF AdapterInv, EngineInv, Adapter!engine
<1> QED BY <1>1, <1>2, CallsKept, MutexKept DEF AdapterInv, Requests

\* A request that failed, and logs that were read.
LEMMA AnsweredSteps ==
  ASSUME AdapterInv, NEW p \in Callers, Adapter!RequestFails(p) \/ Adapter!Logs(p)
  PROVE  AdapterInv'
<1>1. CASE Adapter!RequestFails(p)
  BY <1>1, EndStep DEF Adapter!RequestFails, Requests
<1>2. CASE Adapter!Logs(p)
  <2>1. adapterCalls[p].pc = "logs" /\ adapterCalls[p].op = "evidence"
    BY <1>2 DEF Adapter!Logs, Adapter!At, AdapterInv, CallTruthful
  <2> QED BY <1>2, <2>1, EndStep DEF Adapter!Logs, Requests
<1> QED BY <1>1, <1>2

\* resolve: a call goes on with a container only when its selector matches that alone.
LEMMA ResolveStep ==
  ASSUME AdapterInv, NEW p \in Callers, Adapter!Resolve(p)
  PROVE  AdapterInv'
<1> DEFINE old == adapterCalls[p]
           found == Adapter!Matches(old.target)
<1>1. /\ old.pc = "resolve" /\ UNCHANGED <<Adapter!engine, Adapter!adapter>>
  BY DEF Adapter!Resolve, Adapter!At
<1>2. /\ adapterCalls \in [Callers -> AdapterCall] /\ CallTruthful(old) /\ negotiated
      /\ old.op \in Operations \cup {"none"} /\ old.restarted = {}
  BY <1>1 DEF AdapterInv, MutexInv, Requests, AdapterCall, CallTruthful
<1>3. CASE \E c \in containers : found = {c}
  <2>1. PICK c \in found : Adapter!Use(p, c)
    BY <1>3, Zenon DEF Adapter!Resolve
  <2>2. found = {c}
    BY <1>3, <2>1
  <2>3. found \in SUBSET [id : ContainerIDs, name : Names, service : Services, running : BOOLEAN]
    BY DEF Adapter!Matches, AdapterInv, EngineInv
  <2> HIDE DEF found
  <2> DEFINE call == adapterCalls'[p]
  <2> DEFINE next == CASE old.op = "evidence" -> "logs"
                       [] old.op = "execute" /\ c.running -> "restart"
                       [] OTHER -> "idle"
             result == CASE old.op = "observe" -> "ok"
                         [] old.op = "evidence" -> "none"
                         [] old.op = "validate" -> IF c.running THEN "ok" ELSE "rejected"
                         [] old.op = "execute" -> IF c.running THEN "none" ELSE "rejected"
             once == [adapterCalls EXCEPT ![p].found = found]
             twice == [once EXCEPT ![p].pc = next]
  <2>4. adapterCalls' = [twice EXCEPT ![p].result = result]
    BY <2>1 DEF Adapter!Use, found
  <2>5. old.op \in {"observe", "evidence", "validate", "execute"}
    BY <1>1, <1>2, RemedyAssumption, Zenon DEF CallTruthful, Adapter!DockerAssumption
  <2>6. /\ next \in {"logs", "restart", "idle"} /\ result \in {"none", "ok", "rejected"}
        /\ next = "logs" => old.op = "evidence"
        /\ next = "restart" => old.op = "execute"
        /\ old.op = "execute" /\ next = "idle" => result = "rejected"
    BY <2>5
  <2> HIDE DEF next, result
  <2>7. /\ once \in [Callers -> AdapterCall] /\ once[p].found = found /\ once[p].op = old.op
        /\ once[p].restarted = {} /\ \A q \in Callers : q # p => once[q] = adapterCalls[q]
    BY <1>2, <2>3 DEF AdapterCall
  <2> HIDE DEF once
  <2>8. /\ twice \in [Callers -> AdapterCall] /\ twice[p].found = found /\ twice[p].op = old.op
        /\ twice[p].restarted = {} /\ twice[p].pc = next
        /\ \A q \in Callers : q # p => twice[q] = adapterCalls[q]
    BY <2>6, <2>7 DEF AdapterCall, Requests
  <2> HIDE DEF twice
  <2>9. /\ adapterCalls' \in [Callers -> AdapterCall] /\ call.found = found /\ call.op = old.op
        /\ call.restarted = {} /\ call.pc = next /\ call.result = result
        /\ \A q \in Callers : q # p => adapterCalls'[q] = adapterCalls[q]
    BY <2>4, <2>6, <2>8 DEF AdapterCall
  <2>10. CallTruthful(adapterCalls[p])'
    BY <1>1, <1>2, <2>2, <2>6, <2>9, Zenon DEF CallTruthful, FoundIDs
  <2>11. Moves(p)
    BY <2>9, <2>10 DEF Moves, Others
  <2>12. EngineInv'
    BY <1>1 DEF AdapterInv, EngineInv, Adapter!engine
  <2> QED BY <1>1, <1>2, <2>6, <2>9, <2>11, <2>12, CallsKept, MutexKept, Zenon DEF AdapterInv
<1>4. CASE ~\E c \in containers : found = {c}
  BY <1>1, <1>4, EndStep DEF Adapter!Resolve, Requests
<1> QED BY <1>3, <1>4

\* Restart: the container that was resolved, and nothing else, is restarted.
LEMMA RestartStep ==
  ASSUME AdapterInv, NEW p \in Callers, Adapter!Restart(p)
  PROVE  AdapterInv'
<1> DEFINE old == adapterCalls[p]
           ids == FoundIDs(old)
           alive == {c \in containers : c.id \in ids}
<1>1. /\ old.pc = "restart" /\ old.op = "execute" /\ old.restarted = {}
      /\ UNCHANGED <<used, Adapter!adapter>>
      /\ containers' = (containers \ alive) \cup {[c EXCEPT !.running = TRUE] : c \in alive}
  BY Zenon DEF Adapter!Restart, Adapter!At, AdapterInv, CallTruthful, FoundIDs
<1>2. PICK result \in {"ok", "unavailable"} :
        adapterCalls' = [adapterCalls EXCEPT ![p].restarted = @ \cup ids, ![p].pc = "idle",
                                             ![p].result = result]
  BY Zenon DEF Adapter!Restart, FoundIDs
<1>3. /\ adapterCalls \in [Callers -> AdapterCall]
      /\ old.found \subseteq [id : ContainerIDs, name : Names, service : Services, running : BOOLEAN]
  BY DEF AdapterInv, AdapterCall
<1>4. PICK c \in old.found : old.found = {c}
  BY <1>1 DEF AdapterInv, CallTruthful
<1>5. ids = {c.id} /\ c.id \in ContainerIDs
  BY <1>3, <1>4 DEF FoundIDs
<1>6. EngineInv'
  <2>1. \A d \in alive : [d EXCEPT !.running = TRUE]
                           \in [id : used, name : Names, service : Services, running : BOOLEAN]
    BY Zenon DEF AdapterInv, EngineInv
  <2> QED BY <1>1, <2>1 DEF AdapterInv, EngineInv
<1> DEFINE once == [adapterCalls EXCEPT ![p].restarted = @ \cup ids]
           twice == [once EXCEPT ![p].pc = "idle"]
           call == adapterCalls'[p]
<1>7. adapterCalls' = [twice EXCEPT ![p].result = result]
  BY <1>2
<1> HIDE DEF ids, alive
<1>8. /\ once \in [Callers -> AdapterCall] /\ once[p].found = old.found /\ once[p].op = old.op
      /\ once[p].restarted = ids /\ \A q \in Callers : q # p => once[q] = adapterCalls[q]
  BY <1>1, <1>3, <1>5 DEF AdapterCall
<1> HIDE DEF once
<1>9. /\ twice \in [Callers -> AdapterCall] /\ twice[p].found = old.found /\ twice[p].op = old.op
      /\ twice[p].restarted = ids /\ twice[p].pc = "idle"
      /\ \A q \in Callers : q # p => twice[q] = adapterCalls[q]
  BY <1>8 DEF AdapterCall
<1> HIDE DEF twice
<1>10. /\ adapterCalls' \in [Callers -> AdapterCall] /\ call.found = old.found /\ call.op = old.op
       /\ call.restarted = ids /\ call.pc = "idle" /\ call.result = result
       /\ \A q \in Callers : q # p => adapterCalls'[q] = adapterCalls[q]
  BY <1>7, <1>9 DEF AdapterCall
<1>11. CallTruthful(adapterCalls[p])'
  <2>1. FoundIDs(call) = call.restarted
    BY <1>10 DEF ids, FoundIDs
  <2> QED BY <1>1, <1>5, <1>10, <2>1 DEF CallTruthful, FoundIDs
<1>12. Moves(p)
  BY <1>10, <1>11 DEF Moves, Others
<1> QED BY <1>1, <1>6, <1>10, <1>12, CallsKept, MutexKept DEF AdapterInv, Requests

\* Every step of the adapter and of its engine keeps the invariant.
LEMMA AdapterStepSound == AdapterInv /\ [Adapter!Next]_adapterVars => AdapterInv'
<1> SUFFICES ASSUME AdapterInv, [Adapter!Next]_adapterVars PROVE AdapterInv'
  OBVIOUS
<1>1. CASE UNCHANGED adapterVars
  <2>1. EngineInv' /\ MutexInv'
    BY <1>1, Zenon DEF adapterVars, AdapterInv, EngineInv, MutexInv
  <2>2. \A p \in Callers : CallTruthful(adapterCalls[p])'
    BY <1>1, Zenon DEF adapterVars, AdapterInv, CallTruthful, FoundIDs
  <2> QED BY <1>1, <2>1, <2>2, Zenon DEF adapterVars, AdapterInv
<1>2. CASE Adapter!Next
  BY <1>2, EngineSteps, BeginStep, LockStep, NegotiateStep, ResolveStep, AnsweredSteps, RestartStep
     DEF Adapter!Next, Adapter!Answer
<1> QED BY <1>1, <1>2

\* The adapter, for any number of goroutines, containers and operations: the API
\* version is negotiated once and before other requests, Execute restarts exactly
\* the container that it resolved, and its result says so.
THEOREM AdapterStaysSound == RemedySpec => []AdapterSound
<1>1. RemedyInit => AdapterInv
  BY AdapterInit DEF RemedyInit
<1>2. AdapterInv /\ [RemedyNext]_remedyVars => AdapterInv'
  BY AdapterStepSound DEF RemedyNext, ClientStep, AdapterStep, remedyVars
<1>3. AdapterInv => AdapterSound
  <2> SUFFICES ASSUME AdapterInv PROVE AdapterSound
    OBVIOUS
  <2>1. Adapter!TypeOK
    BY DEF AdapterInv, EngineInv, MutexInv, AdapterCall, Requests, Adapter!TypeOK, Adapter!At
  <2>2. Adapter!NegotiatedOnceBefore
    BY DEF AdapterInv, MutexInv, Requests, Adapter!NegotiatedOnceBefore
  <2>3. Adapter!RestartsTheResolved /\ Adapter!ResultTruthful
    BY DEF AdapterInv, CallTruthful, FoundIDs, Adapter!RestartsTheResolved, Adapter!ResultTruthful,
       Adapter!At
  <2> QED BY <2>1, <2>2, <2>3 DEF AdapterSound
<1> QED BY <1>1, <1>2, <1>3, PTL DEF RemedySpec
=============================================================================
