------------------------ MODULE ConnectorPair_proofs ------------------------
(***************************************************************************)
(* Proofs about ConnectorPair for any number of requests, any calls and    *)
(* any two configurations.  PairInv is inductive on its own; with it every *)
(* step of the pair is a step of the server connector or leaves it alone,  *)
(* and every step of the client connector is one of the policy gate it is  *)
(* towards the server connector.                                           *)
(***************************************************************************)
EXTENDS ConnectorPair, TLAPS

ClientShape ==
    /\ cst \in [Requests -> Client!States] /\ st \in [Requests -> States]
    /\ DOMAIN clog = Requests /\ DOMAIN csent = Requests
    /\ DOMAIN cwire = Requests /\ DOMAIN ccall = Requests /\ DOMAIN input = Requests

\* What PairInv says about the log of one request.
ClientLogInv(q) ==
    /\ clog[q] # None <=> cst[q] = "done"
    /\ \A e \in clog[q] :
        /\ e = LogEntry(e.problem)
        /\ e.outcome = "forwarded" => st[q] = "done"
        /\ (e.outcome = "denied" /\ e.problem.kind # "RequestTimeout") => csent[q] = None

\* What it says about its message.
ClientMessageInv(q) ==
    /\ ccall[q] \subseteq Calls /\ (ccall[q] = None <=> cst[q] = "new")
    /\ \A c, d \in ccall[q] : c = d
    /\ cst[q] = "body" => Client!ClientProblem(The(ccall[q])) = NoProblem
    /\ csent[q] = None <=> cwire[q] = "none"
    /\ cst[q] \in {"new", "queued", "handling", "body"} => csent[q] = None
    /\ cst[q] \in {"sending", "reading"} => csent[q] # None
    /\ \A m \in csent[q] : m = Client!ClientMessage(The(ccall[q])) /\ Sendable(The(ccall[q]))
    /\ \A in \in input[q] : in.headers = Client!ClientMessage(The(ccall[q])).headers
    /\ \A in \in input[q] : in.path = Client!ClientMessage(The(ccall[q])).path
    /\ input[q] # None => csent[q] # None
    /\ input[q] = None <=> st[q] = "new"
    /\ cwire[q] = "received" <=> st[q] # "new"
    /\ cst[q] = "reading" => st[q] = "done"

ClientInv(q) == ClientMessageInv(q) /\ ClientLogInv(q)

\* One request changes its state at the client connector.
ClientMovesTo(q, s) == cst' = [cst EXCEPT ![q] = s]

\* Nothing that ClientInv mentions changes for this request.
ClientUntouched(r) ==
    /\ cst'[r] = cst[r] /\ clog'[r] = clog[r] /\ csent'[r] = csent[r]
    /\ cwire'[r] = cwire[r] /\ ccall'[r] = ccall[r] /\ st'[r] = st[r] /\ input'[r] = input[r]

(* A log entry tells failures from refusals by the kind of the problem, in *)
(* both connectors.                                                        *)
LEMMA EntryOutcome ==
    ASSUME NEW problem
    PROVE  /\ LogEntry(problem).problem = problem
           /\ LogEntry(problem).outcome \in Outcomes
           /\ LogEntry(problem).outcome = "forwarded" <=> problem = NoProblem
           /\ problem = Problem("UpstreamUnavailable") => LogEntry(problem).outcome = "failed"
<1>1. CASE problem = NoProblem
  BY <1>1, Zenon DEF LogEntry, Outcomes, NoProblem, Problem
<1>2. CASE problem # NoProblem
  <2>1. AuditOutcome(problem) \in {"failed", "denied"}
    BY DEF AuditOutcome
  <2>2. problem = Problem("UpstreamUnavailable") => AuditOutcome(problem) = "failed"
    <3>1. Status(Problem("UpstreamUnavailable")) = 502
      BY DEF Status, Problem
    <3>2. QED
      BY <3>1 DEF AuditOutcome
  <2>3. QED
    BY <1>2, <2>1, <2>2 DEF LogEntry, Outcomes
<1>3. QED
  BY <1>1, <1>2

(* The instance of ClientConnector has its own copies of the problem       *)
(* vocabulary; they are the same.                                          *)
LEMMA ClientVocabulary ==
    /\ Client!NoProblem = NoProblem /\ Client!None = None
    /\ \A v : Client!Some(v) = Some(v)
    /\ \A v : Client!The(v) = The(v)
    /\ \A kind : Client!Problem(kind) = Problem(kind)
    /\ \A p : Client!LogEntry(p) = LogEntry(p)
<1>1. /\ Client!NoProblem = NoProblem /\ Client!None = None
      /\ \A v : Client!Some(v) = Some(v)
      /\ \A v : Client!The(v) = The(v)
      /\ \A kind : Client!Problem(kind) = Problem(kind)
  BY Zenon DEF Client!NoProblem, NoProblem, Client!Problem, Problem, Client!Some, Some,
               Client!The, The, Client!None, None
<1>2. ASSUME NEW p PROVE Client!Status(p) = Status(p)
  BY Zenon DEF Client!Status, Status, Client!IdentityKinds, IdentityKinds
<1>3. ASSUME NEW p PROVE Client!AuditOutcome(p) = AuditOutcome(p)
  BY <1>2 DEF Client!AuditOutcome, AuditOutcome
<1>4. ASSUME NEW p PROVE Client!DenialStage(p) = DenialStage(p)
  BY Zenon DEF Client!DenialStage, DenialStage, Client!IdentityKinds, IdentityKinds,
               Client!PurposeKinds, PurposeKinds, Client!FailureKinds, FailureKinds
<1>5. ASSUME NEW p PROVE Client!LogEntry(p) = LogEntry(p)
  BY <1>1, <1>3, <1>4, Zenon DEF Client!LogEntry, LogEntry
<1>6. QED
  BY <1>1, <1>5

(* The parts make up the invariant.                                        *)
LEMMA PairInvParts == PairInv <=> ClientShape /\ \A r \in Requests : ClientInv(r)
  BY DEF PairInv, ClientShape, ClientInv, ClientMessageInv, ClientLogInv

(* A step that changes one request keeps the invariant if it does for that *)
(* request.                                                                *)
LEMMA PairStepKeepsInv ==
    ASSUME PairInv, NEW q \in Requests, ClientShape', ClientInv(q)',
           \A r \in Requests \ {q} : ClientUntouched(r)
    PROVE  PairInv'
<1>1. \A r \in Requests : ClientInv(r)
  BY PairInvParts
<1>2. ASSUME NEW r \in Requests \ {q} PROVE ClientInv(r)'
  <2>0. ClientMessageInv(r)
    BY <1>1, <1>2 DEF ClientInv
  <2>1. ClientMessageInv(r)'
    BY <2>0, <1>2 DEF ClientUntouched, ClientMessageInv
  <2>2. ClientLogInv(r)'
    BY <1>1, <1>2 DEF ClientUntouched, ClientInv, ClientLogInv
  <2>3. QED
    BY <2>1, <2>2 DEF ClientInv
<1>3. (ClientShape /\ \A r \in Requests : ClientInv(r))' => PairInv'
  BY PairInvParts, PTL
<1>4. QED
  BY <1>2, <1>3

(* An answer of the client connector (the end of proxy_handler) keeps the  *)
(* invariant when the problem fits what became of the message.             *)
LEMMA ClientAnswerKeepsInv ==
    ASSUME PairInv, NEW q \in Requests, NEW problem, Client!Answer(q, problem), UNCHANGED vars,
           cst[q] \in Client!Held,
           \/ csent[q] = None /\ problem # NoProblem
           \/ problem = NoProblem /\ cst[q] = "reading"
           \/ problem = Problem("UpstreamUnavailable")
           \/ problem.kind = "RequestTimeout" /\ problem # NoProblem
    PROVE  PairInv'
<1>1. ClientShape /\ ClientInv(q)
  BY PairInvParts
<1>2. /\ cst' = [cst EXCEPT ![q] = "done"] /\ clog' = [clog EXCEPT ![q] = Some(LogEntry(problem))]
      /\ csent' = csent /\ cwire' = cwire /\ ccall' = ccall /\ st' = st /\ input' = input
  BY ClientVocabulary, Zenon DEF Client!Answer, Client!Move, Client!request, vars, request
<1>3. ClientShape'
  BY <1>1, <1>2 DEF ClientShape, Client!States, Client!Ended
<1>4. cst'[q] = "done" /\ clog'[q] = {LogEntry(problem)}
  BY <1>1, <1>2 DEF ClientShape, Some
<1>5. ClientMessageInv(q)'
  BY <1>1, <1>2, <1>4 DEF ClientInv, ClientMessageInv, Client!Held, Client!AtAwait
<1>6. ClientLogInv(q)'
  <2>1. /\ LogEntry(problem).problem = problem
        /\ LogEntry(problem).outcome = "forwarded" <=> problem = NoProblem
        /\ problem = Problem("UpstreamUnavailable") => LogEntry(problem).outcome = "failed"
    BY EntryOutcome
  <2>2. problem = NoProblem => LogEntry(problem).outcome # "denied"
    BY <2>1
  <2>3. Problem("UpstreamUnavailable") # NoProblem
    BY Zenon DEF NoProblem, Problem
  <2>4. cst[q] = "reading" => st'[q] = "done"
    BY <1>1, <1>2 DEF ClientInv, ClientMessageInv
  <2>5. csent'[q] = csent[q]
    BY <1>2
  <2>6. QED
    BY <1>4, <2>1, <2>2, <2>3, <2>4, <2>5 DEF ClientLogInv, None
<1>7. \A r \in Requests \ {q} : ClientUntouched(r)
  BY <1>1, <1>2 DEF ClientUntouched, ClientShape
<1>8. QED
  BY <1>3, <1>5, <1>6, <1>7, PairStepKeepsInv DEF ClientInv

-----------------------------------------------------------------------------
\* No step of a server handler makes a request new or reopens one that ended.
ServerMoves(q) ==
    \/ st' = st
    \/ st[q] \notin {"new", "done"} /\ \E s \in States \ {"new"} : st' = [st EXCEPT ![q] = s]

(* A step of the server connector other than the arrival of a request      *)
(* moves one request on and leaves its input alone.                        *)
LEMMA ServerStepMoves ==
    ASSUME NEW q \in Requests, ServerStep(q)
    PROVE  ServerMoves(q) /\ input' = input /\ UNCHANGED cvars
<1> USE DEF ServerMoves, Answer, States, Held, AtAwait, Ended, request
<1>1. UNCHANGED cvars
  BY DEF ServerStep
<1>2. CASE Admit(q)
  BY <1>1, <1>2, Zenon DEF Admit
<1>3. CASE Judge(q)
  BY <1>1, <1>3 DEF Judge
<1>4. CASE TakeSlot(q)
  BY <1>1, <1>4 DEF TakeSlot
<1>5. CASE CredentialFails(q) \/ BodyFails(q) \/ BodyArrives(q)
  BY <1>1, <1>5 DEF CredentialFails, BodyFails, BodyArrives
<1>6. CASE Upstream(q)
  BY <1>1, <1>6 DEF Upstream, RelayReceives, RelayAnswers, ResponseRead, UpstreamFails
<1>7. CASE Timers(q)
  BY <1>1, <1>7 DEF Timers, UpstreamExpires, RequestExpires
<1>8. CASE Disconnect(q)
  BY <1>1, <1>8, Zenon DEF Disconnect
<1>9. QED
  BY <1>2, <1>3, <1>4, <1>5, <1>6, <1>7, <1>8 DEF ServerStep, Handler

(* Such a step keeps the invariant of the pair.                            *)
LEMMA ServerStepKeepsInv ==
    ASSUME PairInv, NEW q \in Requests, ServerStep(q)
    PROVE  PairInv'
<1>1. ClientShape /\ ClientInv(q)
  BY PairInvParts
<1>2. ServerMoves(q) /\ input' = input /\ UNCHANGED cvars
  BY ServerStepMoves
<1>3. /\ cst' = cst /\ clog' = clog /\ csent' = csent /\ cwire' = cwire
      /\ ccall' = ccall /\ input' = input
  BY <1>2 DEF cvars
<1>4. /\ st' \in [Requests -> States]
      /\ st'[q] = "new" <=> st[q] = "new"
      /\ st[q] = "done" => st'[q] = "done"
      /\ \A r \in Requests \ {q} : st'[r] = st[r]
  BY <1>1, <1>2 DEF ServerMoves, ClientShape
<1>5. ClientShape'
  BY <1>1, <1>3, <1>4 DEF ClientShape
<1>6. ClientInv(q)'
  BY <1>1, <1>3, <1>4 DEF ClientInv, ClientMessageInv, ClientLogInv
<1>7. \A r \in Requests \ {q} : ClientUntouched(r)
  BY <1>3, <1>4 DEF ClientUntouched
<1>8. QED
  BY <1>5, <1>6, <1>7, PairStepKeepsInv

-----------------------------------------------------------------------------
(* A client handler that moves on without a message or an answer.          *)
LEMMA ClientMoveKeepsInv ==
    ASSUME PairInv, NEW q \in Requests, NEW s \in Client!States, ClientMovesTo(q, s),
           UNCHANGED <<st, input, clog, csent, cwire, ccall>>,
           cst[q] \notin {"new", "done"}, s \notin {"new", "done"},
           s \in {"queued", "handling", "body"} => csent[q] = None,
           s \in {"sending", "reading"} => csent[q] # None,
           s = "body" => Client!ClientProblem(The(ccall[q])) = NoProblem,
           s = "reading" => st[q] = "done"
    PROVE  PairInv'
<1>1. ClientShape /\ ClientInv(q)
  BY PairInvParts
<1>2. cst'[q] = s /\ \A r \in Requests \ {q} : cst'[r] = cst[r]
  BY <1>1 DEF ClientShape, ClientMovesTo
<1>3. ClientShape'
  BY <1>1 DEF ClientShape, ClientMovesTo
<1>4. ClientInv(q)'
  BY <1>1, <1>2, Zenon DEF ClientInv, ClientMessageInv, ClientLogInv
<1>5. \A r \in Requests \ {q} : ClientUntouched(r)
  BY <1>2 DEF ClientUntouched
<1>6. QED
  BY <1>3, <1>4, <1>5, PairStepKeepsInv

(* A caller's request arrives at the client connector.                     *)
LEMMA CallerStepKeepsInv ==
    ASSUME PairInv, NEW q \in Requests, CallerStep(q)
    PROVE  PairInv'
<1>1. ClientShape /\ ClientInv(q)
  BY PairInvParts
<1> PICK c \in Calls : Client!Arrive(q, c) /\ UNCHANGED vars
  BY DEF CallerStep
<1>2. /\ cst[q] = "new" /\ cst' = [cst EXCEPT ![q] = "queued"]
      /\ ccall' = [ccall EXCEPT ![q] = {c}]
      /\ clog' = clog /\ csent' = csent /\ cwire' = cwire /\ st' = st /\ input' = input
  BY DEF Client!Arrive, Client!Move, Client!Some, vars, request
<1>3. ClientShape'
  BY <1>1, <1>2 DEF ClientShape, Client!States
<1>4. cst'[q] = "queued" /\ ccall'[q] = {c} /\ csent[q] = None /\ input[q] = None
  BY <1>1, <1>2, Zenon DEF ClientShape, ClientInv, ClientMessageInv
<1>5. ClientInv(q)'
  BY <1>1, <1>2, <1>4, Zenon DEF ClientInv, ClientMessageInv, ClientLogInv, None
<1>6. \A r \in Requests \ {q} : ClientUntouched(r)
  BY <1>1, <1>2, Zenon DEF ClientUntouched, ClientShape
<1>7. QED
  BY <1>3, <1>5, <1>6, PairStepKeepsInv

(* A client handler hands its message to the HTTP client.                  *)
LEMMA ClientSendKeepsInv ==
    ASSUME PairInv, NEW q \in Requests, Client!BodyArrives(q), UNCHANGED vars
    PROVE  PairInv'
<1>1. ClientShape /\ ClientInv(q)
  BY PairInvParts
<1>0. /\ Client!The(ccall[q]) = The(ccall[q])
      /\ Client!Some(Client!ClientMessage(The(ccall[q]))) = {Client!ClientMessage(The(ccall[q]))}
  BY ClientVocabulary DEF Some
<1>2. /\ cst[q] = "body" /\ ~Client!Unencodable(The(ccall[q]))
      /\ cst' = [cst EXCEPT ![q] = "sending"]
      /\ csent' = [csent EXCEPT ![q] = {Client!ClientMessage(The(ccall[q]))}]
      /\ cwire' = [cwire EXCEPT ![q] = "flying"]
      /\ clog' = clog /\ ccall' = ccall /\ st' = st /\ input' = input
  BY <1>0 DEF Client!BodyArrives, Client!Move, vars, request
<1>3. ClientShape'
  BY <1>1, <1>2 DEF ClientShape, Client!States, Client!Held, Client!AtAwait
<1>4. /\ cst'[q] = "sending" /\ cwire'[q] = "flying"
      /\ csent'[q] = {Client!ClientMessage(The(ccall[q]))}
  BY <1>1, <1>2 DEF ClientShape
<1>5. Sendable(The(ccall[q])) /\ csent[q] = None /\ input[q] = None /\ st[q] = "new"
  BY <1>1, <1>2 DEF ClientInv, ClientMessageInv, Sendable
<1>6. ClientInv(q)'
  <2>1. ClientMessageInv(q)'
    BY <1>1, <1>2, <1>4, <1>5, Zenon DEF ClientInv, ClientMessageInv, None, Sendable
  <2>2. ClientLogInv(q)'
    BY <1>1, <1>2, <1>4, Zenon DEF ClientInv, ClientLogInv, None
  <2>3. QED
    BY <2>1, <2>2 DEF ClientInv
<1>7. \A r \in Requests \ {q} : ClientUntouched(r)
  BY <1>1, <1>2, Zenon DEF ClientUntouched, ClientShape
<1>8. QED
  BY <1>3, <1>6, <1>7, PairStepKeepsInv

(* Every step of a client handler, its timers and its caller.              *)
LEMMA ClientStepKeepsInv ==
    ASSUME PairInv, NEW q \in Requests, ClientStep(q)
    PROVE  PairInv'
<1>1. ClientShape /\ ClientInv(q) /\ UNCHANGED vars /\ UNCHANGED <<st, input>>
  BY PairInvParts DEF ClientStep, vars, request
<1>2. \A kind : Client!Problem(kind) = Problem(kind)
  BY ClientVocabulary
<1>3. CASE Client!Admit(q)
  <2>1. /\ cst[q] = "queued" /\ ClientMovesTo(q, "handling")
        /\ UNCHANGED <<clog, csent, cwire, ccall>>
    BY <1>3 DEF Client!Admit, Client!Move, ClientMovesTo
  <2>2. csent[q] = None /\ "handling" \in Client!States
    BY <1>1, <2>1 DEF ClientInv, ClientMessageInv, Client!States, Client!Held
  <2>3. QED
    BY <1>1, <2>1, <2>2, ClientMoveKeepsInv
<1>4. CASE Client!Judge(q)
  <2> DEFINE problem == Client!ClientProblem(The(ccall[q]))
  <2>1. Client!The(ccall[q]) = The(ccall[q]) /\ Client!NoProblem = NoProblem
    BY ClientVocabulary
  <2>2. cst[q] = "handling" /\ csent[q] = None
    BY <1>1, <1>4 DEF Client!Judge, ClientInv, ClientMessageInv
  <2>3. CASE problem = NoProblem
    <3>1. ClientMovesTo(q, "body") /\ UNCHANGED <<clog, csent, cwire, ccall>>
      BY <1>4, <2>1, <2>3 DEF Client!Judge, Client!Move, Client!request, ClientMovesTo
    <3>2. "body" \in Client!States
      BY DEF Client!States, Client!Held, Client!AtAwait
    <3> HIDE DEF problem
    <3>3. QED
      BY <1>1, <2>2, <2>3, <3>1, <3>2, ClientMoveKeepsInv, Zenon DEF problem
  <2>4. CASE problem # NoProblem
    <3>1. Client!Answer(q, problem)
      BY <1>4, <2>1, <2>4 DEF Client!Judge
    <3>2. cst[q] \in Client!Held
      BY <2>2 DEF Client!Held
    <3> HIDE DEF problem
    <3>3. QED
      BY <1>1, <2>2, <2>4, <3>1, <3>2, ClientAnswerKeepsInv, Zenon
  <2>5. QED
    BY <2>3, <2>4
<1>5. CASE Client!BodyArrives(q)
  BY <1>1, <1>5, ClientSendKeepsInv
<1>6. CASE Client!HeaderFails(q) \/ Client!BodyFails(q)
  <2>1. PICK kind \in {"ConfigInvalid", "BodyTooLarge"} : Client!Answer(q, Problem(kind))
    BY <1>2, <1>6 DEF Client!HeaderFails, Client!BodyFails
  <2>2. cst[q] = "body"
    BY <1>6 DEF Client!HeaderFails, Client!BodyFails
  <2>3. csent[q] = None /\ cst[q] \in Client!Held
    BY <1>1, <2>2 DEF ClientInv, ClientMessageInv, Client!Held, Client!AtAwait
  <2>4. Problem(kind) # NoProblem
    BY Zenon DEF Problem, NoProblem
  <2>5. QED
    BY <1>1, <2>1, <2>3, <2>4, ClientAnswerKeepsInv
<1>7. CASE Client!ResponseRead(q)
  <2>1. cst[q] = "reading" /\ Client!Answer(q, NoProblem)
    BY <1>7, ClientVocabulary DEF Client!ResponseRead
  <2>2. cst[q] \in Client!Held
    BY <2>1 DEF Client!Held, Client!AtAwait
  <2>3. QED
    BY <1>1, <2>1, <2>2, ClientAnswerKeepsInv
<1>8. CASE Client!UpstreamFails(q) \/ Client!UpstreamExpires(q)
  <2>1. cst[q] \in {"sending", "reading"} /\ Client!Answer(q, Problem("UpstreamUnavailable"))
    BY <1>2, <1>8 DEF Client!UpstreamFails, Client!UpstreamExpires
  <2>2. cst[q] \in Client!Held
    BY <2>1 DEF Client!Held, Client!AtAwait
  <2>3. QED
    BY <1>1, <2>1, <2>2, ClientAnswerKeepsInv
<1>9. CASE Client!RequestExpires(q)
  <2>1. cst[q] \in Client!AtAwait /\ Client!Answer(q, Problem("RequestTimeout"))
    BY <1>2, <1>9 DEF Client!RequestExpires
  <2>2. cst[q] \in Client!Held
    BY <2>1 DEF Client!Held
  <2>3. Problem("RequestTimeout").kind = "RequestTimeout" /\ Problem("RequestTimeout") # NoProblem
    BY Zenon DEF Problem, NoProblem
  <2>4. QED
    BY <1>1, <2>1, <2>2, <2>3, ClientAnswerKeepsInv
<1>10. CASE Client!Disconnect(q)
  <2>1. /\ cst[q] \in Client!AtAwait \cup {"queued"} /\ ClientMovesTo(q, "dropped")
        /\ UNCHANGED <<clog, csent, cwire, ccall>>
    BY <1>10 DEF Client!Disconnect, Client!Move, Client!request, ClientMovesTo
  <2>2. cst[q] \notin {"new", "done"} /\ "dropped" \in Client!States
    BY <2>1 DEF Client!AtAwait, Client!States, Client!Ended
  <2>3. QED
    BY <1>1, <2>1, <2>2, ClientMoveKeepsInv
<1>11. QED
  BY <1>3, <1>4, <1>5, <1>6, <1>7, <1>8, <1>9, <1>10
     DEF ClientStep, Client!Local, Client!Handler, Client!Timers

(* A message of the client connector becomes a request of the server.      *)
LEMMA DeliverKeepsInv ==
    ASSUME PairInv, NEW q \in Requests, Deliver(q)
    PROVE  PairInv' /\ \E in \in Inputs : Arrive(q, in)
<1>1. ClientShape /\ ClientInv(q)
  BY PairInvParts
<1>2. PICK m \in csent[q], body \in {"arrives", "stalls"} : Arrive(q, Received(m, body))
  BY DEF Deliver
<1>3. m = Client!ClientMessage(The(ccall[q])) /\ Sendable(The(ccall[q])) /\ csent[q] # None
  BY <1>1, <1>2, Zenon DEF ClientInv, ClientMessageInv, None
<1>4. The(ccall[q]) \in Calls
  <2>1. cst[q] # "new"
    BY <1>1, <1>3, Zenon DEF ClientInv, ClientMessageInv
  <2>2. ccall[q] # {} /\ ccall[q] \subseteq Calls
    BY <1>1, <2>1, Zenon DEF ClientInv, ClientMessageInv, None
  <2>3. QED
    BY <2>2 DEF The
<1>5. Received(m, body) \in Inputs
  BY <1>2, <1>3, <1>4, InputsAssumption DEF Sendable
<1>6. /\ st[q] = "new" /\ st' = [st EXCEPT ![q] = "queued"]
      /\ input' = [input EXCEPT ![q] = {Received(m, body)}]
  BY <1>2 DEF Arrive, Some
<1>7. /\ cwire[q] = "flying" /\ cwire' = [cwire EXCEPT ![q] = "received"]
      /\ cst' = cst /\ clog' = clog /\ csent' = csent /\ ccall' = ccall
  BY DEF Deliver, Client!ServerReceives, Client!request
<1>8. Received(m, body).headers = m.headers /\ Received(m, body).path = m.path
  BY DEF Received
<1>9. ClientShape'
  BY <1>1, <1>6, <1>7 DEF ClientShape, States
<1>10. /\ st'[q] = "queued" /\ cwire'[q] = "received" /\ input'[q] = {Received(m, body)}
       /\ \A r \in Requests \ {q} : ClientUntouched(r)
  BY <1>1, <1>6, <1>7 DEF ClientShape, ClientUntouched
<1>11. ClientInv(q)'
  <2>1. ClientMessageInv(q)'
    <3>1. \A in \in input'[q] : /\ in.headers = Client!ClientMessage(The(ccall'[q])).headers
                               /\ in.path = Client!ClientMessage(The(ccall'[q])).path
      BY <1>3, <1>7, <1>8, <1>10, Zenon
    <3>2. /\ csent'[q] = csent[q] /\ csent[q] # None /\ cst'[q] = cst[q] /\ ccall'[q] = ccall[q]
          /\ cwire[q] # "none" /\ cwire'[q] = "received" /\ cst[q] # "reading"
      BY <1>1, <1>3, <1>6, <1>7, <1>10, Zenon DEF ClientInv, ClientMessageInv
    <3>3. input'[q] # None /\ st'[q] # "new"
      BY <1>10, Zenon DEF None
    <3>4. QED
      BY <1>1, <1>10, <3>1, <3>2, <3>3, Zenon DEF ClientInv, ClientMessageInv
  <2>2. ClientLogInv(q)'
    BY <1>1, <1>6, <1>7, <1>10, Zenon DEF ClientInv, ClientLogInv
  <2>3. QED
    BY <2>1, <2>2 DEF ClientInv
<1>12. QED
  BY <1>2, <1>5, <1>9, <1>10, <1>11, PairStepKeepsInv

(* The answer of the server connector reaches the client connector.        *)
LEMMA ReplyKeepsInv ==
    ASSUME PairInv, NEW q \in Requests, Reply(q)
    PROVE  PairInv'
<1>1. /\ st[q] = "done" /\ cst[q] = "sending" /\ cwire[q] = "received"
      /\ ClientMovesTo(q, "reading")
      /\ UNCHANGED <<st, input, clog, csent, cwire, ccall>>
  <2>1. st[q] = "done" /\ Client!ServerAnswers(q) /\ UNCHANGED <<st, input>>
    BY DEF Reply, vars, request
  <2>2. QED
    BY <2>1 DEF Client!ServerAnswers, Client!Move, Client!request, ClientMovesTo
<1>2. csent[q] # None /\ "reading" \in Client!States
  BY <1>1, PairInvParts, Zenon DEF ClientInv, ClientMessageInv, Client!States, Client!Held, Client!AtAwait
<1>3. QED
  BY <1>1, <1>2, ClientMoveKeepsInv, Zenon

-----------------------------------------------------------------------------
(* The invariant of the pair holds however the steps of callers, network,  *)
(* Relay and the two connectors interleave.                                *)
THEOREM PairInvariant == PairSpec => []PairInv
<1>1. PairInit => PairInv
  <2>1. SUFFICES ASSUME PairInit PROVE ClientShape /\ \A r \in Requests : ClientInv(r)
    BY PairInvParts
  <2>2. ClientShape
    BY <2>1 DEF PairInit, Init, Client!Init, ClientShape, States, Client!States
  <2>3. ASSUME NEW r \in Requests PROVE ClientInv(r)
    BY <2>1, Zenon DEF PairInit, Init, Client!Init, ClientInv, ClientMessageInv, ClientLogInv,
                None, Client!None
  <2>4. QED
    BY <2>2, <2>3
<1>2. PairInv /\ [PairNext]_pairvars => PairInv'
  <2>1. SUFFICES ASSUME PairInv, [PairNext]_pairvars PROVE PairInv'
    OBVIOUS
  <2>2. CASE \/ UNCHANGED pairvars \/ PairFinished \/ (Tick /\ UNCHANGED cvars)
    <3>1. UNCHANGED <<st, input, cst, clog, csent, cwire, ccall>>
      BY <2>2, Zenon DEF PairFinished, Tick, pairvars, cvars, vars, request
    <3>2. ClientShape /\ \A r \in Requests : ClientInv(r)
      BY <2>1, PairInvParts
    <3>3. ClientShape'
      BY <3>1, <3>2, Zenon DEF ClientShape
    <3>4. ASSUME NEW r \in Requests PROVE ClientInv(r)'
      <4>1. ClientMessageInv(r)'
        BY <3>1, <3>2, Zenon DEF ClientInv, ClientMessageInv
      <4>2. ClientLogInv(r)'
        BY <3>1, <3>2 DEF ClientInv, ClientLogInv
      <4>3. QED
        BY <4>1, <4>2 DEF ClientInv
    <3>5. (ClientShape /\ \A r \in Requests : ClientInv(r))' => PairInv'
      BY PairInvParts, PTL
    <3>6. QED
      BY <3>3, <3>4, <3>5
  <2>3. ASSUME NEW q \in Requests,
               CallerStep(q) \/ ClientStep(q) \/ Deliver(q) \/ Reply(q) \/ ServerStep(q)
        PROVE  PairInv'
    BY <2>1, <2>3, CallerStepKeepsInv, ClientStepKeepsInv, DeliverKeepsInv, ReplyKeepsInv,
       ServerStepKeepsInv
  <2>4. QED
    BY <2>1, <2>2, <2>3 DEF PairNext
<1>3. QED
  BY <1>1, <1>2, PTL DEF PairSpec

(* The pair implements the server connector: the client connector is to it *)
(* a caller like any other, and every theorem about the server connector   *)
(* holds in the pair.                                                      *)
THEOREM PairImplementsServer == PairSpec => Spec
<1>1. PairInit => Init
  BY DEF PairInit
<1>2. PairInv /\ [PairNext]_pairvars => [Next]_vars
  <2>1. SUFFICES ASSUME PairInv, [PairNext]_pairvars PROVE [Next]_vars
    OBVIOUS
  <2>2. CASE UNCHANGED pairvars \/ PairFinished
    BY <2>2 DEF PairFinished, pairvars
  <2>3. CASE Tick
    BY <2>3 DEF Next
  <2>4. ASSUME NEW q \in Requests, CallerStep(q) \/ ClientStep(q) \/ Reply(q)
        PROVE  UNCHANGED vars
    BY <2>4 DEF CallerStep, ClientStep, Reply
  <2>5. ASSUME NEW q \in Requests, Deliver(q) PROVE Next
    BY <2>1, <2>5, DeliverKeepsInv DEF Next
  <2>6. ASSUME NEW q \in Requests, ServerStep(q) PROVE Next
    BY <2>6 DEF ServerStep, Next
  <2>7. QED
    BY <2>1, <2>2, <2>3, <2>4, <2>5, <2>6 DEF PairNext
<1>3. QED
  BY <1>1, <1>2, PairInvariant, PTL DEF PairSpec, Spec

(* The two log lines of a request carry the same id: the id a connector    *)
(* generates is one the other accepts, and an unusable id of the caller is *)
(* replaced before it is passed on (proxy.rs:1038).                        *)
THEOREM LogsShareRequestIdHolds == PairSpec => []LogsShareRequestId
<1>1. PairInv => LogsShareRequestId
  <2>1. SUFFICES ASSUME PairInv, NEW q \in Requests, NEW in \in input[q]
                 PROVE  Client!RequestId(in.headers.request_id, "server")
                           = Client!RequestId(The(ccall[q]).headers.request_id, "client")
    BY DEF LogsShareRequestId
  <2> DEFINE d == The(ccall[q])
             id == Client!RequestId(d.headers.request_id, "client")
  <2>2. d \in Calls
    <3>1. ccall[q] # {} /\ ccall[q] \subseteq Calls
      BY <2>1, Zenon DEF PairInv, None
    <3>2. QED
      BY <3>1 DEF The
  <2>3. in.headers = Client!ClientMessage(d).headers
    BY <2>1, Zenon DEF PairInv
  <2>4. in.headers.request_id = {id}
    <3>1. Client!ClientMessage(d).headers = Client!ForwardedHeaders(d)
      BY Zenon DEF Client!ClientMessage
    <3>2. "request_id" \in DOMAIN d.headers
      BY <2>2, CallsAssumption
    <3>3. Client!ForwardedId(d) = {id}
      BY DEF Client!ForwardedId, Client!Some
    <3> HIDE DEF d, id
    <3>4. Client!ForwardedHeaders(d).request_id = Client!ForwardedId(d)
      BY <3>2 DEF Client!ForwardedHeaders
    <3>5. QED
      BY <2>3, <3>1, <3>3, <3>4
  <2>5. Client!ValidRequestId(id)
    BY DEF Client!RequestId, Client!ValidRequestId
  <2>6. QED
    BY <2>2, <2>4, <2>5, Zenon DEF Client!RequestId
<1>2. QED
  BY <1>1, PairInvariant, PTL

-----------------------------------------------------------------------------
\* What PolicyGate sees of the client connector.
ClientCleared == {r \in Requests : csent[r] # None}
ClientDelivered == {r \in Requests : cwire[r] = "received"}
ClientOutcome == [r \in Requests |-> Client!GateOutcome(r)]

(* The gate of the client connector shows a request as open until its      *)
(* handler answers or is dropped.                                          *)
LEMMA ClientGateOpen ==
    ASSUME NEW q \in Requests, ClientInv(q), cst[q] \notin {"done", "dropped"}
    PROVE  Client!GateOutcome(q) = "open"
  BY ClientVocabulary, Zenon DEF ClientInv, ClientLogInv, Client!GateOutcome

(* A step on one request changes no other outcome.                         *)
LEMMA ClientOutcomeStep ==
    ASSUME NEW q \in Requests,
           \A r \in Requests \ {q} : cst'[r] = cst[r] /\ clog'[r] = clog[r]
    PROVE  ClientOutcome' = [ClientOutcome EXCEPT ![q] = Client!GateOutcome(q)']
<1>1. \A r \in Requests \ {q} : Client!GateOutcome(r)' = Client!GateOutcome(r)
  BY DEF Client!GateOutcome
<1>2. QED
  BY <1>1, Zenon DEF ClientOutcome

(* An end of a request is a Refuse, a Succeed or a GiveUp of the gate.     *)
LEMMA ClientEndIsGateStep ==
    ASSUME NEW q \in Requests, Client!GateOutcome(q) = "open",
           ClientOutcome' = [ClientOutcome EXCEPT ![q] = Client!GateOutcome(q)'],
           UNCHANGED <<csent, cwire>>,
           Client!GateOutcome(q)' \in {"failed", "timed_out", "dropped", "denied", "forwarded"},
           Client!GateOutcome(q)' = "denied" => csent[q] = None,
           Client!GateOutcome(q)' = "forwarded" => cwire[q] = "received"
    PROVE  Client!Gate!Next
<1>1. UNCHANGED <<ClientCleared, ClientDelivered>>
  BY DEF ClientCleared, ClientDelivered
<1>2. /\ q \in ClientCleared <=> csent[q] # None
      /\ q \in ClientDelivered <=> cwire[q] = "received"
      /\ ClientOutcome[q] = "open"
  BY DEF ClientCleared, ClientDelivered, ClientOutcome
<1>3. CASE Client!GateOutcome(q)' \in {"failed", "timed_out", "dropped"}
  <2>1. Client!Gate!GiveUp(q)
    BY <1>1, <1>2, <1>3, Zenon DEF Client!Gate!GiveUp, Client!Gate!Open, Client!Gate!End,
       ClientCleared, ClientDelivered, ClientOutcome
  <2>2. QED
    BY <2>1 DEF Client!Gate!Next
<1>4. CASE Client!GateOutcome(q)' = "denied"
  <2>1. Client!Gate!Refuse(q)
    BY <1>1, <1>2, <1>4, ClientVocabulary DEF Client!Gate!Refuse, Client!Gate!Open, Client!Gate!End,
       ClientCleared, ClientDelivered, ClientOutcome
  <2>2. QED
    BY <2>1 DEF Client!Gate!Next
<1>5. CASE Client!GateOutcome(q)' = "forwarded"
  <2>1. Client!Gate!Succeed(q)
    BY <1>1, <1>2, <1>5 DEF Client!Gate!Succeed, Client!Gate!Open, Client!Gate!End,
       ClientCleared, ClientDelivered, ClientOutcome
  <2>2. QED
    BY <2>1 DEF Client!Gate!Next
<1>6. QED
  BY <1>3, <1>4, <1>5

(* An answer of the client connector ends the request at the gate.         *)
LEMMA ClientAnswerIsGateStep ==
    ASSUME PairInv, PairInv', NEW q \in Requests, NEW problem, Client!Answer(q, problem),
           cst[q] \in Client!Held
    PROVE  Client!Gate!Next
<1>1. ClientShape /\ ClientInv(q)
  BY PairInvParts
<1>2. ClientInv(q)'
  <2>1. PairInv' => (\A r \in Requests : ClientInv(r))'
    BY PairInvParts, PTL
  <2>2. QED
    BY <2>1
<1>3. /\ cst' = [cst EXCEPT ![q] = "done"] /\ clog' = [clog EXCEPT ![q] = Some(LogEntry(problem))]
      /\ UNCHANGED <<csent, cwire>>
  BY ClientVocabulary, Zenon DEF Client!Answer, Client!Move, Client!request
<1>4. cst'[q] = "done" /\ clog'[q] = {LogEntry(problem)}
  BY <1>1, <1>3, Zenon DEF ClientShape, Some
<1>5. Client!GateOutcome(q) = "open"
  BY <1>1, ClientGateOpen DEF Client!Held, Client!AtAwait
<1>6. LogEntry(problem).outcome \in Outcomes /\ LogEntry(problem).problem = problem
  BY EntryOutcome
<1>7. Client!GateOutcome(q)' = IF problem.kind = "RequestTimeout" THEN "timed_out"
                               ELSE LogEntry(problem).outcome
  <2>1. Client!The(clog'[q]) = LogEntry(problem) /\ clog'[q] # Client!None
    BY <1>4, ClientVocabulary, Zenon DEF The, None
  <2>2. QED
    BY <1>4, <1>6, <2>1 DEF Client!GateOutcome
<1>8. ClientOutcome' = [ClientOutcome EXCEPT ![q] = Client!GateOutcome(q)']
  BY <1>1, <1>3, ClientOutcomeStep, Zenon DEF ClientShape
<1>9. Client!GateOutcome(q)' = "denied" => csent[q] = None
  BY <1>2, <1>3, <1>4, <1>6, <1>7 DEF ClientInv, ClientLogInv
<1>10. Client!GateOutcome(q)' = "forwarded" => cwire[q] = "received"
  <2>1. Client!GateOutcome(q)' = "forwarded" => st'[q] = "done"
    BY <1>2, <1>4, <1>7 DEF ClientInv, ClientLogInv
  <2>2. st'[q] = "done" => cwire'[q] = "received"
    BY <1>2, Zenon DEF ClientInv, ClientMessageInv
  <2>3. QED
    BY <1>3, <2>1, <2>2, Zenon
<1>11. Client!GateOutcome(q)' \in {"failed", "timed_out", "dropped", "denied", "forwarded"}
  BY <1>6, <1>7 DEF Outcomes
<1>12. QED
  BY <1>3, <1>5, <1>8, <1>9, <1>10, <1>11, ClientEndIsGateStep, Zenon

(* A step that moves an open request on is a stutter of the gate.          *)
LEMMA ClientQuietStep ==
    ASSUME PairInv, NEW q \in Requests, NEW s, ClientMovesTo(q, s),
           cst[q] \notin {"done", "dropped"}, s \notin {"done", "dropped"},
           UNCHANGED <<clog, csent, cwire>>
    PROVE  UNCHANGED Client!Gate!gatevars
<1>1. ClientShape /\ ClientInv(q)
  BY PairInvParts
<1>2. cst'[q] = s /\ \A r \in Requests \ {q} : cst'[r] = cst[r]
  BY <1>1 DEF ClientShape, ClientMovesTo
<1>3. \A r \in Requests : Client!GateOutcome(r)' = Client!GateOutcome(r)
  BY <1>2 DEF Client!GateOutcome
<1>4. QED
  BY <1>3 DEF Client!Gate!gatevars

(* Every step of a client handler is one of the gate or none.              *)
LEMMA ClientStepIsGateStep ==
    ASSUME PairInv, PairInv', NEW q \in Requests, ClientStep(q)
    PROVE  Client!Gate!Next \/ UNCHANGED Client!Gate!gatevars
<1>1. ClientShape /\ ClientInv(q)
  BY PairInvParts
<1>2. ASSUME NEW problem, Client!Answer(q, problem), cst[q] \in Client!Held PROVE Client!Gate!Next
  BY <1>2, ClientAnswerIsGateStep
<1>3. CASE Client!Admit(q)
  <2>1. cst[q] = "queued" /\ ClientMovesTo(q, "handling") /\ UNCHANGED <<clog, csent, cwire>>
    BY <1>3 DEF Client!Admit, Client!Move, ClientMovesTo
  <2>2. QED
    BY <2>1, ClientQuietStep
<1>4. CASE Client!Judge(q)
  <2>1. cst[q] = "handling" /\ cst[q] \in Client!Held
    BY <1>4 DEF Client!Judge, Client!Held
  <2>2. CASE ClientMovesTo(q, "body") /\ UNCHANGED <<clog, csent, cwire>>
    BY <2>1, <2>2, ClientQuietStep
  <2>3. CASE \E problem : Client!Answer(q, problem)
    BY <1>2, <2>1, <2>3
  <2>4. QED
    BY <1>4, <2>2, <2>3 DEF Client!Judge, Client!Move, Client!request, ClientMovesTo
<1>5. CASE Client!BodyArrives(q)
  <2> DEFINE message == Client!ClientMessage(Client!The(ccall[q]))
  <2>1. /\ cst[q] = "body" /\ cst' = [cst EXCEPT ![q] = "sending"] /\ clog' = clog
        /\ csent' = [csent EXCEPT ![q] = {message}] /\ cwire' = [cwire EXCEPT ![q] = "flying"]
    BY <1>5 DEF Client!BodyArrives, Client!Move, Client!Some
  <2> HIDE DEF message
  <2>2. csent[q] = None /\ cwire[q] = "none" /\ Client!GateOutcome(q) = "open"
    BY <1>1, <2>1, ClientGateOpen, Zenon DEF ClientInv, ClientMessageInv
  <2>3. ClientOutcome' = ClientOutcome
    <3>1. \A r \in Requests \ {q} : cst'[r] = cst[r] /\ clog'[r] = clog[r]
      BY <1>1, <2>1, Zenon DEF ClientShape
    <3>2. cst'[q] = "sending" /\ clog'[q] = Client!None
      BY <1>1, <2>1, ClientVocabulary, Zenon DEF ClientShape, ClientInv, ClientLogInv
    <3>3. Client!GateOutcome(q)' = "open"
      BY <3>2, Zenon DEF Client!GateOutcome
    <3>4. QED
      BY <2>2, <3>1, <3>3, ClientOutcomeStep, Zenon DEF ClientOutcome
  <2>4. ClientCleared' = ClientCleared \cup {q} /\ ClientDelivered' = ClientDelivered
    BY <1>1, <2>1, <2>2, Zenon DEF ClientCleared, ClientDelivered, ClientShape, None
  <2>5. q \notin ClientCleared /\ ClientOutcome[q] = "open"
    BY <2>2 DEF ClientCleared, ClientOutcome
  <2>6. Client!Gate!Clear(q)
    BY <2>3, <2>4, <2>5, ClientVocabulary
       DEF Client!Gate!Clear, Client!Gate!Open, ClientCleared, ClientDelivered, ClientOutcome
  <2>7. QED
    BY <2>6 DEF Client!Gate!Next
<1>6. CASE \/ Client!HeaderFails(q) \/ Client!BodyFails(q) \/ Client!ResponseRead(q)
           \/ Client!UpstreamFails(q) \/ Client!UpstreamExpires(q) \/ Client!RequestExpires(q)
  <2>1. cst[q] \in Client!Held /\ \E problem : Client!Answer(q, problem)
    BY <1>6, Zenon DEF Client!HeaderFails, Client!BodyFails, Client!ResponseRead,
                Client!UpstreamFails, Client!UpstreamExpires, Client!RequestExpires,
                Client!Held, Client!AtAwait
  <2>2. QED
    BY <1>2, <2>1
<1>7. CASE Client!Disconnect(q)
  <2>1. /\ cst[q] \in Client!AtAwait \cup {"queued"} /\ cst' = [cst EXCEPT ![q] = "dropped"]
        /\ UNCHANGED <<clog, csent, cwire>>
    BY <1>7 DEF Client!Disconnect, Client!Move, Client!request
  <2>2. Client!GateOutcome(q) = "open"
    BY <1>1, <2>1, ClientGateOpen DEF Client!AtAwait
  <2>3. cst'[q] = "dropped" /\ \A r \in Requests \ {q} : cst'[r] = cst[r] /\ clog'[r] = clog[r]
    BY <1>1, <2>1, Zenon DEF ClientShape
  <2>4. Client!GateOutcome(q)' = "dropped"
    BY <2>3, Zenon DEF Client!GateOutcome
  <2>5. QED
    BY <2>1, <2>2, <2>3, <2>4, ClientOutcomeStep, ClientEndIsGateStep
<1>8. QED
  BY <1>3, <1>4, <1>5, <1>6, <1>7 DEF ClientStep, Client!Local, Client!Handler, Client!Timers

(* The client connector implements PolicyGate towards the server connector *)
(* for every configuration of the two: it clears a request before the      *)
(* server connector can get it, refuses only what it has not sent, reports *)
(* success only of what was received, and ends a request once.             *)
THEOREM ImplementsClientGate == PairSpec => ClientGateSpec
<1>1. PairInit => Client!Gate!Init
  <2>1. SUFFICES ASSUME PairInit PROVE Client!Gate!Init
    OBVIOUS
  <2>2. Client!Init
    BY <2>1 DEF PairInit
  <2>3. \A q \in Requests : Client!GateOutcome(q) = "open"
    BY <2>2 DEF Client!Init, Client!GateOutcome
  <2>4. QED
    BY <2>2, <2>3 DEF Client!Init, Client!Gate!Init
<1>2. PairInv /\ PairInv' /\ [PairNext]_pairvars => [Client!Gate!Next]_(Client!Gate!gatevars)
  <2> SUFFICES ASSUME PairInv, PairInv', [PairNext]_pairvars
               PROVE  [Client!Gate!Next]_(Client!Gate!gatevars)
    OBVIOUS
  <2>0. ClientShape /\ \A r \in Requests : ClientInv(r)
    BY PairInvParts
  <2>1. ASSUME UNCHANGED cvars PROVE UNCHANGED Client!Gate!gatevars
    <3>1. UNCHANGED <<cst, clog, csent, cwire>>
      BY <2>1 DEF cvars
    <3>2. \A r \in Requests : Client!GateOutcome(r)' = Client!GateOutcome(r)
      BY <3>1 DEF Client!GateOutcome
    <3>3. QED
      BY <3>1, <3>2 DEF Client!Gate!gatevars
  <2>2. ASSUME NEW q \in Requests, CallerStep(q) PROVE UNCHANGED Client!Gate!gatevars
    <3>1. cst[q] = "new" /\ ClientMovesTo(q, "queued") /\ UNCHANGED <<clog, csent, cwire>>
      BY <2>2 DEF CallerStep, Client!Arrive, Client!Move, ClientMovesTo
    <3>2. QED
      BY <3>1, ClientQuietStep
  <2>3. ASSUME NEW q \in Requests, Reply(q) PROVE UNCHANGED Client!Gate!gatevars
    <3>1. cst[q] = "sending" /\ ClientMovesTo(q, "reading") /\ UNCHANGED <<clog, csent, cwire>>
      BY <2>3 DEF Reply, Client!ServerAnswers, Client!Move, Client!request, ClientMovesTo
    <3>2. QED
      BY <3>1, ClientQuietStep
  <2>4. ASSUME NEW q \in Requests, Deliver(q) PROVE Client!Gate!Next
    <3>1. /\ cwire[q] = "flying" /\ cwire' = [cwire EXCEPT ![q] = "received"]
          /\ UNCHANGED <<cst, clog, csent>>
      BY <2>4 DEF Deliver, Client!ServerReceives, Client!request
    <3>2. csent[q] # None
      BY <2>0, <3>1, Zenon DEF ClientInv, ClientMessageInv
    <3>3. ClientOutcome' = ClientOutcome
      BY <3>1 DEF ClientOutcome, Client!GateOutcome
    <3>4. ClientDelivered' = ClientDelivered \cup {q} /\ ClientCleared' = ClientCleared
      BY <2>0, <3>1, Zenon DEF ClientShape, ClientDelivered, ClientCleared
    <3>5. q \in ClientCleared \ ClientDelivered
      BY <3>1, <3>2, Zenon DEF ClientDelivered, ClientCleared
    <3>6. Client!Gate!Deliver(q)
      BY <3>3, <3>4, <3>5, ClientVocabulary
         DEF Client!Gate!Deliver, ClientCleared, ClientDelivered, ClientOutcome
    <3>7. QED
      BY <3>6 DEF Client!Gate!Next
  <2>5. ASSUME NEW q \in Requests, ServerStep(q) PROVE UNCHANGED cvars
    BY <2>5 DEF ServerStep
  <2>6. CASE UNCHANGED pairvars \/ PairFinished \/ (Tick /\ UNCHANGED cvars)
    BY <2>1, <2>6 DEF PairFinished, pairvars
  <2>7. QED
    BY <2>1, <2>2, <2>3, <2>4, <2>5, <2>6, ClientStepIsGateStep DEF PairNext
<1>3. QED
  BY <1>1, <1>2, PairInvariant, PTL DEF PairSpec, ClientGateSpec, Client!Gate!Spec
=============================================================================
