----------------------- MODULE ServerConnector_proofs -----------------------
(***************************************************************************)
(* Proofs about ServerConnector for any number of requests, any request    *)
(* shapes and any configuration.  HandlerInv is split into what it says    *)
(* about the permits, which needs counting, and what it says about one     *)
(* request, which every action changes for at most one request.  The last  *)
(* part is about the purpose decision: what a grant says of the request.   *)
(***************************************************************************)
EXTENDS ServerConnector, FiniteSetTheorems, TLAPS

Shape ==
    /\ st \in [Requests -> States]
    /\ DOMAIN log = Requests /\ DOMAIN sent = Requests /\ DOMAIN wire = Requests
    /\ DOMAIN input = Requests /\ DOMAIN purpose = Requests
    /\ DOMAIN judged = Requests /\ DOMAIN key = Requests

PermitInv == permits \in Int /\ PermitsConserved

\* The authorization of a request, as Judge saw it.
AuthorizedAs(r, k, p) ==
    \E v \in Authorize(The(input[r]), judged[r]) :
        v.problem = NoProblem /\ k = v.key /\ p = v.purpose

\* What HandlerInv says about one request.
RequestInv(r) ==
    /\ sent[r] = None <=> wire[r] = "none"
    /\ st[r] \in Unsent => sent[r] = None
    /\ st[r] \in {"sending", "reading"} => sent[r] # None
    /\ st[r] = "reading" => wire[r] = "received"
    /\ log[r] # None <=> st[r] = "done"
    /\ st[r] \in Authorized => AuthorizedAs(r, key[r], purpose[r])
    /\ \A e \in log[r] :
        /\ (e.outcome = "denied" /\ e.problem.kind # "RequestTimeout") => sent[r] = None
        /\ e.outcome = "forwarded" => wire[r] = "received"
    /\ \A m \in sent[r] :
        AuthorizedAs(r, key[r], m.purpose) /\ m.client_identity \subseteq {key[r][1]}

\* One request changes its state.
MovesTo(q, s) == st' = [st EXCEPT ![q] = s]

(* The parts make up the invariant.                                        *)
LEMMA HandlerInvParts ==
    HandlerInv <=> Shape /\ PermitInv /\ \A r \in Requests : RequestInv(r)
  BY DEF HandlerInv, Shape, PermitInv, RequestInv, AuthorizedAs, LogTellsRelay,
         SentAsAuthorized

-----------------------------------------------------------------------------
(* A handler that starts or ends changes the number of permits in use by   *)
(* one; any other change of a request's state leaves it alone.             *)
LEMMA HoldersCount ==
    ASSUME Shape, NEW q \in Requests, NEW s, MovesTo(q, s)
    PROVE  /\ Cardinality(Holders) \in Nat
           /\ Cardinality(Holders') = Cardinality(Holders)
                 + (IF s \in Held THEN 1 ELSE 0) - (IF st[q] \in Held THEN 1 ELSE 0)
<1>1. /\ Holders' = IF s \in Held THEN Holders \cup {q} ELSE Holders \ {q}
      /\ q \in Holders <=> st[q] \in Held
  BY DEF Shape, Holders, MovesTo
<1>2. IsFiniteSet(Holders) /\ Cardinality(Holders) \in Nat
  BY RequestsAssumption, FS_Subset, FS_CardinalityType DEF Holders
<1>3. Cardinality(Holders \cup {q}) = IF q \in Holders THEN Cardinality(Holders)
                                      ELSE Cardinality(Holders) + 1
  BY <1>2, FS_AddElement, Zenon
<1>4. Cardinality(Holders \ {q}) = IF q \in Holders THEN Cardinality(Holders) - 1
                                   ELSE Cardinality(Holders)
  BY <1>2, FS_RemoveElement
<1>5. QED
  BY <1>1, <1>2, <1>3, <1>4

(* An answer gives the permit of the handler back (proxy.rs:147).          *)
LEMMA AnswerKeepsPermits ==
    ASSUME Shape, PermitInv, NEW q \in Requests, NEW problem,
           Answer(q, problem), st[q] \in Held
    PROVE  PermitInv'
<1>1. "done" \notin Held /\ MovesTo(q, "done")
  BY DEF Held, AtAwait, Answer, MovesTo
<1>2. Cardinality(Holders) \in Nat /\ Cardinality(Holders') = Cardinality(Holders) - 1
  BY <1>1, HoldersCount
<1>3. QED
  BY <1>2, ConcurrentAssumption DEF Answer, PermitInv, PermitsConserved

(* A handler that goes from one wait to the next keeps its permit.         *)
LEMMA MoveKeepsPermits ==
    ASSUME Shape, PermitInv, NEW q \in Requests, NEW s, MovesTo(q, s),
           st[q] \in Held <=> s \in Held, UNCHANGED permits
    PROVE  PermitInv'
<1>1. Cardinality(Holders') = Cardinality(Holders)
  BY HoldersCount
<1>2. QED
  BY <1>1 DEF PermitInv, PermitsConserved

-----------------------------------------------------------------------------
\* Nothing that RequestInv mentions changes for this request.
Untouched(r) ==
    /\ st'[r] = st[r] /\ log'[r] = log[r] /\ sent'[r] = sent[r] /\ wire'[r] = wire[r]
    /\ input'[r] = input[r] /\ purpose'[r] = purpose[r]
    /\ judged'[r] = judged[r] /\ key'[r] = key[r]

(* The authorization of a request depends on its input and the time of its *)
(* judgement only.                                                         *)
LEMMA SameAuthorization ==
    ASSUME NEW r, input'[r] = input[r], judged'[r] = judged[r]
    PROVE  \A k, p : AuthorizedAs(r, k, p)' <=> AuthorizedAs(r, k, p)
  BY DEF AuthorizedAs

(* A request that a step leaves alone keeps its part of the invariant.     *)
LEMMA UntouchedKeepsInv ==
    ASSUME NEW r, RequestInv(r), Untouched(r)
    PROVE  RequestInv(r)'
<1>1. \A k, p : AuthorizedAs(r, k, p)' <=> AuthorizedAs(r, k, p)
  BY SameAuthorization DEF Untouched
<1>2. QED
  BY <1>1 DEF Untouched, RequestInv

(* A step that changes one request keeps the invariant if it does for that *)
(* request.                                                                *)
LEMMA StepKeepsInv ==
    ASSUME HandlerInv, NEW q \in Requests, Shape', PermitInv', RequestInv(q)',
           \A r \in Requests \ {q} : Untouched(r)
    PROVE  HandlerInv'
<1>1. \A r \in Requests : RequestInv(r)
  BY HandlerInvParts
<1>2. ASSUME NEW r \in Requests \ {q} PROVE RequestInv(r)'
  BY <1>1, <1>2, UntouchedKeepsInv
<1>3. (Shape /\ PermitInv /\ \A r \in Requests : RequestInv(r))' => HandlerInv'
  BY HandlerInvParts, PTL
<1>4. QED
  BY <1>2, <1>3

(* A log entry tells failures from refusals by the kind of the problem.    *)
LEMMA LogEntryOutcome ==
    ASSUME NEW problem
    PROVE  /\ LogEntry(problem).problem = problem
           /\ LogEntry(problem).outcome \in Outcomes
           /\ LogEntry(problem).outcome = "forwarded" <=> problem = NoProblem
           /\ problem = Problem("UpstreamUnavailable") => LogEntry(problem).outcome = "failed"
<1>1. CASE problem = NoProblem
  BY <1>1, Zenon DEF LogEntry, Outcomes, NoProblem, Problem
<1>2. CASE problem # NoProblem
  <2>1. AuditOutcome(problem) \in {"failed", "denied"}
    BY DEF AuditOutcome
  <2>2. problem = Problem("UpstreamUnavailable") => AuditOutcome(problem) = "failed"
    <3>1. Status(Problem("UpstreamUnavailable")) = 502
      BY DEF Status, Problem
    <3>2. QED
      BY <3>1 DEF AuditOutcome
  <2>3. QED
    BY <1>2, <2>1, <2>2 DEF LogEntry, Outcomes
<1>3. QED
  BY <1>1, <1>2

(* A problem with a name is a problem.                                     *)
LEMMA NamedProblem ==
    ASSUME NEW kind, kind # ""
    PROVE  Problem(kind) # NoProblem /\ Problem(kind).kind = kind
  BY Zenon DEF Problem, NoProblem

(* An answer keeps the invariant of its request when the problem fits what *)
(* became of the message: no refusal but the timeout after a send, and no  *)
(* success before Relay has it.                                            *)
LEMMA AnswerKeepsRequest ==
    ASSUME Shape, NEW q \in Requests, RequestInv(q), NEW problem, Answer(q, problem),
           \/ sent[q] = None /\ problem # NoProblem
           \/ problem = NoProblem /\ st[q] = "reading"
           \/ problem = Problem("UpstreamUnavailable")
           \/ problem.kind = "RequestTimeout" /\ problem # NoProblem,
           sent'[q] = sent[q], wire'[q] = wire[q],
           sent[q] # None => input'[q] = input[q] /\ judged'[q] = judged[q] /\ key'[q] = key[q]
    PROVE  RequestInv(q)'
<1>1. st'[q] = "done" /\ log'[q] = {LogEntry(problem)}
  BY DEF Shape, Answer, Some
<1>2. /\ sent'[q] = None <=> wire'[q] = "none"
      /\ \A m \in sent'[q] : AuthorizedAs(q, key[q], m.purpose)'
                                /\ m.client_identity \subseteq {key'[q][1]}
  BY DEF RequestInv, AuthorizedAs, None
<1>3. \A e \in log'[q] :
        /\ (e.outcome = "denied" /\ e.problem.kind # "RequestTimeout") => sent'[q] = None
        /\ e.outcome = "forwarded" => wire'[q] = "received"
  <2>1. LogEntry(problem).outcome = "forwarded" => problem = NoProblem
    BY LogEntryOutcome
  <2>2. LogEntry(problem).problem = problem
    BY LogEntryOutcome
  <2>3. Problem("UpstreamUnavailable") # NoProblem
    BY Zenon DEF NoProblem, Problem
  <2>4. problem = NoProblem => LogEntry(problem).outcome # "denied"
    BY LogEntryOutcome
  <2>5. problem = Problem("UpstreamUnavailable") => LogEntry(problem).outcome # "denied"
    BY LogEntryOutcome
  <2>6. st[q] = "reading" => wire[q] = "received"
    BY DEF RequestInv
  <2>7. QED
    BY <1>1, <2>1, <2>2, <2>3, <2>4, <2>5, <2>6
<1>4. QED
  BY <1>1, <1>2, <1>3 DEF RequestInv, Unsent, Authorized, None

(* Every way to answer a request keeps the invariant.                      *)
LEMMA AnswerKeepsInv ==
    ASSUME HandlerInv, NEW q \in Requests, NEW problem, Answer(q, problem), st[q] \in Held,
           \/ sent[q] = None /\ problem # NoProblem
           \/ problem = NoProblem /\ st[q] = "reading"
           \/ problem = Problem("UpstreamUnavailable")
           \/ problem.kind = "RequestTimeout" /\ problem # NoProblem,
           UNCHANGED <<wire, input, purpose, sent, key>>,
           \/ judged' = judged
           \/ sent[q] = None /\ judged' = [judged EXCEPT ![q] = clock]
    PROVE  HandlerInv'
<1>1. Shape /\ PermitInv /\ \A r \in Requests : RequestInv(r)
  BY HandlerInvParts
<1>2. Shape'
  BY <1>1 DEF Shape, Answer, States, Ended
<1>3. PermitInv'
  BY <1>1, AnswerKeepsPermits
<1>4. RequestInv(q)'
  <2>1. sent[q] # None => input'[q] = input[q] /\ judged'[q] = judged[q] /\ key'[q] = key[q]
    OBVIOUS
  <2>2. sent'[q] = sent[q] /\ wire'[q] = wire[q]
    OBVIOUS
  <2>3. QED
    BY <1>1, <2>1, <2>2, AnswerKeepsRequest
<1>5. \A r \in Requests \ {q} : Untouched(r)
  BY <1>1 DEF Untouched, Shape, Answer
<1>6. QED
  BY <1>2, <1>3, <1>4, <1>5, StepKeepsInv

-----------------------------------------------------------------------------
(* Every step of a handler, of the timers, of the caller and of Relay      *)
(* keeps the invariant.                                                    *)
THEOREM HandlerInvariant == Spec => []HandlerInv
<1>1. Init => HandlerInv
  <2>1. SUFFICES ASSUME Init PROVE Shape /\ PermitInv /\ \A r \in Requests : RequestInv(r)
    BY HandlerInvParts
  <2>2. Shape
    BY <2>1 DEF Init, Shape, States
  <2>3. PermitInv
    <3>1. Holders = {}
      BY <2>1 DEF Init, Holders, Held, AtAwait
    <3>2. Cardinality(Holders) = 0
      BY <3>1, FS_EmptySet
    <3>3. QED
      BY <2>1, <3>2, ConcurrentAssumption DEF Init, PermitInv, PermitsConserved
  <2>4. \A r \in Requests : RequestInv(r)
    BY <2>1 DEF Init, RequestInv, None, Authorized
  <2>5. QED
    BY <2>2, <2>3, <2>4
<1>2. HandlerInv /\ [Next]_vars => HandlerInv'
  <2> SUFFICES ASSUME HandlerInv, [Next]_vars PROVE HandlerInv'
    OBVIOUS
  <2>0. Shape /\ PermitInv /\ \A r \in Requests : RequestInv(r)
    BY HandlerInvParts
  <2>1. ASSUME NEW q \in Requests, NEW in \in Inputs, Arrive(q, in) PROVE HandlerInv'
    <3>1. Shape' /\ \A r \in Requests \ {q} : Untouched(r)
      BY <2>0, <2>1 DEF Arrive, limiter, Shape, States, Untouched
    <3>2. PermitInv'
      <4>1. MovesTo(q, "queued") /\ UNCHANGED permits
        BY <2>1 DEF Arrive, MovesTo
      <4>2. st[q] \notin Held /\ "queued" \notin Held
        BY <2>1 DEF Arrive, Held, AtAwait
      <4>3. QED
        BY <2>0, <4>1, <4>2, MoveKeepsPermits
    <3>3. RequestInv(q)'
      BY <2>0, <2>1 DEF Arrive, limiter, Shape, RequestInv, Unsent, Authorized, None
    <3>4. QED
      BY <3>1, <3>2, <3>3, StepKeepsInv
  <2>2. ASSUME NEW q \in Requests, Admit(q) PROVE HandlerInv'
    <3>1. Shape' /\ \A r \in Requests \ {q} : Untouched(r)
      BY <2>0, <2>2 DEF Admit, limiter, Shape, States, Held, Untouched
    <3>2. PermitInv'
      <4>1. MovesTo(q, "handling") /\ st[q] \notin Held /\ "handling" \in Held
        BY <2>2 DEF Admit, MovesTo, Held, AtAwait
      <4>2. Cardinality(Holders) \in Nat /\ Cardinality(Holders') = Cardinality(Holders) + 1
        BY <2>0, <4>1, HoldersCount
      <4>3. QED
        BY <2>0, <2>2, <4>2, ConcurrentAssumption DEF Admit, PermitInv, PermitsConserved
    <3>3. RequestInv(q)'
      BY <2>0, <2>2 DEF Admit, limiter, Shape, RequestInv, Unsent, Authorized, None
    <3>4. QED
      BY <3>1, <3>2, <3>3, StepKeepsInv
  <2>3. ASSUME NEW q \in Requests, Judge(q) PROVE HandlerInv'
    <3>1. PICK v \in Authorize(The(input[q]), clock) :
            IF v.problem = NoProblem
            THEN /\ RL!ReadClock(q, v.key)
                 /\ st' = [st EXCEPT ![q] = "limiting"]
                 /\ purpose' = [purpose EXCEPT ![q] = v.purpose]
                 /\ UNCHANGED <<permits, log>>
            ELSE Answer(q, v.problem) /\ UNCHANGED <<limiter, purpose>>
      BY <2>3 DEF Judge
    <3>2. /\ st[q] = "handling" /\ judged' = [judged EXCEPT ![q] = clock]
          /\ UNCHANGED <<wire, input, sent>>
      BY <2>3 DEF Judge
    <3>3. sent[q] = None
      BY <2>0, <3>2 DEF RequestInv, Unsent
    <3>4. CASE v.problem = NoProblem
      <4>1. key' = [key EXCEPT ![q] = v.key]
        BY <3>1, <3>4 DEF RL!ReadClock
      <4>2. Shape' /\ \A r \in Requests \ {q} : Untouched(r)
        BY <2>0, <3>1, <3>2, <3>4, <4>1 DEF Shape, States, Held, Untouched
      <4>3. PermitInv'
        <5>1. MovesTo(q, "limiting") /\ UNCHANGED permits
          BY <3>1, <3>4 DEF MovesTo
        <5>2. st[q] \in Held /\ "limiting" \in Held
          BY <3>2 DEF Held
        <5>3. QED
          BY <2>0, <5>1, <5>2, MoveKeepsPermits
      <4>4. RequestInv(q)'
        <5>1. AuthorizedAs(q, key[q], purpose[q])'
          BY <2>0, <3>1, <3>2, <3>4, <4>1 DEF AuthorizedAs, Shape
        <5>2. st'[q] = "limiting" /\ log'[q] = log[q] /\ sent'[q] = None /\ wire'[q] = wire[q]
          BY <2>0, <3>1, <3>2, <3>3, <3>4 DEF Shape
        <5>3. QED
          BY <2>0, <3>2, <3>3, <5>1, <5>2 DEF RequestInv, None
      <4>5. QED
        BY <4>2, <4>3, <4>4, StepKeepsInv
    <3>5. CASE v.problem # NoProblem
      <4>1. Answer(q, v.problem) /\ UNCHANGED <<wire, input, purpose, sent, key>>
        BY <3>1, <3>2, <3>5 DEF limiter
      <4>2. st[q] \in Held
        BY <3>2 DEF Held
      <4>3. QED
        BY <3>2, <3>3, <3>5, <4>1, <4>2, AnswerKeepsInv, Zenon
    <3>6. QED
      BY <3>4, <3>5
  <2>4. ASSUME NEW q \in Requests, TakeSlot(q) PROVE HandlerInv'
    <3>1. st[q] = "limiting" /\ UNCHANGED <<wire, input, purpose, sent, judged, key>>
      BY <2>4 DEF TakeSlot, request, RL!Check
    <3>2. CASE Answer(q, Problem("RateLimited"))
      <4>1. st[q] \in Held /\ sent[q] = None /\ Problem("RateLimited") # NoProblem
        BY <2>0, <3>1, Zenon DEF RequestInv, Held, Unsent, Problem, NoProblem
      <4>2. QED
        BY <3>1, <3>2, <4>1, AnswerKeepsInv
    <3>3. CASE st' = [st EXCEPT ![q] = "body"] /\ UNCHANGED <<permits, log>>
      <4>1. Shape' /\ \A r \in Requests \ {q} : Untouched(r)
        BY <2>0, <3>1, <3>3 DEF Shape, States, Held, AtAwait, Untouched
      <4>2. PermitInv'
        <5>1. MovesTo(q, "body") /\ st[q] \in Held /\ "body" \in Held /\ UNCHANGED permits
          BY <3>1, <3>3 DEF MovesTo, Held, AtAwait
        <5>2. QED
          BY <2>0, <5>1, MoveKeepsPermits
      <4>3. RequestInv(q)'
        BY <2>0, <3>1, <3>3 DEF Shape, RequestInv, AuthorizedAs, Unsent, Authorized, None
      <4>4. QED
        BY <4>1, <4>2, <4>3, StepKeepsInv
    <3>4. QED
      BY <2>4, <3>2, <3>3 DEF TakeSlot
  <2>5. ASSUME NEW q \in Requests, BodyArrives(q) PROVE HandlerInv'
    <3>1. Shape' /\ \A r \in Requests \ {q} : Untouched(r)
      BY <2>0, <2>5, Zenon DEF BodyArrives, limiter, Shape, States, Held, AtAwait, Untouched
    <3>2. PermitInv'
      <4>1. MovesTo(q, "sending") /\ st[q] \in Held /\ "sending" \in Held /\ UNCHANGED permits
        BY <2>5 DEF BodyArrives, MovesTo, Held, AtAwait
      <4>2. QED
        BY <2>0, <4>1, MoveKeepsPermits
    <3>3. RequestInv(q)'
      <4>1. /\ st'[q] = "sending" /\ sent'[q] = {Message(q)} /\ wire'[q] = "flying"
            /\ log'[q] = log[q] /\ st[q] = "body"
            /\ UNCHANGED <<input, judged, purpose, key>>
        BY <2>0, <2>5, Zenon DEF BodyArrives, limiter, Shape, Some
      <4>2. log[q] = None /\ AuthorizedAs(q, key[q], purpose[q])
        BY <2>0, <4>1, Zenon DEF RequestInv, Authorized
      <4>3. AuthorizedAs(q, key[q], purpose[q])'
        BY <4>1, <4>2, Zenon DEF AuthorizedAs
      <4>4. Message(q).purpose = purpose[q] /\ Message(q).client_identity \subseteq {key[q][1]}
        BY Zenon DEF Message, Some, None
      <4>5. \A m \in sent'[q] : AuthorizedAs(q, key[q], m.purpose)'
                                  /\ m.client_identity \subseteq {key'[q][1]}
        BY <4>1, <4>3, <4>4 DEF AuthorizedAs
      <4>6. QED
        BY <4>1, <4>2, <4>3, <4>5, Zenon DEF RequestInv, Unsent, None
    <3>4. QED
      BY <3>1, <3>2, <3>3, StepKeepsInv
  <2>6. ASSUME NEW q \in Requests, CredentialFails(q) \/ BodyFails(q) PROVE HandlerInv'
    <3>1. PICK problem : Answer(q, problem) /\ problem # NoProblem
      <4>1. CASE CredentialFails(q)
        BY <4>1 DEF CredentialFails
      <4>2. CASE BodyFails(q)
        BY <4>2, NamedProblem, Zenon DEF BodyFails
      <4>3. QED
        BY <2>6, <4>1, <4>2
    <3>2. /\ st[q] \in Held /\ sent[q] = None
          /\ UNCHANGED <<wire, input, purpose, sent, judged, key>>
      BY <2>0, <2>6 DEF CredentialFails, BodyFails, RequestInv, Held, AtAwait, Unsent,
                        limiter, request
    <3>3. QED
      BY <3>1, <3>2, AnswerKeepsInv
  <2>7. ASSUME NEW q \in Requests,
               ResponseRead(q) \/ UpstreamFails(q) \/ UpstreamExpires(q) \/ RequestExpires(q)
        PROVE  HandlerInv'
    <3>1. st[q] \in Held /\ UNCHANGED <<wire, input, purpose, sent, judged, key>>
      BY <2>7 DEF ResponseRead, UpstreamFails, UpstreamExpires, RequestExpires, Held, AtAwait,
                  limiter, request
    <3>2. PICK problem :
            /\ Answer(q, problem)
            /\ \/ problem = NoProblem /\ st[q] = "reading"
               \/ problem = Problem("UpstreamUnavailable")
               \/ problem.kind = "RequestTimeout" /\ problem # NoProblem
      <4>1. CASE ResponseRead(q)
        BY <4>1 DEF ResponseRead
      <4>2. CASE UpstreamFails(q) \/ UpstreamExpires(q)
        BY <4>2 DEF UpstreamFails, UpstreamExpires
      <4>3. CASE RequestExpires(q)
        BY <4>3, NamedProblem, Zenon DEF RequestExpires
      <4>4. QED
        BY <2>7, <4>1, <4>2, <4>3
    <3>3. QED
      BY <3>1, <3>2, AnswerKeepsInv
  <2>8. ASSUME NEW q \in Requests, RelayReceives(q) PROVE HandlerInv'
    <3>1. Shape' /\ \A r \in Requests \ {q} : Untouched(r)
      BY <2>0, <2>8 DEF RelayReceives, limiter, request, Shape, Untouched
    <3>2. PermitInv'
      BY <2>0, <2>8 DEF RelayReceives, PermitInv, PermitsConserved, Holders
    <3>3. RequestInv(q)'
      <4>1. \A k, p : AuthorizedAs(q, k, p)' <=> AuthorizedAs(q, k, p)
        BY <2>8, SameAuthorization DEF RelayReceives, request
      <4>2. /\ wire[q] = "flying" /\ wire'[q] = "received"
            /\ UNCHANGED <<st, log, sent, key, purpose>>
        BY <2>0, <2>8 DEF RelayReceives, limiter, request, Shape
      <4>3. QED
        BY <2>0, <4>1, <4>2 DEF RequestInv
    <3>4. QED
      BY <3>1, <3>2, <3>3, StepKeepsInv
  <2>9. ASSUME NEW q \in Requests, RelayAnswers(q) PROVE HandlerInv'
    <3>1. Shape' /\ \A r \in Requests \ {q} : Untouched(r)
      BY <2>0, <2>9 DEF RelayAnswers, limiter, request, Shape, States, Held, AtAwait, Untouched
    <3>2. PermitInv'
      <4>1. MovesTo(q, "reading") /\ st[q] \in Held /\ "reading" \in Held /\ UNCHANGED permits
        BY <2>9 DEF RelayAnswers, MovesTo, Held, AtAwait
      <4>2. QED
        BY <2>0, <4>1, MoveKeepsPermits
    <3>3. RequestInv(q)'
      <4>1. \A k, p : AuthorizedAs(q, k, p)' <=> AuthorizedAs(q, k, p)
        BY <2>9, SameAuthorization DEF RelayAnswers, request
      <4>2. /\ st[q] = "sending" /\ st'[q] = "reading" /\ wire[q] = "received"
            /\ UNCHANGED <<wire, log, sent, key, purpose>>
        BY <2>0, <2>9 DEF RelayAnswers, limiter, request, Shape
      <4>3. QED
        BY <2>0, <4>1, <4>2 DEF RequestInv, Unsent, Authorized
    <3>4. QED
      BY <3>1, <3>2, <3>3, StepKeepsInv
  <2>10. ASSUME NEW q \in Requests, Disconnect(q) PROVE HandlerInv'
    <3>1. Shape' /\ \A r \in Requests \ {q} : Untouched(r)
      BY <2>0, <2>10 DEF Disconnect, limiter, request, Shape, States, Ended, Untouched
    <3>2. PermitInv'
      <4>1. /\ MovesTo(q, "dropped") /\ "dropped" \notin Held
            /\ st[q] \in Held <=> st[q] # "queued"
        BY <2>10 DEF Disconnect, MovesTo, Held, AtAwait
      <4>2. /\ Cardinality(Holders) \in Nat
            /\ Cardinality(Holders') = Cardinality(Holders) - (IF st[q] = "queued" THEN 0 ELSE 1)
        BY <2>0, <4>1, HoldersCount
      <4>3. QED
        BY <2>0, <2>10, <4>2, ConcurrentAssumption DEF Disconnect, PermitInv, PermitsConserved
    <3>3. RequestInv(q)'
      <4>1. \A k, p : AuthorizedAs(q, k, p)' <=> AuthorizedAs(q, k, p)
        BY <2>10, SameAuthorization DEF Disconnect, request
      <4>2. /\ st[q] # "done" /\ st'[q] = "dropped"
            /\ UNCHANGED <<wire, log, sent, key, purpose>>
        BY <2>0, <2>10 DEF Disconnect, limiter, request, Shape, AtAwait
      <4>3. QED
        BY <2>0, <4>1, <4>2 DEF RequestInv, Unsent, Authorized
    <3>4. QED
      BY <3>1, <3>2, <3>3, StepKeepsInv
  <2>11. CASE Tick \/ Finished \/ UNCHANGED vars
    <3>1. UNCHANGED <<st, permits, wire, log, input, judged, purpose, sent, key>>
      BY <2>11 DEF Tick, RL!Tick, Finished, vars, limiter, request
    <3>2. Shape' /\ PermitInv'
      BY <2>0, <3>1 DEF Shape, PermitInv, PermitsConserved, Holders
    <3>3. \A r \in Requests : RequestInv(r)'
      BY <2>0, <3>1, UntouchedKeepsInv DEF Untouched
    <3>4. (Shape /\ PermitInv /\ \A r \in Requests : RequestInv(r))' => HandlerInv'
      BY HandlerInvParts, PTL
    <3>5. QED
      BY <3>2, <3>3, <3>4
  <2>12. QED
    BY <2>1, <2>2, <2>3, <2>4, <2>5, <2>6, <2>7, <2>8, <2>9, <2>10, <2>11
    DEF Next, Handler, Upstream, Timers
<1>3. QED
  BY <1>1, <1>2, PTL DEF Spec

\* Every log entry is the one proxy_handler derives from its problem.
LogForm == \A q \in Requests : \A e \in log[q] : e = LogEntry(e.problem)

(* The outcome and the stage of a log entry follow from its problem.       *)
THEOREM LogFormHolds == Spec => []LogForm
<1>1. Init => LogForm
  BY DEF Init, LogForm, None
<1>2. HandlerInv /\ LogForm /\ [Next]_vars => LogForm'
  <2> SUFFICES ASSUME HandlerInv, LogForm, [Next]_vars PROVE LogForm'
    OBVIOUS
  <2>1. ASSUME log' = log PROVE LogForm'
    BY <2>1 DEF LogForm
  <2>2. ASSUME NEW q \in Requests, NEW problem, Answer(q, problem) PROVE LogForm'
    <3>1. log' = [log EXCEPT ![q] = {LogEntry(problem)}] /\ DOMAIN log = Requests
      BY <2>2 DEF Answer, Some, HandlerInv
    <3>2. LogEntry(problem).problem = problem
      BY LogEntryOutcome
    <3>3. QED
      BY <3>1, <3>2 DEF LogForm
  <2>3. \/ log' = log
        \/ \E q \in Requests : \E problem : Answer(q, problem)
    <3>1. CASE UNCHANGED vars
      BY <3>1 DEF vars
    <3>2. CASE Tick \/ Finished
      BY <3>2 DEF Tick, Finished, vars
    <3>3. ASSUME NEW q \in Requests, NEW in \in Inputs, Arrive(q, in) PROVE log' = log
      BY <3>3 DEF Arrive
    <3>4. ASSUME NEW q \in Requests,
                 Admit(q) \/ Handler(q) \/ Upstream(q) \/ Timers(q) \/ Disconnect(q)
          PROVE  log' = log \/ \E problem : Answer(q, problem)
      <4>1. CASE Judge(q)
        BY <4>1 DEF Judge
      <4>2. CASE TakeSlot(q)
        BY <4>2 DEF TakeSlot
      <4>3. CASE CredentialFails(q)
        BY <4>3 DEF CredentialFails
      <4>4. CASE Admit(q) \/ BodyArrives(q) \/ BodyFails(q) \/ Disconnect(q)
        BY <4>4 DEF Admit, BodyArrives, BodyFails, Disconnect
      <4>5. CASE Upstream(q) \/ Timers(q)
        BY <4>5 DEF Upstream, Timers, RelayReceives, RelayAnswers, ResponseRead,
                    UpstreamFails, UpstreamExpires, RequestExpires
      <4>6. QED
        BY <3>4, <4>1, <4>2, <4>3, <4>4, <4>5 DEF Handler
    <3>5. QED
      BY <3>1, <3>2, <3>3, <3>4 DEF Next
  <2>4. QED
    BY <2>1, <2>2, <2>3
<1>3. QED
  BY <1>1, <1>2, HandlerInvariant, PTL DEF Spec

(* Every permit of the concurrency limit is free or in the hands of one    *)
(* handler, for any number of requests (proxy.rs:91).                      *)
THEOREM PermitsConservedHolds == Spec => []PermitsConserved
<1>1. HandlerInv => PermitsConserved
  BY DEF HandlerInv
<1>2. QED
  BY <1>1, HandlerInvariant, PTL

(* A refusal in the completion log means that Relay never saw the request  *)
(* and success means that it did (proxy.rs:116-146), whatever the          *)
(* configuration and however requests, timeouts and disconnects interleave.*)
THEOREM LogTellsRelayHolds == Spec => []LogTellsRelay
<1>1. HandlerInv => LogTellsRelay
  BY DEF HandlerInv
<1>2. QED
  BY <1>1, HandlerInvariant, PTL

(* Whatever is sent to Relay carries the identity, route and purpose that  *)
(* handle_server authorized for that very request.                         *)
THEOREM SentAsAuthorizedHolds == Spec => []SentAsAuthorized
<1>1. HandlerInv => SentAsAuthorized
  BY DEF HandlerInv
<1>2. QED
  BY <1>1, HandlerInvariant, PTL

-----------------------------------------------------------------------------
(* To the gate, a request that is neither answered nor dropped is open.    *)
LEMMA GateOutcomeOf ==
    ASSUME NEW q \in Requests, RequestInv(q), st[q] \notin Ended
    PROVE  GateOutcome(q) = "open"
  BY DEF RequestInv, GateOutcome, Ended

(* The outcome of one request changes, and nothing else the gate can see.  *)
LEMMA OutcomeStep ==
    ASSUME NEW q \in Requests,
           \A r \in Requests \ {q} : st'[r] = st[r] /\ log'[r] = log[r]
    PROVE  [r \in Requests |-> GateOutcome(r)]' =
              [[r \in Requests |-> GateOutcome(r)] EXCEPT ![q] = GateOutcome(q)']
<1>1. \A r \in Requests \ {q} : GateOutcome(r)' = GateOutcome(r)
  BY DEF GateOutcome
<1>2. QED
  BY <1>1, Zenon

(* An answer is a Refuse, a Succeed or a GiveUp of the gate.               *)
LEMMA AnswerIsGateStep ==
    ASSUME HandlerInv, HandlerInv', NEW q \in Requests, NEW problem, Answer(q, problem),
           st[q] \in Held, UNCHANGED <<sent, wire>>
    PROVE  Gate!Next
<1>1. RequestInv(q) /\ Shape
  BY HandlerInvParts
<1>2. RequestInv(q)'
  <2>1. HandlerInv' => (\A r \in Requests : RequestInv(r))'
    BY HandlerInvParts, PTL
  <2>2. QED
    BY <2>1
<1>3. st[q] \notin Ended
  BY DEF Held, AtAwait, Ended
<1>4. GateOutcome(q) = "open"
  BY <1>1, <1>3, GateOutcomeOf
<1>5. st'[q] = "done" /\ log'[q] = {LogEntry(problem)}
  BY <1>1 DEF Shape, Answer, Some
<1>6. GateOutcome(q)' = IF problem.kind = "RequestTimeout" THEN "timed_out"
                        ELSE LogEntry(problem).outcome
  <2>1. The(log'[q]) = LogEntry(problem)
    BY <1>5 DEF The
  <2>2. QED
    BY <1>5, <2>1, LogEntryOutcome DEF GateOutcome, None
<1>7. [r \in Requests |-> GateOutcome(r)]' =
         [[r \in Requests |-> GateOutcome(r)] EXCEPT ![q] = GateOutcome(q)']
  BY <1>1, OutcomeStep DEF Shape, Answer
<1>8. /\ GateOutcome(q)' \in {"failed", "timed_out", "denied", "forwarded"}
      /\ GateOutcome(q)' = "denied" => sent[q] = None
      /\ GateOutcome(q)' = "forwarded" => wire[q] = "received"
  <2>1. LogEntry(problem).outcome \in Outcomes /\ LogEntry(problem).problem = problem
    BY LogEntryOutcome
  <2>2. QED
    BY <1>2, <1>5, <1>6, <2>1 DEF RequestInv, Outcomes
<1>9. UNCHANGED <<{r \in Requests : sent[r] # None}, {r \in Requests : wire[r] = "received"}>>
  OBVIOUS
<1>10. CASE GateOutcome(q)' \in {"failed", "timed_out"}
  <2>1. Gate!GiveUp(q)
    BY <1>4, <1>7, <1>9, <1>10, Zenon DEF Gate!GiveUp, Gate!Open, Gate!End
  <2>2. QED
    BY <2>1 DEF Gate!Next
<1>11. CASE GateOutcome(q)' = "denied"
  <2>1. Gate!Refuse(q)
    BY <1>4, <1>7, <1>8, <1>9, <1>11 DEF Gate!Refuse, Gate!Open, Gate!End
  <2>2. QED
    BY <2>1 DEF Gate!Next
<1>12. CASE GateOutcome(q)' = "forwarded"
  <2>1. Gate!Succeed(q)
    BY <1>4, <1>7, <1>8, <1>9, <1>12 DEF Gate!Succeed, Gate!Open, Gate!End
  <2>2. QED
    BY <2>1 DEF Gate!Next
<1>13. QED
  BY <1>8, <1>10, <1>11, <1>12

(* A step that changes nothing the gate can see is a stutter.              *)
LEMMA QuietStep ==
    ASSUME HandlerInv, NEW q \in Requests, st[q] \notin Ended, st'[q] \notin Ended,
           \A r \in Requests \ {q} : st'[r] = st[r], UNCHANGED <<log, sent, wire>>
    PROVE  UNCHANGED Gate!gatevars
<1>1. RequestInv(q)
  BY HandlerInvParts
<1>2. log[q] = None /\ st[q] # "dropped" /\ st'[q] # "dropped"
  BY <1>1 DEF RequestInv, Ended
<1>3. \A r \in Requests : GateOutcome(r)' = GateOutcome(r)
  BY <1>2 DEF GateOutcome
<1>4. QED
  BY <1>3 DEF Gate!gatevars

(* The connector implements PolicyGate for every configuration: it clears  *)
(* before it delivers, refuses only what it has not cleared, reports       *)
(* success only of what Relay has received, and ends a request once.       *)
THEOREM ImplementsGate == Spec => GateSpec
<1>1. Init => Gate!Init
  <2>1. SUFFICES ASSUME Init PROVE Gate!Init
    OBVIOUS
  <2>2. \A q \in Requests : GateOutcome(q) = "open"
    BY <2>1 DEF Init, GateOutcome
  <2>3. QED
    BY <2>1, <2>2 DEF Init, Gate!Init, None
<1>2. HandlerInv /\ HandlerInv' /\ [Next]_vars => [Gate!Next]_(Gate!gatevars)
  <2> SUFFICES ASSUME HandlerInv, HandlerInv', [Next]_vars
               PROVE  [Gate!Next]_(Gate!gatevars)
    OBVIOUS
  <2>0. Shape /\ \A r \in Requests : RequestInv(r)
    BY HandlerInvParts
  <2>1. ASSUME NEW q \in Requests,
               (\E in \in Inputs : Arrive(q, in)) \/ Admit(q) \/ RelayAnswers(q)
        PROVE  UNCHANGED Gate!gatevars
    <3>1. /\ st[q] \notin Ended /\ st'[q] \notin Ended /\ UNCHANGED <<log, sent, wire>>
          /\ \A r \in Requests \ {q} : st'[r] = st[r]
      BY <2>0, <2>1, Zenon DEF Arrive, Admit, RelayAnswers, request, Shape, Ended
    <3>2. QED
      BY <3>1, QuietStep
  <2>2. ASSUME NEW q \in Requests, Judge(q) \/ TakeSlot(q)
        PROVE  [Gate!Next]_(Gate!gatevars)
    <3>1. st[q] \in Held \ Ended /\ UNCHANGED <<sent, wire>>
      BY <2>2, Zenon DEF Judge, TakeSlot, request, Held, AtAwait, Ended
    <3>2. CASE \E problem : Answer(q, problem)
      BY <3>1, <3>2, AnswerIsGateStep
    <3>3. CASE /\ \E s \in {"limiting", "body"} : st' = [st EXCEPT ![q] = s]
               /\ UNCHANGED <<permits, log>>
      <4>1. st'[q] \notin Ended /\ \A r \in Requests \ {q} : st'[r] = st[r]
        BY <2>0, <3>3 DEF Shape, Ended
      <4>2. QED
        BY <3>1, <3>3, <4>1, QuietStep
    <3>4. QED
      BY <2>2, <3>2, <3>3, Zenon DEF Judge, TakeSlot
  <2>3. ASSUME NEW q \in Requests,
               CredentialFails(q) \/ BodyFails(q) \/ ResponseRead(q) \/ UpstreamFails(q)
                  \/ UpstreamExpires(q) \/ RequestExpires(q)
        PROVE  Gate!Next
    <3>1. st[q] \in Held /\ UNCHANGED <<sent, wire>> /\ \E problem : Answer(q, problem)
      BY <2>3 DEF CredentialFails, BodyFails, ResponseRead, UpstreamFails, UpstreamExpires,
                  RequestExpires, request, Held, AtAwait
    <3>2. QED
      BY <3>1, AnswerIsGateStep
  <2>4. ASSUME NEW q \in Requests, BodyArrives(q) PROVE Gate!Next
    <3>1. /\ st[q] = "body" /\ st' = [st EXCEPT ![q] = "sending"] /\ UNCHANGED log
          /\ sent' = [sent EXCEPT ![q] = {Message(q)}] /\ wire' = [wire EXCEPT ![q] = "flying"]
      BY <2>4, Zenon DEF BodyArrives, Some
    <3>2. log[q] = None /\ sent[q] = None /\ wire[q] = "none" /\ GateOutcome(q) = "open"
      BY <2>0, <3>1, GateOutcomeOf, Zenon DEF RequestInv, Unsent, Ended
    <3>3. \A r \in Requests : GateOutcome(r)' = GateOutcome(r)
      BY <2>0, <3>1, <3>2 DEF GateOutcome, Shape
    <3>4. {r \in Requests : sent[r] # None}' = {r \in Requests : sent[r] # None} \cup {q}
      BY <2>0, <3>1 DEF Shape, None
    <3>5. {r \in Requests : wire[r] = "received"}' = {r \in Requests : wire[r] = "received"}
      BY <2>0, <3>1, <3>2, Zenon DEF Shape
    <3>6. Gate!Clear(q)
      BY <3>2, <3>3, <3>4, <3>5, Zenon DEF Gate!Clear, Gate!Open
    <3>7. QED
      BY <3>6 DEF Gate!Next
  <2>5. ASSUME NEW q \in Requests, RelayReceives(q) PROVE Gate!Next
    <3>1. wire[q] = "flying" /\ wire' = [wire EXCEPT ![q] = "received"] /\ UNCHANGED <<st, log, sent>>
      BY <2>5 DEF RelayReceives, request
    <3>2. sent[q] # None
      BY <2>0, <3>1 DEF RequestInv
    <3>3. \A r \in Requests : GateOutcome(r)' = GateOutcome(r)
      BY <3>1 DEF GateOutcome
    <3>4. {r \in Requests : wire[r] = "received"}' = {r \in Requests : wire[r] = "received"} \cup {q}
      BY <2>0, <3>1 DEF Shape
    <3>5. Gate!Deliver(q)
      BY <3>1, <3>2, <3>3, <3>4 DEF Gate!Deliver
    <3>6. QED
      BY <3>5 DEF Gate!Next
  <2>6. ASSUME NEW q \in Requests, Disconnect(q) PROVE Gate!Next
    <3>1. /\ st[q] \notin Ended /\ st' = [st EXCEPT ![q] = "dropped"]
          /\ UNCHANGED <<log, sent, wire>>
      BY <2>6 DEF Disconnect, request, AtAwait, Ended
    <3>2. GateOutcome(q) = "open"
      BY <2>0, <3>1, GateOutcomeOf
    <3>3. GateOutcome(q)' = "dropped"
      BY <2>0, <3>1 DEF GateOutcome, Shape
    <3>4. [r \in Requests |-> GateOutcome(r)]' =
             [[r \in Requests |-> GateOutcome(r)] EXCEPT ![q] = "dropped"]
      BY <2>0, <3>1, <3>3, OutcomeStep DEF Shape
    <3>5. Gate!GiveUp(q)
      BY <3>1, <3>2, <3>4 DEF Gate!GiveUp, Gate!Open, Gate!End
    <3>6. QED
      BY <3>5 DEF Gate!Next
  <2>7. CASE Tick \/ Finished \/ UNCHANGED vars
    <3>1. UNCHANGED <<st, log, sent, wire>>
      BY <2>7 DEF Tick, Finished, vars, request
    <3>2. \A r \in Requests : GateOutcome(r)' = GateOutcome(r)
      BY <3>1 DEF GateOutcome
    <3>3. QED
      BY <3>1, <3>2 DEF Gate!gatevars
  <2>8. QED
    BY <2>1, <2>2, <2>3, <2>4, <2>5, <2>6, <2>7 DEF Next, Handler, Upstream, Timers
<1>3. QED
  BY <1>1, <1>2, HandlerInvariant, PTL DEF Spec, GateSpec, Gate!Spec

(* Nothing that was answered or dropped is ever answered, logged or sent   *)
(* again (proxy.rs:104-147).                                               *)
THEOREM EndIsFinalHolds == Spec => EndIsFinal
<1> DEFINE Final ==
      \A q \in Requests : st[q] \in Ended =>
          /\ st'[q] = st[q] /\ log'[q] = log[q] /\ sent'[q] = sent[q]
          /\ (st[q] = "done") <=> (log[q] # None)
<1>1. HandlerInv /\ [Next]_vars => [Final]_vars
  <2> SUFFICES ASSUME HandlerInv, Next PROVE Final
    OBVIOUS
  <2>1. SUFFICES ASSUME NEW r \in Requests, st[r] \in Ended
                 PROVE  st'[r] = st[r] /\ log'[r] = log[r] /\ sent'[r] = sent[r]
    BY Zenon DEF HandlerInv
  <2>2. Shape
    BY HandlerInvParts
  <2>3. CASE Tick \/ Finished
    BY <2>3 DEF Tick, Finished, vars, request
  <2>4. ASSUME NEW q \in Requests,
               \/ \E in \in Inputs : Arrive(q, in)
               \/ Admit(q) \/ BodyArrives(q) \/ RelayReceives(q) \/ RelayAnswers(q) \/ Disconnect(q)
        PROVE  st'[r] = st[r] /\ log'[r] = log[r] /\ sent'[r] = sent[r]
    BY <2>1, <2>2, <2>4, Zenon DEF Shape, Ended, AtAwait, Arrive, Admit, BodyArrives, RelayReceives,
                            RelayAnswers, Disconnect, request
  <2>5. ASSUME NEW q \in Requests,
               Judge(q) \/ TakeSlot(q) \/ CredentialFails(q) \/ BodyFails(q) \/ ResponseRead(q)
                  \/ UpstreamFails(q) \/ UpstreamExpires(q) \/ RequestExpires(q)
        PROVE  st'[r] = st[r] /\ log'[r] = log[r] /\ sent'[r] = sent[r]
    <3>1. st[q] \notin Ended /\ UNCHANGED sent
      BY <2>5, Zenon DEF Judge, TakeSlot, CredentialFails, BodyFails, ResponseRead, UpstreamFails,
                  UpstreamExpires, RequestExpires, request, Ended, AtAwait
    <3>2. \/ \E problem : Answer(q, problem)
          \/ (\E s : st' = [st EXCEPT ![q] = s]) /\ UNCHANGED log
      BY <2>5, Zenon DEF Judge, TakeSlot, CredentialFails, BodyFails, ResponseRead, UpstreamFails,
                  UpstreamExpires, RequestExpires
    <3>3. QED
      BY <2>1, <2>2, <3>1, <3>2 DEF Shape, Answer
  <2>6. QED
    BY <2>3, <2>4, <2>5, Zenon DEF Next, Handler, Upstream, Timers
<1>2. QED
  BY <1>1, HandlerInvariant, PTL DEF Spec, EndIsFinal

(* A route that find_server_route answers (routing.rs) is configured,      *)
(* allows the method and names the identity.                               *)
LEMMA RouteIsAllowed ==
    ASSUME NEW routes, NEW method, NEW path, NEW id,
           NEW m \in FindServerRoute(routes, method, path, id)
    PROVE  /\ m.route \in Range(routes)
           /\ method \in m.route.methods
           /\ RouteMatchesClientIdentity(m.route, id)
<1> DEFINE considered == {i \in DOMAIN routes :
                             /\ method \in routes[i].methods
                             /\ RouteMatchesClientIdentity(routes[i], id)
                             /\ routes[i].upstream_prefix # None}
           canonical == The(CanonicalRequestPath(path))
           prefix(i) == The(CanonicalRequestPath(The(routes[i].upstream_prefix)))
           matching == {i \in considered : PrefixMatches(canonical, prefix(i))}
           best == Longest([i \in matching |-> prefix(i)])
<1>1. best \subseteq considered
  BY Zenon DEF Longest
<1>2. PICK i \in best : m = [route |-> routes[i], upstream_path |-> canonical]
  BY Zenon DEF FindServerRoute, None
<1>3. QED
  BY <1>1, <1>2, Zenon DEF Range

-----------------------------------------------------------------------------
\* What an answer of the decision point says about the gates.
DecisionSays(d, r, c) ==
    /\ d.kind \in {"Permit", "PermitWithRedaction", "Deny"}
    /\ d.kind = "Permit" =>
          /\ PolicyOf(r).redaction_fields = {}
          /\ \A g \in Gates \ {"SourceFreshness"} : GateHolds(g, r, c)
          /\ (c.age # None \/ c.at = None) => GateHolds("SourceFreshness", r, c)
    /\ d.kind = "PermitWithRedaction" => PolicyOf(r).redaction_fields # {}
    /\ d.kind = "Deny" => \E g \in Gates : ~GateHolds(g, r, c) /\ d.code = GateCode(g)

(* A permit of the decision point may only have skipped the freshness      *)
(* gate, and only for evidence that has a timestamp and no usable age; a   *)
(* denial names a gate that fails.                                         *)
LEMMA DecisionMeaning ==
    ASSUME NEW r, NEW c, NEW d \in PdpDecisions(r, c)
    PROVE  DecisionSays(d, r, c)
<1> DEFINE failing == {g \in Gates : ~GateHolds(g, r, c)}
           undated == c.age = None /\ c.at # None
           decide(failed) ==
              IF failed # {}
              THEN {[kind |-> "Deny", code |-> GateCode(g)] : g \in failed}
              ELSE IF PolicyOf(r).redaction_fields # {}
                   THEN {[kind |-> "PermitWithRedaction", code |-> ""]}
                   ELSE {[kind |-> "Permit", code |-> ""]}
<1>1. d \in decide(failing) \/ (undated /\ d \in decide(failing \ {"SourceFreshness"}))
  BY Zenon DEF PdpDecisions
<1>2. ASSUME NEW failed, d \in decide(failed)
      PROVE  /\ d.kind \in {"Permit", "PermitWithRedaction", "Deny"}
             /\ d.kind = "Permit" => failed = {} /\ PolicyOf(r).redaction_fields = {}
             /\ d.kind = "PermitWithRedaction" => PolicyOf(r).redaction_fields # {}
             /\ d.kind = "Deny" => \E g \in failed : d.code = GateCode(g)
  <2>1. CASE failed # {}
    <3>1. PICK g \in failed : d = [kind |-> "Deny", code |-> GateCode(g)]
      BY <1>2, <2>1
    <3>2. d.kind = "Deny" /\ d.code = GateCode(g)
      BY <3>1
    <3>3. QED
      BY <3>2
  <2>2. CASE failed = {}
    <3>1. CASE PolicyOf(r).redaction_fields # {}
      <4>1. d = [kind |-> "PermitWithRedaction", code |-> ""]
        BY <1>2, <2>2, <3>1, Zenon
      <4>2. d.kind = "PermitWithRedaction"
        BY <4>1, Zenon
      <4>3. QED
        BY <3>1, <4>2
    <3>2. CASE PolicyOf(r).redaction_fields = {}
      <4>1. d = [kind |-> "Permit", code |-> ""]
        BY <1>2, <2>2, <3>2, Zenon
      <4>2. d.kind = "Permit"
        BY <4>1, Zenon
      <4>3. QED
        BY <2>2, <3>2, <4>2
    <3>3. QED
      BY <3>1, <3>2
  <2>3. QED
    BY <2>1, <2>2
<1>3. \A g \in Gates : ~GateHolds(g, r, c) <=> g \in failing
  OBVIOUS
<1>4. failing \subseteq Gates /\ "SourceFreshness" \in Gates
  BY DEF Gates
<1> HIDE DEF failing, decide
<1>5. CASE d \in decide(failing)
  BY <1>2, <1>3, <1>4, <1>5 DEF DecisionSays
<1>6. CASE undated /\ d \in decide(failing \ {"SourceFreshness"})
  BY <1>2, <1>3, <1>4, <1>6 DEF DecisionSays
<1>7. QED
  BY <1>1, <1>5, <1>6

\* The ways in which authorize_server_purpose comes to its verdict.
VerdictSays(v, r, h, scopes, c) ==
    \/ \E problem \in {Problem("PurposeDenied"), Problem("PurposeRequired")} : v = Refused(problem)
    \/ v = Refused(PdpDenied("EVIDENCE_STALE")) /\ EvidenceMalformed(h, scopes)
    \/ /\ r.purposes = {} /\ ~r.require_purpose /\ r.governed = None
       /\ ~RepeatedPurpose(h) /\ v = Granted(DataPurposes(h))
    \/ /\ ~RepeatedPurpose(h) /\ DataPurposes(h) # None
       /\ r.require_purpose => PurposeConstraints(r) # {}
       /\ ~EvidenceMalformed(h, scopes)
       /\ \E d \in PdpDecisions(r, c) : v = PdpVerdict(d, The(DataPurposes(h)))

(* authorize_server_purpose grants in two ways: to a route that asks for   *)
(* nothing, or with a permit of the decision point for the stated purpose  *)
(* (proxy.rs:329-409).                                                     *)
LEMMA VerdictMeaning ==
    ASSUME NEW r, NEW h, NEW es, NEW id, NEW time,
           NEW v \in AuthorizeServerPurpose(r, h, es, id, time)
    PROVE  LET scopes == TrustedScopes(r, es, id)
           IN  VerdictSays(v, r, h, scopes, PdpContext(The(DataPurposes(h)), h, scopes, time))
  BY DEF AuthorizeServerPurpose, VerdictSays

(* The problems and verdicts differ in what they say of themselves.        *)
LEMMA VerdictFields ==
    /\ \A problem : Refused(problem).problem = problem /\ ~Refused(problem).ok
    /\ \A stated : Granted(stated).problem = NoProblem /\ Granted(stated).purpose = stated
                     /\ Granted(stated).ok
    /\ \A code : PdpDenied(code) # NoProblem /\ PdpDenied(code).kind = "PdpDenied"
                    /\ PdpDenied(code).code = code
    /\ \A kind : Problem(kind).kind = kind
    /\ NoProblem.kind = ""
<1>1. \A problem : Refused(problem).problem = problem /\ ~Refused(problem).ok
  BY DEF Refused
<1>2. \A stated : Granted(stated).problem = NoProblem /\ Granted(stated).purpose = stated
                     /\ Granted(stated).ok
  BY DEF Granted
<1>3. \A code : PdpDenied(code).kind = "PdpDenied" /\ PdpDenied(code).code = code
  BY DEF PdpDenied
<1>4. \A kind : Problem(kind).kind = kind
  BY DEF Problem
<1>5. NoProblem.kind = ""
  BY <1>4, Zenon DEF NoProblem
<1>6. QED
  BY <1>1, <1>2, <1>3, <1>4, <1>5, Zenon

(* single_data_purpose answers the one value that is stated.               *)
LEMMA OnePurpose ==
    ASSUME NEW h, ~RepeatedPurpose(h), DataPurposes(h) # None
    PROVE  Some(The(DataPurposes(h))) = DataPurposes(h)
<1>1. PICK i \in StatedAt(h) : TRUE
  BY DEF DataPurposes, None
<1>2. \A j \in StatedAt(h) : j = i
  BY <1>1 DEF RepeatedPurpose
<1>3. DataPurposes(h) = {Trim(h.purposes[i])}
  BY <1>1, <1>2 DEF DataPurposes
<1>4. QED
  BY <1>3 DEF Some, The

\* What a grant of authorize_server_purpose rests on.
GrantSays(v, r, h, scopes, c) ==
    /\ ~RepeatedPurpose(h) /\ v = Granted(DataPurposes(h))
    /\ \/ r.purposes = {} /\ ~r.require_purpose /\ r.governed = None
       \/ /\ DataPurposes(h) # None /\ ~EvidenceMalformed(h, scopes)
          /\ r.require_purpose => PurposeConstraints(r) # {}
          /\ \E d \in PdpDecisions(r, c) : d.kind = "Permit"

(* authorize_server_purpose passes on what is stated, once, and only with  *)
(* a permit unless the route asks for nothing.                             *)
LEMMA GrantMeaning ==
    ASSUME NEW r, NEW h, NEW es, NEW id, NEW time,
           NEW v \in AuthorizeServerPurpose(r, h, es, id, time), v.problem = NoProblem \/ v.ok
    PROVE  LET scopes == TrustedScopes(r, es, id)
           IN  GrantSays(v, r, h, scopes, PdpContext(The(DataPurposes(h)), h, scopes, time))
<1> DEFINE scopes == TrustedScopes(r, es, id)
           stated == The(DataPurposes(h))
           c == PdpContext(stated, h, scopes, time)
           asked == /\ ~RepeatedPurpose(h) /\ DataPurposes(h) # None
                    /\ r.require_purpose => PurposeConstraints(r) # {}
                    /\ ~EvidenceMalformed(h, scopes)
<1>1. \A problem : problem # NoProblem => v # Refused(problem)
  BY VerdictFields, Zenon
<1>2. /\ Problem("PurposeDenied") # NoProblem /\ Problem("PurposeRequired") # NoProblem
      /\ \A code : PdpDenied(code) # NoProblem
  <2>1. Problem("PurposeDenied").kind = "PurposeDenied" /\ Problem("PurposeRequired").kind = "PurposeRequired"
    BY DEF Problem
  <2>2. QED
    BY <2>1, VerdictFields, Zenon
<1>3. \/ /\ r.purposes = {} /\ ~r.require_purpose /\ r.governed = None
         /\ ~RepeatedPurpose(h) /\ v = Granted(DataPurposes(h))
      \/ asked /\ \E d \in PdpDecisions(r, c) : v = PdpVerdict(d, stated)
  <2>1. VerdictSays(v, r, h, scopes, c)
    BY VerdictMeaning
  <2> HIDE DEF scopes, c
  <2>2. QED
    BY <1>1, <1>2, <2>1, Zenon DEF VerdictSays
<1>4. ASSUME asked, NEW d \in PdpDecisions(r, c), v = PdpVerdict(d, stated)
      PROVE  d.kind = "Permit" /\ v = Granted(DataPurposes(h))
  <2> HIDE DEF scopes, c
  <2>0. DecisionSays(d, r, c)
    BY <1>4, DecisionMeaning
  <2>1. d.kind \in {"Permit", "PermitWithRedaction", "Deny"}
    BY <2>0 DEF DecisionSays
  <2>2. d.kind = "Permit" /\ v = Granted(Some(stated))
    <3> HIDE DEF stated, asked
    <3>1. QED
      BY <1>1, <1>2, <1>4, <2>1 DEF PdpVerdict
  <2>3. QED
    BY <1>4, <2>2, OnePurpose
<1>5. GrantSays(v, r, h, scopes, c)
  <2> HIDE DEF scopes, c
  <2>1. QED
    BY <1>3, <1>4, Zenon DEF GrantSays
<1>6. QED
  BY <1>5

(* A request the server connector authorizes has the purpose its headers   *)
(* state, and nothing else.                                                *)
LEMMA AuthorizedPurpose ==
    ASSUME NEW in, NEW time, NEW v \in Authorize(in, time), v.problem = NoProblem
    PROVE  v.purpose = DataPurposes(in.headers)
<1> DEFINE ids == UNION {VerifyPeer(Config.trust, d, time) : d \in in.chain}
           match == FindServerRoute(Config.routes, in.method, in.path, The(ids))
           verdicts == AuthorizeServerPurpose(The(match).route, in.headers,
                                              Config.trust.entitlements, The(ids), time)
<1>1. \A kind \in {"ClientIdentityMissing", "ClientIdentityDenied", "RouteDenied"} :
         v # Judgement(Problem(kind))
  <2>1. \A kind \in {"ClientIdentityMissing", "ClientIdentityDenied", "RouteDenied"} :
           Problem(kind) # NoProblem
    BY Zenon DEF Problem, NoProblem
  <2>2. \A problem : Judgement(problem).problem = problem
    BY DEF Judgement
  <2>3. QED
    BY <2>1, <2>2
<1>2. PICK w \in verdicts :
         v = [problem |-> w.problem, key |-> <<The(ids), The(match).route.id>>, purpose |-> w.purpose]
  BY <1>1, Zenon DEF Authorize
<1>3. w.problem = NoProblem /\ v.purpose = w.purpose
  BY <1>2, Zenon
<1> HIDE DEF ids, match
<1>4. w = Granted(DataPurposes(in.headers))
  <2> DEFINE scopes == TrustedScopes(The(match).route, Config.trust.entitlements, The(ids))
             c == PdpContext(The(DataPurposes(in.headers)), in.headers, scopes, time)
  <2>1. GrantSays(w, The(match).route, in.headers, scopes, c)
    BY <1>2, <1>3, GrantMeaning
  <2> HIDE DEF scopes, c
  <2>2. QED
    BY <2>1, Zenon DEF GrantSays
<1>5. QED
  BY <1>3, <1>4, VerdictFields, Zenon
=============================================================================
