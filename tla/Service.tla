------------------------------- MODULE Service -------------------------------
(***************************************************************************)
(* The HTTP service, src/src/service.rs, in the process src/src/main.rs    *)
(* starts: concurrent requests share an immutable scanner and a pool of    *)
(* workers, a scan keeps its worker until it is done, and a signal drains  *)
(* the requests in flight before the process ends.                         *)
(*                                                                         *)
(* The runtime, the HTTP stack and the JSON extractor are external: a body *)
(* is received piece by piece and refused as soon as it is over the limit, *)
(* a panicking handler loses its own connection only, and a graceful       *)
(* shutdown accepts nothing new and waits for what was accepted.           *)
(***************************************************************************)
EXTENDS Startup, FiniteSets

CONSTANTS
  Requests,        \* the requests clients send
  RequestKinds,    \* what a request may ask
  Workers,         \* the worker threads of the runtime
  Allowance        \* JSON_ENVELOPE_ALLOWANCE

ASSUME ServiceAssumption ==
  /\ Workers \in Nat \ {0} /\ Allowance \in Nat /\ Word \in Nat \ {0}
  /\ DefaultMaxBody \in 0..(Word - 1)
  /\ Minimum \in [TableNames -> Nat \ {0}]
  /\ \A e \in Environments :
       /\ \A t \in TableNames : e.files[t] \in Files /\ e.files[t].empty <= e.files[t].rows
       /\ e.maxBody \in LimitVariables
       /\ {e.patternsSound, e.bindable} \subseteq BOOLEAN
  /\ \A k \in RequestKinds : k.body \in Nat /\ k.text \in Nat /\ k.text <= k.body

VARIABLES
  phase,      \* idle -> started -> [scanning ->] answered or dropped
  request,    \* what each request asks
  received,   \* how much of its body has been buffered
  gone,       \* the clients that hung up
  answer      \* the response of each answered request

serviceVars == <<environment, stage, loaded, tables, limit, phase, request, received, gone, answer>>

NoAnswer == "none"
Unasked == [endpoint |-> "none", body |-> 0, text |-> 0, wellFormed |-> FALSE,
            documented |-> FALSE, panics |-> FALSE]

InFlight == {r \in Requests : phase[r] \in {"started", "scanning"}}
WorkerFree == Cardinality({r \in Requests : phase[r] = "scanning"}) < Workers

(* router: the body limit leaves room for the JSON around the fragment, and adds in usize. *)
BodyLimit_NoAllowance == limit                       \* Mutant: no room for the envelope.
BodyLimit == (limit + Allowance) % Word

Init ==
  /\ StartupInit
  /\ phase = [r \in Requests |-> "idle"]
  /\ request = [r \in Requests |-> Unasked]
  /\ received = [r \in Requests |-> 0]
  /\ gone = {}
  /\ answer = [r \in Requests |-> NoAnswer]

Boot == StartupNext /\ UNCHANGED <<phase, request, received, gone, answer>>

(* A connection is accepted and the head of its request is read. *)
Open(r) ==
  /\ stage = "serving"
  /\ phase[r] = "idle"
  /\ \E k \in RequestKinds : request' = [request EXCEPT ![r] = k]
  /\ phase' = [phase EXCEPT ![r] = "started"]
  /\ UNCHANGED <<startupVars, received, gone, answer>>

(* The handler's response goes out, unless there is nobody left to take it. *)
Respond(r, what) ==
  /\ phase' = [phase EXCEPT ![r] = IF r \in gone THEN "dropped" ELSE "answered"]
  /\ answer' = [answer EXCEPT ![r] = IF r \in gone THEN NoAnswer ELSE what]
  /\ UNCHANGED <<startupVars, request, received, gone>>

Runs(r, endpoints) == phase[r] = "started" /\ request[r].endpoint \in endpoints /\ WorkerFree

Health(r) ==
  /\ Runs(r, {"health"})
  /\ Respond(r, IF IncompleteTables = {} THEN "ok" ELSE "degraded")

ListRules(r) == Runs(r, {"rules"}) /\ Respond(r, "ok")

RuleDoc(r) ==
  /\ Runs(r, {"rule"})
  /\ Respond(r, IF request[r].documented THEN "ok" ELSE "not_found")

(***************************************************************************)
(* The next piece of a body.  The extractor stops at the limit, so no more *)
(* than the limit is ever held, whatever the client goes on to send.       *)
(***************************************************************************)
Receive(r) ==
  /\ Runs(r, {"scan", "explain"})
  /\ received[r] < request[r].body
  /\ IF received[r] + 1 > BodyLimit
       THEN Respond(r, "body_too_large")
       ELSE /\ received' = [received EXCEPT ![r] = @ + 1]
            /\ UNCHANGED <<startupVars, phase, request, gone, answer>>

BodyComplete(r) == received[r] = request[r].body

Explain(r) ==
  /\ Runs(r, {"explain"}) /\ BodyComplete(r)
  /\ Respond(r, IF ~ request[r].wellFormed THEN "malformed"
                ELSE IF request[r].documented THEN "ok" ELSE "not_found")

TooLong(r) == request[r].text > limit

(* The first half of the scan handler: refuse, or start the scan on this worker. *)
Scan(r) ==
  /\ Runs(r, {"scan"}) /\ BodyComplete(r)
  /\ IF ~ request[r].wellFormed THEN Respond(r, "malformed")
     ELSE IF TooLong(r) THEN Respond(r, "fragment_too_large")
     ELSE /\ phase' = [phase EXCEPT ![r] = "scanning"]
          /\ UNCHANGED <<startupVars, request, received, gone, answer>>

(* Mutant: the answer is handed to another worker. *)
ScanDone_NeedsAWorker(r) ==
  phase[r] = "scanning" /\ ~ request[r].panics /\ WorkerFree /\ Respond(r, "ok")
ScanDone(r) == phase[r] = "scanning" /\ ~ request[r].panics /\ Respond(r, "ok")

(* Mutant: a panic aborts the process, and with it every request in flight. *)
ScanPanics_Aborts(r) ==
  /\ phase[r] = "scanning" /\ request[r].panics
  /\ phase' = [q \in Requests |-> IF q \in InFlight THEN "dropped" ELSE phase[q]]
  /\ stage' = "ended"
  /\ UNCHANGED <<environment, loaded, tables, limit, request, received, gone, answer>>

(* A validator panics: the task unwinds and its connection closes without a response. *)
ScanPanics(r) ==
  /\ phase[r] = "scanning" /\ request[r].panics
  /\ phase' = [phase EXCEPT ![r] = "dropped"]
  /\ UNCHANGED <<startupVars, request, received, gone, answer>>

(***************************************************************************)
(* The client hangs up.  A handler that waits for the body is dropped with *)
(* the connection; one that scans does not notice before it is done.       *)
(***************************************************************************)
HangUp(r) ==
  /\ r \in InFlight /\ r \notin gone
  /\ gone' = gone \union {r}
  /\ phase' = IF phase[r] = "scanning" THEN phase ELSE [phase EXCEPT ![r] = "dropped"]
  /\ UNCHANGED <<startupVars, request, received, answer>>

(* SIGTERM or Ctrl-C: before main listens for them, they end the process at once. *)
Signal ==
  /\ Starting \/ stage = "serving"
  /\ stage' = IF Starting THEN "killed" ELSE "draining"
  /\ UNCHANGED <<environment, loaded, tables, limit, phase, request, received, gone, answer>>

Exit_WhenAllAnswered ==                              \* Mutant: a dropped request is waited for.
  /\ stage = "draining" /\ \A r \in Requests : phase[r] \in {"idle", "answered"}
  /\ stage' = "ended"
  /\ UNCHANGED <<environment, loaded, tables, limit, phase, request, received, gone, answer>>
Exit ==
  /\ stage = "draining" /\ InFlight = {}
  /\ stage' = "ended"
  /\ UNCHANGED <<environment, loaded, tables, limit, phase, request, received, gone, answer>>

Handle(r) ==
  \/ Health(r)
  \/ ListRules(r)
  \/ RuleDoc(r)
  \/ Explain(r)
  \/ Scan(r)
  \/ ScanDone(r)
  \/ ScanPanics(r)

Next ==
  \/ Boot
  \/ Signal
  \/ Exit
  \/ \E r \in Requests : Open(r) \/ Receive(r) \/ Handle(r) \/ HangUp(r)

Spec == Init /\ [][Next]_serviceVars

(***************************************************************************)
(* The runtime polls every task that can go on, and a scan always ends, so *)
(* the process is fair to each request.  The one thing taken from outside  *)
(* is that a client that stays goes on sending the body it announced.      *)
(***************************************************************************)
FairSpec ==
  /\ Spec
  /\ WF_serviceVars(Boot)
  /\ WF_serviceVars(Exit)
  /\ \A r \in Requests : WF_serviceVars(Handle(r)) /\ WF_serviceVars(Receive(r))

-----------------------------------------------------------------------------
(* Every part of the process state has its shape. *)
TypeOK ==
  /\ environment \in Environments
  /\ stage \in {"load", "compile", "limit", "bind", "serving", "draining", "ended", "refused", "killed"}
  /\ loaded \in 0..Len(Tables)
  /\ tables \in [TableNames -> Nat]
  /\ limit \in 0..(Word - 1)
  /\ phase \in [Requests -> {"idle", "started", "scanning", "answered", "dropped"}]
  /\ request \in [Requests -> RequestKinds \union {Unasked}]
  /\ \A r \in Requests : received[r] \in 0..request[r].body
  /\ gone \subseteq Requests
  /\ answer \in [Requests -> {NoAnswer, "ok", "degraded", "not_found", "malformed",
                              "body_too_large", "fragment_too_large"}]

(***************************************************************************)
(* A service that is up never runs on tables it could not fill: no rule is *)
(* switched off behind a process that answers, and /health never has to    *)
(* say "degraded".                                                         *)
(***************************************************************************)
HealthNeverDegraded == \A r \in Requests : answer[r] # "degraded"

(***************************************************************************)
(* The two layers of the size limit meet.  A body with a fragment within   *)
(* the limit and an envelope within the allowance is never refused for its *)
(* size; a fragment over the limit is never scanned, and gets the precise  *)
(* error when its body fits.  It is claimed where the sum fits usize.      *)
(***************************************************************************)
SizeErrorsArePrecise ==
  limit + Allowance < Word =>
    \A r \in Requests : request[r].endpoint = "scan" =>
      /\ answer[r] = "body_too_large" => request[r].body > limit + Allowance
      /\ answer[r] = "fragment_too_large" <=>
           phase[r] = "answered" /\ request[r].wellFormed
             /\ request[r].text > limit /\ request[r].body <= limit + Allowance
      /\ phase[r] = "scanning" \/ answer[r] = "ok" => request[r].text <= limit

(***************************************************************************)
(* Requests are isolated: one that was accepted goes unanswered only if    *)
(* its own text makes a validator panic or its own client hung up, never   *)
(* for another request or for the shutdown.                                *)
(***************************************************************************)
DroppedForItsOwnReason ==
  \A r \in Requests : phase[r] = "dropped" => request[r].panics \/ r \in gone

(* No answer waits for ever behind long scans, as long as its client sends what it announced. *)
EveryRequestEnds ==
  \A r \in Requests : phase[r] = "started" ~> phase[r] \in {"answered", "dropped"}

(* A signal ends the process, src/src/main.rs:62. *)
ShutdownEnds == stage = "draining" ~> stage = "ended"

=============================================================================
