---------------------------- MODULE Service_proofs ----------------------------
(***************************************************************************)
(* Proofs about the process and its requests for every environment it may  *)
(* be started in, every set of requests and every limit.                   *)
(***************************************************************************)
EXTENDS Service, TLAPS

Stages == {"load", "compile", "limit", "bind", "serving", "draining", "ended", "refused", "killed"}
Phases == {"idle", "started", "scanning", "answered", "dropped"}
Answers == {NoAnswer, "ok", "degraded", "not_found", "malformed", "body_too_large", "fragment_too_large"}

(* The process came up: only then was any request accepted. *)
Up == stage \in {"serving", "draining", "ended"}

-----------------------------------------------------------------------------
(* The start. *)

LEMMA EntriesAreCounted ==
  ASSUME NEW e \in Environments, NEW t \in TableNames
  PROVE  Entries(t, e.files[t]) \in Nat
<1>1. e.files[t] \in Files /\ e.files[t].empty <= e.files[t].rows
  BY ServiceAssumption
<1>2. e.files[t].rows \in Nat /\ e.files[t].empty \in Nat
  BY <1>1 DEF Files
<1>3. e.files[t].rows - e.files[t].empty \in Nat
  BY <1>1, <1>2
<1> QED BY <1>2, <1>3 DEF Entries

LEMMA TableNamesInOrder ==
  /\ Len(Tables) = 6
  /\ \A i \in 0..5 : Tables[i + 1] \in TableNames
<1>1. Len(Tables) = 6 /\ DOMAIN Tables = 1..6
  BY DEF Tables
<1>2. \A i \in 0..5 : i + 1 \in DOMAIN Tables
  BY <1>1
<1> QED BY <1>1, <1>2 DEF TableNames

LEMMA ParsedLimitFits ==
  ASSUME NEW e \in Environments, Parses(e.maxBody)
  PROVE  e.maxBody.value \in 0..(Word - 1)
<1>1. e.maxBody.value \in Nat /\ Word \in Nat
  BY ServiceAssumption DEF LimitVariables
<1> QED BY <1>1 DEF Parses

(***************************************************************************)
(* Every stage behind the check of the tables has them all filled.         *)
(***************************************************************************)
TablesInv == stage \in {"compile", "limit", "bind", "serving", "draining", "ended"} => IncompleteTables = {}

LEMMA BootIsTyped ==
  ASSUME TypeOK, StartupNext
  PROVE  /\ environment' = environment
         /\ stage' \in Stages /\ stage' \notin {"draining", "ended"}
         /\ loaded' \in 0..Len(Tables)
         /\ tables' \in [TableNames -> Nat]
         /\ limit' \in 0..(Word - 1)
<1>1. /\ environment \in Environments /\ loaded \in 0..Len(Tables)
      /\ tables \in [TableNames -> Nat] /\ limit \in 0..(Word - 1)
  BY DEF TypeOK
<1>2. CASE LoadTable
  <2> DEFINE t == Tables[loaded + 1]
  <2>1. t \in TableNames /\ loaded + 1 \in 0..Len(Tables)
    BY <1>1, <1>2, TableNamesInOrder DEF LoadTable
  <2>2. Entries(t, environment.files[t]) \in Nat
    BY <1>1, <2>1, EntriesAreCounted
  <2>3. tables' \in [TableNames -> Nat] /\ loaded' \in 0..Len(Tables)
    BY <1>1, <1>2, <2>1, <2>2 DEF LoadTable
  <2> QED BY <1>1, <1>2, <2>3 DEF LoadTable, Stages
<1>3. CASE CheckTables
  BY <1>1, <1>3 DEF CheckTables, Stages
<1>4. CASE CompileRules
  BY <1>1, <1>4 DEF CompileRules, Stages
<1>5. CASE ReadLimit
  <2>1. limit' \in 0..(Word - 1)
    BY <1>1, <1>5, ParsedLimitFits, ServiceAssumption DEF ReadLimit
  <2> QED BY <1>1, <1>5, <2>1 DEF ReadLimit, Stages
<1>6. CASE Bind
  BY <1>1, <1>6 DEF Bind, Stages
<1> QED BY <1>2, <1>3, <1>4, <1>5, <1>6 DEF StartupNext

LEMMA BootKeepsTablesInv ==
  ASSUME TablesInv, StartupNext
  PROVE  TablesInv' /\ ~ Up
BY DEF TablesInv, IncompleteTables, StartupNext, LoadTable, CheckTables, CompileRules, ReadLimit, Bind, Up

-----------------------------------------------------------------------------
(***************************************************************************)
(* The inductive invariant.  RequestInv is what the life of one request    *)
(* amounts to: nothing happens to it before it is accepted, it is accepted *)
(* only by a process that is up, what is held of its body stays within the *)
(* limit of the router, and it has an answer only when it is answered.     *)
(***************************************************************************)
LifeInv(r) ==
  /\ phase[r] = "idle" => received[r] = 0
  /\ phase[r] # "idle" => Up
  /\ answer[r] # NoAnswer => phase[r] = "answered"
  /\ answer[r] # "degraded"

SizeInv(r) ==
  limit + Allowance < Word /\ request[r].endpoint = "scan" =>
    /\ phase[r] # "idle" => received[r] <= limit + Allowance
    /\ answer[r] = "body_too_large" => request[r].body > limit + Allowance
    /\ answer[r] = "fragment_too_large" <=>
         phase[r] = "answered" /\ request[r].wellFormed
           /\ request[r].text > limit /\ request[r].body <= limit + Allowance
    /\ phase[r] = "scanning" \/ answer[r] = "ok" => request[r].text <= limit

DropInv(r) == phase[r] = "dropped" => request[r].panics \/ r \in gone

RequestInv(r) == LifeInv(r) /\ SizeInv(r) /\ DropInv(r)

ServiceInv ==
  /\ TypeOK
  /\ received \in [Requests -> Nat]
  /\ TablesInv
  /\ \A r \in Requests : RequestInv(r)

LEMMA InitServiceInv == Init => ServiceInv
<1> SUFFICES ASSUME Init PROVE ServiceInv
  OBVIOUS
<1>1. TypeOK /\ received \in [Requests -> Nat]
  BY ServiceAssumption DEF Init, StartupInit, TypeOK, Unasked, NoAnswer
<1>2. TablesInv
  BY DEF Init, StartupInit, TablesInv
<1>3. ASSUME NEW r \in Requests PROVE RequestInv(r)
  BY DEF Init, RequestInv, LifeInv, SizeInv, DropInv, Unasked, NoAnswer
<1> QED BY <1>1, <1>2, <1>3 DEF ServiceInv

LEMMA RequestsAreTyped ==
  ASSUME ServiceInv, NEW r \in Requests
  PROVE  /\ request[r].body \in Nat /\ request[r].text \in Nat
         /\ received[r] \in Nat /\ received[r] <= request[r].body
         /\ limit \in Nat /\ Allowance \in Nat /\ Word \in Nat \ {0}
         /\ phase[r] \in Phases /\ answer[r] \in Answers
         /\ limit + Allowance < Word => BodyLimit = limit + Allowance
<1>1. request[r] \in RequestKinds \union {Unasked} /\ received[r] \in 0..request[r].body
      /\ phase[r] \in Phases /\ answer[r] \in Answers /\ received[r] \in Nat
  BY DEF ServiceInv, TypeOK, Phases, Answers
<1>2. request[r].body \in Nat /\ request[r].text \in Nat
  BY <1>1, ServiceAssumption DEF Unasked
<1>3. Word \in Nat \ {0} /\ Allowance \in Nat
  BY ServiceAssumption
<1>4. limit \in Nat
  BY <1>3 DEF ServiceInv, TypeOK
<1>5. ASSUME limit + Allowance < Word PROVE BodyLimit = limit + Allowance
  <2> DEFINE n == limit + Allowance
  <2>1. n \in Nat /\ n < Word
    BY <1>3, <1>4, <1>5
  <2>2. n % Word = n
    <3> HIDE DEF n
    <3> QED BY <1>3, <2>1
  <2> QED BY <2>2 DEF BodyLimit
<1> QED BY <1>1, <1>2, <1>3, <1>4, <1>5

(* What a step leaves alone about a request keeps its invariant. *)
LEMMA OthersKeepTheirInv ==
  ASSUME NEW q, RequestInv(q), UNCHANGED limit, Up => Up',
         phase'[q] = phase[q], request'[q] = request[q], received'[q] = received[q],
         answer'[q] = answer[q], q \in gone => q \in gone'
  PROVE  RequestInv(q)'
BY DEF RequestInv, LifeInv, SizeInv, DropInv

-----------------------------------------------------------------------------
(* The steps of the process. *)

LEMMA BootKeepsInv == ASSUME ServiceInv, Boot PROVE ServiceInv'
<1>1. /\ StartupNext /\ UNCHANGED <<phase, request, received, gone, answer>>
      /\ TypeOK /\ TablesInv /\ received \in [Requests -> Nat]
  BY DEF ServiceInv, Boot
<1>2. TypeOK'
  BY <1>1, BootIsTyped DEF TypeOK, Stages
<1>3. TablesInv' /\ ~ Up
  BY <1>1, BootKeepsTablesInv
<1>4. ASSUME NEW r \in Requests PROVE RequestInv(r)'
  <2>1. RequestInv(r) /\ phase[r] = "idle" /\ answer[r] = NoAnswer
    BY <1>3 DEF ServiceInv, RequestInv, LifeInv
  <2> QED BY <1>1, <2>1 DEF RequestInv, LifeInv, SizeInv, DropInv, NoAnswer
<1> QED BY <1>1, <1>2, <1>3, <1>4 DEF ServiceInv

LEMMA SignalAndExitKeepInv == ASSUME ServiceInv, Signal \/ Exit PROVE ServiceInv'
<1>1. /\ UNCHANGED <<environment, loaded, tables, limit, phase, request, received, gone, answer>>
      /\ stage' \in {"killed", "draining", "ended"}
      /\ stage' = "draining" => stage = "serving"
      /\ stage' = "ended" => stage = "draining"
      /\ stage' = "killed" => ~ Up
  BY DEF Signal, Exit, Starting, Up
<1>2. TypeOK' /\ (received \in [Requests -> Nat])'
  BY <1>1 DEF ServiceInv, TypeOK
<1>3. TablesInv'
  BY <1>1 DEF ServiceInv, TablesInv, IncompleteTables
<1>4. ASSUME NEW r \in Requests PROVE RequestInv(r)'
  <2>1. RequestInv(r) /\ (Up => Up')
    BY <1>1 DEF ServiceInv, Up
  <2> QED BY <1>1, <2>1, OthersKeepTheirInv
<1> QED BY <1>2, <1>3, <1>4 DEF ServiceInv

-----------------------------------------------------------------------------
(* The steps of one request. *)

LEMMA StepOfOneRequest ==
  ASSUME ServiceInv, NEW r \in Requests, UNCHANGED startupVars,
         TypeOK', (received \in [Requests -> Nat])', RequestInv(r)', gone \subseteq gone',
         \A q \in Requests \ {r} : /\ phase'[q] = phase[q] /\ request'[q] = request[q]
                                   /\ received'[q] = received[q] /\ answer'[q] = answer[q]
  PROVE  ServiceInv'
<1>1. TablesInv' /\ (Up => Up') /\ UNCHANGED limit
  BY DEF ServiceInv, TablesInv, IncompleteTables, Up, startupVars
<1>2. ASSUME NEW q \in Requests PROVE RequestInv(q)'
  <2>1. RequestInv(q)
    BY DEF ServiceInv
  <2> QED BY <1>1, <2>1, OthersKeepTheirInv
<1> QED BY <1>1, <1>2 DEF ServiceInv

LEMMA OpenKeepsInv == ASSUME ServiceInv, NEW r \in Requests, Open(r) PROVE ServiceInv'
<1>1. PICK k \in RequestKinds : request' = [request EXCEPT ![r] = k]
  BY DEF Open
<1>2. /\ stage = "serving" /\ phase[r] = "idle" /\ phase' = [phase EXCEPT ![r] = "started"]
      /\ UNCHANGED <<startupVars, received, gone, answer>>
  BY DEF Open
<1>3. TypeOK /\ RequestInv(r) /\ received \in [Requests -> Nat]
  BY DEF ServiceInv
<1>4. received[r] = 0 /\ answer[r] = NoAnswer /\ k.body \in Nat /\ Allowance \in Nat /\ limit \in Nat
  BY <1>2, <1>3, ServiceAssumption DEF RequestInv, LifeInv, TypeOK
<1>5. request'[r] = k /\ phase'[r] = "started"
  BY <1>1, <1>2, <1>3 DEF TypeOK
<1>6. request' \in [Requests -> RequestKinds \union {Unasked}]
  BY <1>1, <1>3 DEF TypeOK
<1>7. \A q \in Requests : received'[q] \in 0..request'[q].body
  BY <1>1, <1>2, <1>3, <1>4, <1>5 DEF TypeOK
<1>8. TypeOK'
  BY <1>2, <1>3, <1>6, <1>7 DEF TypeOK, startupVars
<1>9. RequestInv(r)'
  <2>1. LifeInv(r)'
    BY <1>2, <1>4, <1>5 DEF LifeInv, Up, startupVars, NoAnswer
  <2>2. SizeInv(r)'
    BY <1>2, <1>4, <1>5 DEF SizeInv, startupVars, NoAnswer
  <2>3. DropInv(r)'
    BY <1>5 DEF DropInv
  <2> QED BY <2>1, <2>2, <2>3 DEF RequestInv
<1>10. \A q \in Requests \ {r} : phase'[q] = phase[q] /\ request'[q] = request[q]
  BY <1>1, <1>2, <1>3 DEF TypeOK
<1> QED BY <1>2, <1>3, <1>8, <1>9, <1>10, StepOfOneRequest

(***************************************************************************)
(* A response that is right for the request keeps the invariant.           *)
(***************************************************************************)
Fitting(r, what) ==
  /\ what \in Answers \ {NoAnswer, "degraded"}
  /\ limit + Allowance < Word /\ request[r].endpoint = "scan" =>
       /\ what = "body_too_large" => request[r].body > limit + Allowance
       /\ what = "fragment_too_large" <=>
            request[r].wellFormed /\ request[r].text > limit /\ request[r].body <= limit + Allowance
       /\ what = "ok" => request[r].text <= limit

LEMMA RespondKeepsInv ==
  ASSUME ServiceInv, NEW r \in Requests, phase[r] \in {"started", "scanning"},
         NEW what, Fitting(r, what), Respond(r, what)
  PROVE  ServiceInv'
<1>1. TypeOK /\ RequestInv(r) /\ received \in [Requests -> Nat] /\ Up
  BY DEF ServiceInv, RequestInv, LifeInv
<1>2. /\ phase' = [phase EXCEPT ![r] = IF r \in gone THEN "dropped" ELSE "answered"]
      /\ answer' = [answer EXCEPT ![r] = IF r \in gone THEN NoAnswer ELSE what]
      /\ UNCHANGED <<startupVars, request, received, gone>>
  BY DEF Respond
<1>3. /\ phase'[r] = IF r \in gone THEN "dropped" ELSE "answered"
      /\ answer'[r] = IF r \in gone THEN NoAnswer ELSE what
  BY <1>1, <1>2 DEF TypeOK
<1>4. /\ phase' \in [Requests -> Phases]
      /\ answer' \in [Requests -> Answers]
  BY <1>1, <1>2 DEF TypeOK, Fitting, Phases, Answers
<1>5. TypeOK'
  BY <1>1, <1>2, <1>4 DEF TypeOK, startupVars, Phases, Answers
<1>6. RequestInv(r)'
  <2>1. LifeInv(r)'
    BY <1>1, <1>2, <1>3 DEF LifeInv, Up, startupVars, Fitting, NoAnswer
  <2>2. SizeInv(r)'
    BY <1>1, <1>2, <1>3 DEF RequestInv, SizeInv, startupVars, Fitting, NoAnswer
  <2>3. DropInv(r)'
    BY <1>2, <1>3 DEF DropInv
  <2> QED BY <2>1, <2>2, <2>3 DEF RequestInv
<1>7. \A q \in Requests \ {r} : phase'[q] = phase[q] /\ answer'[q] = answer[q]
  BY <1>1, <1>2 DEF TypeOK
<1> QED BY <1>1, <1>2, <1>5, <1>6, <1>7, StepOfOneRequest

(* A body that was received whole is within the limit of the router. *)
LEMMA CompleteBodiesFit ==
  ASSUME ServiceInv, NEW r \in Requests, phase[r] = "started", BodyComplete(r),
         request[r].endpoint = "scan", limit + Allowance < Word
  PROVE  request[r].body <= limit + Allowance
BY DEF ServiceInv, RequestInv, SizeInv, BodyComplete

LEMMA ReceiveKeepsInv == ASSUME ServiceInv, NEW r \in Requests, Receive(r) PROVE ServiceInv'
<1>1. TypeOK /\ RequestInv(r) /\ received \in [Requests -> Nat] /\ phase[r] = "started"
      /\ received[r] < request[r].body
  BY DEF ServiceInv, Receive, Runs
<1>2. /\ request[r].body \in Nat /\ received[r] \in Nat /\ limit \in Nat /\ Allowance \in Nat
      /\ limit + Allowance < Word => BodyLimit = limit + Allowance
  BY RequestsAreTyped
<1>3. CASE received[r] + 1 > BodyLimit
  <2>1. Respond(r, "body_too_large")
    BY <1>3 DEF Receive
  <2>2. Fitting(r, "body_too_large")
    BY <1>1, <1>2, <1>3 DEF Fitting, Answers, NoAnswer
  <2> QED BY <1>1, <2>1, <2>2, RespondKeepsInv
<1>4. CASE ~ (received[r] + 1 > BodyLimit)
  <2>1. received' = [received EXCEPT ![r] = @ + 1] /\ UNCHANGED <<startupVars, phase, request, gone, answer>>
    BY <1>4 DEF Receive
  <2>2. received'[r] = received[r] + 1 /\ received' \in [Requests -> Nat]
        /\ \A q \in Requests \ {r} : received'[q] = received[q]
    BY <1>1, <1>2, <2>1
  <2>3. \A q \in Requests : received'[q] \in 0..request'[q].body
    BY <1>1, <1>2, <2>1, <2>2 DEF TypeOK
  <2>4. TypeOK'
    BY <1>1, <2>1, <2>3 DEF TypeOK, startupVars
  <2>5. limit + Allowance < Word => received[r] + 1 <= limit + Allowance
    BY <1>2, <1>4
  <2>6. RequestInv(r)'
    <3>1. LifeInv(r)'
      BY <1>1, <2>1 DEF RequestInv, LifeInv, Up, startupVars
    <3>2. SizeInv(r)'
      BY <1>1, <2>1, <2>2, <2>5 DEF RequestInv, SizeInv, startupVars
    <3>3. DropInv(r)'
      BY <1>1, <2>1 DEF RequestInv, DropInv
    <3> QED BY <3>1, <3>2, <3>3 DEF RequestInv
  <2> QED BY <2>1, <2>2, <2>4, <2>6, StepOfOneRequest
<1> QED BY <1>3, <1>4

(* The endpoints without a size limit: their answers are never a size error. *)
LEMMA LookupsKeepInv ==
  ASSUME ServiceInv, NEW r \in Requests, Health(r) \/ ListRules(r) \/ RuleDoc(r) \/ Explain(r)
  PROVE  ServiceInv'
<1>1. phase[r] = "started" /\ request[r].endpoint # "scan"
  BY DEF Health, ListRules, RuleDoc, Explain, Runs
<1>2. IncompleteTables = {}
  BY <1>1 DEF ServiceInv, RequestInv, LifeInv, Up, TablesInv
<1>3. PICK what \in {"ok", "not_found", "malformed"} : Respond(r, what)
  BY <1>2 DEF Health, ListRules, RuleDoc, Explain
<1>4. Fitting(r, what)
  BY <1>1 DEF Fitting, Answers, NoAnswer
<1> QED BY <1>1, <1>3, <1>4, RespondKeepsInv

LEMMA ScanKeepsInv == ASSUME ServiceInv, NEW r \in Requests, Scan(r) PROVE ServiceInv'
<1>1. /\ phase[r] = "started" /\ request[r].endpoint = "scan" /\ BodyComplete(r)
      /\ TypeOK /\ RequestInv(r) /\ received \in [Requests -> Nat]
  BY DEF ServiceInv, Scan, Runs
<1>2. limit + Allowance < Word => request[r].body <= limit + Allowance
  BY <1>1, CompleteBodiesFit
<1>3. request[r].text \in Nat /\ limit \in Nat
  BY RequestsAreTyped
<1>4. CASE ~ request[r].wellFormed
  <2>1. Respond(r, "malformed")
    BY <1>4 DEF Scan
  <2>2. Fitting(r, "malformed")
    BY <1>4 DEF Fitting, Answers, NoAnswer
  <2> QED BY <1>1, <2>1, <2>2, RespondKeepsInv
<1>5. CASE request[r].wellFormed /\ TooLong(r)
  <2>1. Respond(r, "fragment_too_large")
    BY <1>5 DEF Scan
  <2>2. Fitting(r, "fragment_too_large")
    BY <1>2, <1>5 DEF Fitting, Answers, NoAnswer, TooLong
  <2> QED BY <1>1, <2>1, <2>2, RespondKeepsInv
<1>6. CASE request[r].wellFormed /\ ~ TooLong(r)
  <2>1. phase' = [phase EXCEPT ![r] = "scanning"] /\ UNCHANGED <<startupVars, request, received, gone, answer>>
    BY <1>6 DEF Scan
  <2>2. phase'[r] = "scanning" /\ phase' \in [Requests -> Phases]
        /\ \A q \in Requests \ {r} : phase'[q] = phase[q]
    BY <1>1, <2>1 DEF TypeOK, Phases
  <2>3. TypeOK'
    BY <1>1, <2>1, <2>2 DEF TypeOK, startupVars, Phases
  <2>4. RequestInv(r)'
    <3>1. LifeInv(r)'
      BY <1>1, <2>1, <2>2 DEF RequestInv, LifeInv, Up, startupVars
    <3>2. SizeInv(r)'
      <4>1. answer[r] = NoAnswer /\ request[r].text <= limit
        BY <1>1, <1>3, <1>6 DEF RequestInv, LifeInv, TooLong
      <4> QED BY <1>1, <2>1, <2>2, <4>1 DEF RequestInv, SizeInv, startupVars, NoAnswer
    <3>3. DropInv(r)'
      BY <2>2 DEF DropInv
    <3> QED BY <3>1, <3>2, <3>3 DEF RequestInv
  <2> QED BY <1>1, <2>1, <2>2, <2>3, <2>4, StepOfOneRequest
<1> QED BY <1>4, <1>5, <1>6

LEMMA ScanDoneKeepsInv == ASSUME ServiceInv, NEW r \in Requests, ScanDone(r) PROVE ServiceInv'
<1>1. phase[r] = "scanning" /\ Respond(r, "ok") /\ RequestInv(r)
  BY DEF ServiceInv, ScanDone
<1>2. request[r].text \in Nat /\ limit \in Nat
  BY RequestsAreTyped
<1>3. Fitting(r, "ok")
  BY <1>1, <1>2 DEF Fitting, RequestInv, SizeInv, Answers, NoAnswer
<1> QED BY <1>1, <1>3, RespondKeepsInv

(* A request that is dropped has no answer, and a reason that stays true. *)
LEMMA DropKeepsInv ==
  ASSUME ServiceInv, NEW r \in Requests, phase[r] \in {"started", "scanning"},
         phase' \in {phase, [phase EXCEPT ![r] = "dropped"]},
         UNCHANGED <<startupVars, request, received, answer>>,
         gone \subseteq gone', gone' \subseteq Requests,
         phase' # phase => request[r].panics \/ r \in gone'
  PROVE  ServiceInv'
<1>1. TypeOK /\ RequestInv(r) /\ received \in [Requests -> Nat] /\ answer[r] = NoAnswer /\ Up
  BY DEF ServiceInv, RequestInv, LifeInv
<1>2. /\ phase'[r] \in {phase[r], "dropped"} /\ phase' \in [Requests -> Phases]
      /\ phase'[r] = "dropped" => request[r].panics \/ r \in gone'
      /\ \A q \in Requests \ {r} : phase'[q] = phase[q]
  BY <1>1 DEF TypeOK, Phases
<1>3. TypeOK'
  BY <1>1, <1>2 DEF TypeOK, startupVars, Phases
<1>4. RequestInv(r)'
  <2>1. LifeInv(r)'
    BY <1>1, <1>2 DEF LifeInv, Up, startupVars, NoAnswer
  <2>2. SizeInv(r)'
    BY <1>1, <1>2 DEF RequestInv, SizeInv, startupVars, NoAnswer
  <2>3. DropInv(r)'
    BY <1>2 DEF DropInv
  <2> QED BY <2>1, <2>2, <2>3 DEF RequestInv
<1> QED BY <1>1, <1>2, <1>3, <1>4, StepOfOneRequest

LEMMA ScanPanicsKeepsInv == ASSUME ServiceInv, NEW r \in Requests, ScanPanics(r) PROVE ServiceInv'
<1>1. gone \subseteq Requests
  BY DEF ServiceInv, TypeOK
<1> QED BY <1>1, DropKeepsInv DEF ScanPanics

LEMMA HangUpKeepsInv == ASSUME ServiceInv, NEW r \in Requests, HangUp(r) PROVE ServiceInv'
<1>1. gone \subseteq Requests
  BY DEF ServiceInv, TypeOK
<1> QED BY <1>1, DropKeepsInv DEF HangUp, InFlight

LEMMA StepServiceInv == ServiceInv /\ [Next]_serviceVars => ServiceInv'
<1> SUFFICES ASSUME ServiceInv, [Next]_serviceVars PROVE ServiceInv'
  OBVIOUS
<1>1. CASE Boot
  BY <1>1, BootKeepsInv
<1>2. CASE Signal \/ Exit
  BY <1>2, SignalAndExitKeepInv
<1>3. CASE \E r \in Requests : Open(r) \/ Receive(r) \/ Handle(r) \/ HangUp(r)
  BY <1>3, OpenKeepsInv, ReceiveKeepsInv, LookupsKeepInv, ScanKeepsInv, ScanDoneKeepsInv,
     ScanPanicsKeepsInv, HangUpKeepsInv DEF Handle
<1>4. CASE UNCHANGED serviceVars
  <2>1. UNCHANGED <<startupVars, phase, request, received, gone, answer>>
    BY <1>4 DEF serviceVars, startupVars
  <2>2. TypeOK' /\ TablesInv' /\ (received \in [Requests -> Nat])'
    BY <2>1 DEF ServiceInv, TypeOK, TablesInv, IncompleteTables, startupVars
  <2>3. ASSUME NEW r \in Requests PROVE RequestInv(r)'
    <3>1. RequestInv(r) /\ UNCHANGED <<limit, stage>>
      BY <2>1 DEF ServiceInv, startupVars
    <3> QED BY <2>1, <3>1 DEF RequestInv, LifeInv, SizeInv, DropInv, Up
  <2> QED BY <2>2, <2>3 DEF ServiceInv
<1> QED BY <1>1, <1>2, <1>3, <1>4 DEF Next

(***************************************************************************)
(* The process and every request in it keep the inductive invariant.       *)
(***************************************************************************)
THEOREM ServiceInvariant == Spec => []ServiceInv
<1>1. Init => ServiceInv
  BY InitServiceInv
<1>2. ServiceInv /\ [Next]_serviceVars => ServiceInv'
  BY StepServiceInv
<1> QED BY <1>1, <1>2, PTL DEF Spec

-----------------------------------------------------------------------------
(* The results: each property of the run follows from the invariant. *)

(* The state of the process and of its requests always has its shape. *)
THEOREM ServiceTypeCorrect == Spec => []TypeOK
<1>1. ServiceInv => TypeOK
  BY DEF ServiceInv
<1> QED BY <1>1, ServiceInvariant, PTL

(* A process that answers has all its tables: /health never reports a degraded service. *)
THEOREM ServesOnCompleteTables == Spec => []HealthNeverDegraded
<1>1. ServiceInv => HealthNeverDegraded
  BY DEF ServiceInv, RequestInv, LifeInv, HealthNeverDegraded
<1> QED BY <1>1, ServiceInvariant, PTL

(***************************************************************************)
(* The two size limits never contradict each other: the router refuses no  *)
(* body that fits, the handler scans no fragment that does not.            *)
(***************************************************************************)
THEOREM SizeLimitsMeet == Spec => []SizeErrorsArePrecise
<1>1. ASSUME ServiceInv PROVE SizeErrorsArePrecise
  <2> SUFFICES ASSUME limit + Allowance < Word, NEW r \in Requests, request[r].endpoint = "scan"
               PROVE  /\ answer[r] = "body_too_large" => request[r].body > limit + Allowance
                      /\ answer[r] = "fragment_too_large" <=>
                           phase[r] = "answered" /\ request[r].wellFormed
                             /\ request[r].text > limit /\ request[r].body <= limit + Allowance
                      /\ phase[r] = "scanning" \/ answer[r] = "ok" => request[r].text <= limit
    BY DEF SizeErrorsArePrecise
  <2> QED BY <1>1 DEF ServiceInv, RequestInv, SizeInv
<1> QED BY <1>1, ServiceInvariant, PTL

(* No request goes unanswered for another request's panic, hang-up or scan, nor for a shutdown. *)
THEOREM RequestsAreIsolated == Spec => []DroppedForItsOwnReason
<1>1. ServiceInv => DroppedForItsOwnReason
  BY DEF ServiceInv, RequestInv, DropInv, DroppedForItsOwnReason
<1> QED BY <1>1, ServiceInvariant, PTL

=============================================================================
