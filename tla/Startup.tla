------------------------------- MODULE Startup -------------------------------
(***************************************************************************)
(* How the process comes up, src/src/main.rs and src/src/data.rs: read the *)
(* six vendored tables in order, refuse an incomplete set, compile the     *)
(* rules, read the size limit, bind the address.  Every failure refuses to *)
(* start; only a process that passed every step serves.                    *)
(***************************************************************************)
EXTENDS Naturals, Sequences

CONSTANTS
  Environments,    \* what the process may be started in: files, patterns, variables, port
  Minimum,         \* MINIMUM_ENTRIES, by table
  DefaultMaxBody,  \* DEFAULT_MAX_BODY_BYTES
  Word             \* 2^w, where w is the width of usize

VARIABLES
  environment,     \* the environment of this process, fixed for the run
  stage,           \* where the process is between main's first line and its end
  loaded,          \* how many tables have been read
  tables,          \* VendoredData: the number of entries each table holds
  limit            \* AppState.max_body_bytes

startupVars == <<environment, stage, loaded, tables, limit>>

(* The tables in the order VendoredData::load reads them. *)
Tables == <<"TLD list", "territory names", "IBAN registry", "maritime identification digits",
            "currency table", "currency symbol table">>
TableNames == {Tables[i] : i \in DOMAIN Tables}

(***************************************************************************)
(* A file of the vendored tree: whether it can be read as text, whether it *)
(* parses, how many rows it has, and how many of them say nothing (a blank *)
(* or comment line of the TLD list, a maritime row without a country).     *)
(***************************************************************************)
Files == [readable : BOOLEAN, parses : BOOLEAN, rows : Nat, empty : Nat]

(* Every table but the TLD list, which is read line by line, has to parse as JSON. *)
Fails(t, file) == ~ file.readable \/ (t # "TLD list" /\ ~ file.parses)

Entries(t, file) ==
  IF t \in {"TLD list", "maritime identification digits"} THEN file.rows - file.empty ELSE file.rows

IncompleteTables == {t \in TableNames : tables[t] < Minimum[t]}

(***************************************************************************)
(* RES_MAX_BODY_BYTES: not set, set to bytes that are not Unicode, set to  *)
(* something that is not a number, or a number, which usize may not hold.  *)
(***************************************************************************)
LimitVariables == [kind : {"unset", "not_unicode", "garbage", "number"}, value : Nat]

Parses_AnyWidth(var) == var.kind = "number"          \* Mutant: the width is not checked.
Parses(var) == var.kind = "number" /\ var.value < Word

StartupInit ==
  /\ environment \in Environments
  /\ stage = "load"
  /\ loaded = 0
  /\ tables = [t \in TableNames |-> 0]
  /\ limit = 0

LoadTable ==
  /\ stage = "load" /\ loaded < Len(Tables)
  /\ LET t == Tables[loaded + 1]
         file == environment.files[t]
     IN  IF Fails(t, file)
           THEN /\ stage' = "refused"
                /\ UNCHANGED <<loaded, tables>>
           ELSE /\ tables' = [tables EXCEPT ![t] = Entries(t, file)]
                /\ loaded' = loaded + 1
                /\ UNCHANGED stage
  /\ UNCHANGED <<environment, limit>>

CheckTables_OnlyEmpty ==                             \* Mutant: only empty tables are refused.
  /\ stage = "load" /\ loaded = Len(Tables)
  /\ stage' = IF \A t \in TableNames : tables[t] > 0 THEN "compile" ELSE "refused"
  /\ UNCHANGED <<environment, loaded, tables, limit>>
CheckTables ==
  /\ stage = "load" /\ loaded = Len(Tables)
  /\ stage' = IF IncompleteTables = {} THEN "compile" ELSE "refused"
  /\ UNCHANGED <<environment, loaded, tables, limit>>

(* Scanner::new: a pattern that does not compile, or depends on its haystack's end, refuses. *)
CompileRules ==
  /\ stage = "compile"
  /\ stage' = IF environment.patternsSound THEN "limit" ELSE "refused"
  /\ UNCHANGED <<environment, loaded, tables, limit>>

(* max_body_bytes: the variable's absence and its not being Unicode are the same Err(_) arm. *)
ReadLimit ==
  /\ stage = "limit"
  /\ IF environment.maxBody.kind \in {"unset", "not_unicode"}
       THEN limit' = DefaultMaxBody /\ stage' = "bind"
       ELSE IF Parses(environment.maxBody)
         THEN limit' = environment.maxBody.value /\ stage' = "bind"
         ELSE stage' = "refused" /\ UNCHANGED limit
  /\ UNCHANGED <<environment, loaded, tables>>

Bind ==
  /\ stage = "bind"
  /\ stage' = IF environment.bindable THEN "serving" ELSE "refused"
  /\ UNCHANGED <<environment, loaded, tables, limit>>

StartupNext == LoadTable \/ CheckTables \/ CompileRules \/ ReadLimit \/ Bind

Starting == stage \in {"load", "compile", "limit", "bind"}

=============================================================================
