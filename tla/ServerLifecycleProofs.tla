------------------------ MODULE ServerLifecycleProofs ------------------------
(* Theorems about ServerLifecycle, for any number of requests and of       *)
(* tables in the schema.                                                   *)
EXTENDS ServerLifecycle, TLAPS

(* The stages of main, by what has been done when they are reached.        *)
Prepared == {"start", "insecure", "secure", "ping insecure", "ping secure", "wait"}
Connected == Prepared \cup {"migrate"}
Checked == Connected \cup {"connect"}
Watching == Prepared \ {"start"}
PastSecure == {"ping insecure", "ping secure", "wait"}
Past(s) == IF s = "secure" THEN PastSecure ELSE PastSecure \cup {"secure"}

OptionTypes ==
  [required : SUBSET Servers, certs : [Sources -> Pairs], named : BOOLEAN, accepted : BOOLEAN,
   database : {"postgresql", "mysql", ""}, healthz : BOOLEAN, valid : BOOLEAN]
CutOff == {"cut insecure", "cut secure"}
Flights == Servers \cup {"unsent", "answered", "no database"} \cup CutOff

LifeTypes ==
  /\ opts \in OptionTypes
  /\ main \in Checked \cup {"complete", "validate"}
  /\ tables \in 0..NTables
  /\ migrating \in [Processes -> [at : 1..(NTables + 1), missing : BOOLEAN]]
  /\ server \in [Servers -> {"nil", "created", "listening", "closed"}]
  /\ closing \in {"unwatched", "waiting", "store", "secure", "drain secure", "insecure",
                  "drain insecure", "finish"}
  /\ flight \in [Requests -> Flights]

(* Nobody is ahead of the tables, somebody has made the last of them, and  *)
(* who lost a race for a table is behind it for good.                      *)
SchemaInv ==
  /\ \A p \in Processes : /\ migrating[p].at <= tables + 1
                          /\ migrating[p].missing => migrating[p].at <= NTables
  /\ \E p \in Processes : migrating[p].at = tables + 1
  /\ fate = "exists" => migrating["apiserver"].at <= tables
  /\ workerFate = "exists" => migrating["worker"].at <= tables

(* What has been done at each stage of main.                               *)
StagesInv ==
  /\ main \in Checked => OptionsValid(opts)
  /\ main \in Connected => opts.database = "postgresql"
  /\ main \in Prepared => client /\ tables = NTables
  /\ \A s \in Servers : server[s] # "nil" <=> Required(s) /\ main \in Past(s)
  /\ \A r \in Requests : flight[r] # "unsent" => main \in Past("insecure")

(* What has been done at each stage of the shutdown callback.              *)
ClosingInv ==
  /\ closing # "unwatched" <=> main \in Watching
  /\ closing \in {"drain secure", "insecure", "drain insecure", "finish"} =>
       server["secure"] = "closed" \/ ~Required("secure")
  /\ closing \in {"insecure", "drain insecure", "finish"} => expired \/ ~Busy("secure")
  /\ closing \in {"drain insecure", "finish"} => server["insecure"] = "closed" \/ ~Required("insecure")
  /\ server["insecure"] = "closed" => closing \in {"drain insecure", "finish"}
  /\ \A r \in Requests : flight[r] \in Servers => server[flight[r]] # "nil"
  /\ fate = "up" => \A r \in Requests : flight[r] \notin CutOff
-----------------------------------------------------------------------------
(* The stages that belong to each server.                                  *)
LEMMA StagesOf ==
  /\ "secure" \in Servers /\ "insecure" \in Servers
  /\ \A s \in Servers : s = "secure" \/ s = "insecure"
  /\ Draining["secure"] = "drain secure" /\ Draining["insecure"] = "drain insecure"
  /\ Pinging["secure"] = "ping secure" /\ Pinging["insecure"] = "ping insecure"
  /\ After("secure") = "insecure" /\ After("insecure") = "finish"
  BY DEF Servers, Draining, Pinging, After

(* What the end of the process does to the requests.                       *)
LEMMA EndEffect ==
  ASSUME LifeTypes, NEW how, End(how)
  PROVE  /\ fate' = how
         /\ flight' \in [Requests -> Flights \ Servers]
         /\ \A r \in Requests :
              /\ flight'[r] # "unsent" => flight[r] # "unsent"
              /\ flight'[r] = "cut secure" => flight[r] \in {"secure", "cut secure"}
<1>1. \A r \in Requests : flight[r] \in Flights
  BY DEF LifeTypes
<1>2. flight' = [r \in Requests |-> IF flight[r] \in Servers THEN Cut[flight[r]] ELSE flight[r]]
  BY DEF End
<1>3. Cut["insecure"] = "cut insecure" /\ Cut["secure"] = "cut secure"
  BY DEF Cut
<1>4. \A r \in Requests :
        /\ flight'[r] \in Flights \ Servers
        /\ flight'[r] # "unsent" => flight[r] # "unsent"
        /\ flight'[r] = "cut secure" => flight[r] \in {"secure", "cut secure"}
  BY <1>1, <1>2, <1>3 DEF Flights, Servers, CutOff
<1> QED BY <1>2, <1>4 DEF End

(* One process looks for a table or makes it.                              *)
LEMMA MigrateEffect ==
  ASSUME LifeTypes, SchemaInv, NEW p \in Processes, LookForTable(p) \/ CreateTable(p)
  PROVE  /\ tables' \in 0..NTables /\ tables <= tables'
         /\ migrating' \in [Processes -> [at : 1..(NTables + 1), missing : BOOLEAN]]
         /\ \A q \in Processes : /\ migrating'[q].at <= tables' + 1
                                 /\ migrating'[q].missing => migrating'[q].at <= NTables
                                 /\ q # p => migrating'[q] = migrating[q]
         /\ \E q \in Processes : migrating'[q].at = tables' + 1
<1>0. /\ tables \in 0..NTables /\ NTables \in Nat
      /\ migrating \in [Processes -> [at : 1..(NTables + 1), missing : BOOLEAN]]
      /\ \A q \in Processes : /\ migrating[q].at \in 1..(NTables + 1) /\ migrating[q].missing \in BOOLEAN
                              /\ migrating[q].at <= tables + 1
                              /\ migrating[q].missing => migrating[q].at <= NTables
  BY LifecycleAssumption DEF LifeTypes, SchemaInv
<1>q. PICK w \in Processes : migrating[w].at = tables + 1
  BY DEF SchemaInv
<1> DEFINE next == [at |-> migrating[p].at + 1, missing |-> FALSE]
<1>1. CASE LookForTable(p) /\ tables >= migrating[p].at
  <2>1. tables' = tables /\ migrating' = [migrating EXCEPT ![p] = next]
    BY <1>1 DEF LookForTable
  <2>2. next \in [at : 1..(NTables + 1), missing : BOOLEAN]
    BY <1>0, <1>1 DEF LookForTable
  <2>3. migrating'[p] = next /\ \A q \in Processes \ {p} : migrating'[q] = migrating[q]
    BY <1>0, <2>1
  <2>4. w # p
    BY <1>0, <1>1, <1>q
  <2>5. migrating' \in [Processes -> [at : 1..(NTables + 1), missing : BOOLEAN]]
    BY <1>0, <2>1, <2>2
  <2>6. \A q \in Processes : /\ migrating'[q].at <= tables + 1
                             /\ migrating'[q].missing => migrating'[q].at <= NTables
    BY <1>0, <1>1, <2>3
  <2> QED BY <1>0, <1>q, <2>1, <2>3, <2>4, <2>5, <2>6
<1>2. CASE LookForTable(p) /\ ~(tables >= migrating[p].at)
  <2>1. tables' = tables /\ migrating' = [migrating EXCEPT ![p].missing = TRUE]
    BY <1>2 DEF LookForTable
  <2>2. \A q \in Processes : /\ migrating'[q].at = migrating[q].at
                             /\ migrating'[q].missing = IF q = p THEN TRUE ELSE migrating[q].missing
                             /\ q # p => migrating'[q] = migrating[q]
    BY <1>0, <2>1
  <2>3. migrating' \in [Processes -> [at : 1..(NTables + 1), missing : BOOLEAN]]
    BY <1>0, <2>1
  <2>4. migrating[p].at <= NTables
    BY <1>2 DEF LookForTable
  <2>5. migrating'[w].at = tables' + 1
    BY <1>q, <2>1, <2>2
  <2>6. \A q \in Processes : /\ migrating'[q].at <= tables' + 1
                             /\ migrating'[q].missing => migrating'[q].at <= NTables
    BY <1>0, <2>1, <2>2, <2>4
  <2> QED BY <1>0, <2>1, <2>2, <2>3, <2>5, <2>6
<1>3. CASE CreateTable(p)
  <2>1. tables' = migrating[p].at /\ migrating' = [migrating EXCEPT ![p] = next] /\ migrating[p].missing
        /\ tables < migrating[p].at
    BY <1>3 DEF CreateTable
  <2>2. next \in [at : 1..(NTables + 1), missing : BOOLEAN] /\ tables' \in 0..NTables
    BY <1>0, <2>1
  <2>3. migrating'[p] = next /\ \A q \in Processes \ {p} : migrating'[q] = migrating[q]
    BY <1>0, <2>1
  <2>4. migrating' \in [Processes -> [at : 1..(NTables + 1), missing : BOOLEAN]]
    BY <1>0, <2>1, <2>2
  <2>5. \A q \in Processes : /\ migrating'[q].at <= tables' + 1
                             /\ migrating'[q].missing => migrating'[q].at <= NTables
    BY <1>0, <2>1, <2>3
  <2>6. migrating'[p].at = tables' + 1
    BY <2>1, <2>3
  <2> QED BY <1>0, <2>1, <2>2, <2>3, <2>4, <2>5, <2>6
<1> QED BY <1>1, <1>2, <1>3

(* A step that leaves the schema alone.                                    *)
LEMMA SchemaElsewhere ==
  ASSUME SchemaInv, UNCHANGED <<tables, migrating, workerFate>>, fate' = fate \/ fate' # "exists"
  PROVE  SchemaInv'
  BY DEF SchemaInv

(* No two processes lose to each other.                                    *)
LEMMA SchemaStep ==
  ASSUME LifeTypes, SchemaInv, [LifecycleNext]_lifecycleVars
  PROVE  SchemaInv'
<1>0. /\ "apiserver" \in Processes /\ "worker" \in Processes /\ "worker" # "apiserver"
      /\ tables \in Nat /\ migrating["apiserver"].at \in Nat /\ migrating["worker"].at \in Nat
  <2>1. "apiserver" \in Processes /\ "worker" \in Processes /\ "worker" # "apiserver"
    BY DEF Processes
  <2>2. NTables \in Nat
    BY LifecycleAssumption
  <2>3. tables \in 0..NTables /\ \A p \in Processes : migrating[p].at \in 1..(NTables + 1)
    BY DEF LifeTypes
  <2> QED BY <2>1, <2>2, <2>3
<1>1. CASE EnsureScheme
  <2>1. fate = "up" /\ workerFate' = workerFate
    BY <1>1 DEF EnsureScheme, MainAt
  <2>2. CASE (LookForTable("apiserver") \/ CreateTable("apiserver")) /\ Goto("migrate")
    <3>1. fate' = "up" /\ migrating'["worker"] = migrating["worker"] /\ tables <= tables' /\ tables' \in Nat
      BY <1>0, <2>1, <2>2, MigrateEffect DEF Goto
    <3> QED BY <1>0, <2>1, <2>2, <3>1, MigrateEffect DEF SchemaInv
  <2>3. CASE TableExists("apiserver") /\ Fail("exists") /\ UNCHANGED <<tables, migrating>>
    BY <1>0, <2>1, <2>3 DEF TableExists, SchemaInv
  <2>4. CASE (Fail("error") \/ Goto("start")) /\ UNCHANGED <<tables, migrating>>
    BY <2>1, <2>4, SchemaElsewhere DEF Fail, End, Goto
  <2> QED BY <1>1, <2>2, <2>3, <2>4 DEF EnsureScheme
<1>2. CASE BuildWorker
  <2>1. fate' = fate /\ workerFate = "starting"
    BY <1>2 DEF BuildWorker
  <2>2. CASE (LookForTable("worker") \/ CreateTable("worker")) /\ UNCHANGED workerFate
    <3>1. migrating'["apiserver"] = migrating["apiserver"] /\ tables <= tables' /\ tables' \in Nat
      BY <1>0, <2>2, MigrateEffect
    <3> QED BY <1>0, <2>1, <2>2, <3>1, MigrateEffect DEF SchemaInv
  <2>3. CASE TableExists("worker") /\ UNCHANGED <<tables, migrating>>
    BY <1>0, <2>1, <2>3 DEF TableExists, SchemaInv
  <2>4. CASE workerFate' # "exists" /\ UNCHANGED <<tables, migrating>>
    BY <2>1, <2>4 DEF SchemaInv
  <2> QED BY <1>2, <2>2, <2>3, <2>4 DEF BuildWorker
<1>3. CASE Complete \/ ValidateOptions \/ Connect \/ StartShutdownManager
  BY <1>3, SchemaElsewhere
     DEF Complete, ValidateOptions, Connect, StartShutdownManager, Goto, Fail, End, dbVars
<1>4. ASSUME NEW s \in Servers, CreateServer(s) \/ Ping(s) PROVE SchemaInv'
  BY <1>4, SchemaElsewhere DEF CreateServer, Ping, Goto, Fail, End, dbVars
<1>5. ASSUME NEW s \in Servers, Listen(s) \/ CloseListener(s) \/ Drain(s) PROVE SchemaInv'
  BY <1>5, SchemaElsewhere DEF Listen, CloseListener, Drain, End, dbVars
<1>6. CASE Wait \/ CloseStore \/ Finish \/ Signal \/ DeadlinePasses
  BY <1>6, SchemaElsewhere DEF Wait, CloseStore, Finish, Signal, DeadlinePasses, End, dbVars
<1>7. ASSUME NEW r \in Requests, Respond(r) \/ \E s \in Servers : Accept(r, s) PROVE SchemaInv'
  BY <1>7, SchemaElsewhere DEF Respond, Accept, dbVars
<1>8. CASE Ended \/ UNCHANGED lifecycleVars
  BY <1>8, SchemaElsewhere DEF Ended, lifecycleVars
<1> QED BY <1>1, <1>2, <1>3, <1>4, <1>5, <1>6, <1>7, <1>8
        DEF LifecycleNext, MainStep, ListenerStep, ShutdownStep
-----------------------------------------------------------------------------
(* What the steps of main do: it goes on, or the process ends.             *)
LEMMA StepTypes ==
  ASSUME LifeTypes, SchemaInv, [LifecycleNext]_lifecycleVars
  PROVE  LifeTypes'
<1>f. ASSUME NEW how, End(how) PROVE flight' \in [Requests -> Flights]
  BY <1>f, EndEffect DEF Flights
<1> DEFINE Mains == Checked \cup {"complete", "validate"}
           Same == UNCHANGED <<opts, tables, migrating, server, closing>>
<1>s. ASSUME main' \in Mains, flight' \in [Requests -> Flights], Same PROVE LifeTypes'
  BY <1>s DEF LifeTypes
<1>1. CASE Complete
  <2>1. opts' \in OptionTypes
    <3>1. opts \in OptionTypes /\ [s \in Sources |-> "absent"] \in [Sources -> Pairs]
      BY DEF LifeTypes, Pairs
    <3>2. opts' = opts \/ opts' = [opts EXCEPT !.certs = [s \in Sources |-> "absent"], !.named = TRUE]
      BY <1>1 DEF Complete
    <3> QED BY <3>1, <3>2 DEF OptionTypes
  <2>2. main' \in Mains /\ flight' \in [Requests -> Flights]
    BY <1>1, <1>f DEF Complete, Goto, Fail, LifeTypes
  <2> QED BY <1>1, <2>1, <2>2 DEF Complete, LifeTypes, dbVars, shutdownVars
<1>2. CASE ValidateOptions \/ Connect
  <2>1. main' \in Mains /\ flight' \in [Requests -> Flights]
    BY <1>2, <1>f DEF ValidateOptions, Connect, Goto, Fail, LifeTypes, Checked, Connected
  <2> QED BY <1>2, <1>s, <2>1 DEF ValidateOptions, Connect, dbVars, shutdownVars
<1>3. CASE EnsureScheme
  <2>1. main' \in Mains /\ flight' \in [Requests -> Flights]
    BY <1>3, <1>f DEF EnsureScheme, Goto, Fail, LifeTypes, Checked, Connected, Prepared
  <2>2. /\ tables' \in 0..NTables
        /\ migrating' \in [Processes -> [at : 1..(NTables + 1), missing : BOOLEAN]]
    BY <1>3, MigrateEffect DEF EnsureScheme, Processes, LifeTypes
  <2> QED BY <1>3, <2>1, <2>2 DEF EnsureScheme, LifeTypes, shutdownVars
<1>4. CASE StartShutdownManager
  <2>1. main' \in Mains
    BY <1>4 DEF StartShutdownManager, Goto, Checked, Connected, Prepared
  <2> QED BY <1>4, <2>1 DEF StartShutdownManager, LifeTypes, Goto, dbVars
<1>5. ASSUME NEW s \in Servers, CreateServer(s) PROVE LifeTypes'
  <2>1. main' \in Mains /\ flight' \in [Requests -> Flights]
    BY <1>5, <1>f DEF CreateServer, Goto, Fail, LifeTypes, Checked, Connected, Prepared
  <2>2. server' \in [Servers -> {"nil", "created", "listening", "closed"}]
    BY <1>5 DEF CreateServer, LifeTypes
  <2> QED BY <1>5, <2>1, <2>2 DEF CreateServer, LifeTypes, dbVars, shutdownVars
<1>6. ASSUME NEW s \in Servers, Ping(s) PROVE LifeTypes'
  <2>1. main' \in Mains /\ flight' \in [Requests -> Flights]
    BY <1>6, <1>f DEF Ping, Goto, Fail, LifeTypes, Checked, Connected, Prepared
  <2> QED BY <1>6, <1>s, <2>1 DEF Ping, dbVars, shutdownVars
<1>7. ASSUME NEW s \in Servers, Listen(s) PROVE LifeTypes'
  <2>1. flight' \in [Requests -> Flights]
    BY <1>7, <1>f DEF Listen, LifeTypes
  <2>2. server' \in [Servers -> {"nil", "created", "listening", "closed"}]
    BY <1>7 DEF Listen, LifeTypes
  <2> QED BY <1>7, <2>1, <2>2 DEF Listen, LifeTypes, dbVars, shutdownVars
<1>8. ASSUME NEW s \in Servers, CloseListener(s) \/ Drain(s) PROVE LifeTypes'
  <2>1. flight' \in [Requests -> Flights]
    BY <1>8, <1>f DEF CloseListener, Drain, LifeTypes
  <2>2. server' \in [Servers -> {"nil", "created", "listening", "closed"}]
    BY <1>8 DEF CloseListener, Drain, LifeTypes
  <2>3. closing' \in {"unwatched", "waiting", "store", "secure", "drain secure", "insecure",
                      "drain insecure", "finish"}
    <3>1. After(s) \in {"insecure", "finish"} /\ Draining[s] \in {"drain secure", "drain insecure"}
      BY StagesOf
    <3> QED BY <1>8, <3>1 DEF CloseListener, Drain, LifeTypes
  <2> QED BY <1>8, <2>1, <2>2, <2>3 DEF CloseListener, Drain, LifeTypes, dbVars
<1>9. CASE CloseStore \/ DeadlinePasses
  BY <1>9 DEF CloseStore, DeadlinePasses, LifeTypes, dbVars
<1>10. CASE Wait \/ Finish
  <2>1. flight' \in [Requests -> Flights] /\ main' = main
    BY <1>10, <1>f DEF Wait, Finish
  <2> QED BY <1>10, <1>s, <2>1 DEF Wait, Finish, LifeTypes, dbVars, shutdownVars
<1>11. CASE Signal
  <2>1. flight' \in [Requests -> Flights]
    BY <1>11, <1>f DEF Signal, LifeTypes
  <2> QED BY <1>11, <2>1 DEF Signal, LifeTypes, dbVars
<1>12. ASSUME NEW r \in Requests, Respond(r) \/ \E s \in Servers : Accept(r, s) PROVE LifeTypes'
  <2>1. flight' \in [Requests -> Flights]
    BY <1>12 DEF Respond, Accept, LifeTypes, Flights
  <2> QED BY <1>12, <1>s, <2>1 DEF Respond, Accept, LifeTypes, dbVars, shutdownVars
<1>13. CASE BuildWorker
  <2>1. /\ tables' \in 0..NTables
        /\ migrating' \in [Processes -> [at : 1..(NTables + 1), missing : BOOLEAN]]
    BY <1>13, MigrateEffect DEF BuildWorker, Processes, LifeTypes
  <2> QED BY <1>13, <2>1 DEF BuildWorker, LifeTypes, shutdownVars
<1>14. CASE Ended \/ UNCHANGED lifecycleVars
  BY <1>14 DEF Ended, lifecycleVars, LifeTypes
<1> QED BY <1>1, <1>2, <1>3, <1>4, <1>5, <1>6, <1>7, <1>8, <1>9, <1>10, <1>11, <1>12, <1>13, <1>14
        DEF LifecycleNext, MainStep, ListenerStep, ShutdownStep
-----------------------------------------------------------------------------
(* A step that main does not take, and an end of the process.              *)
LEMMA StagesElsewhere ==
  ASSUME StagesInv, UNCHANGED <<opts, main, client>>, tables = NTables => tables' = NTables,
         \A s \in Servers : server'[s] = "nil" <=> server[s] = "nil",
         \A r \in Requests : flight'[r] # "unsent" => flight[r] # "unsent"
  PROVE  StagesInv'
  BY DEF StagesInv, Required

(* A failure of main.                                                      *)
LEMMA StagesFail ==
  ASSUME LifeTypes, StagesInv, NEW how, Fail(how), UNCHANGED <<opts, client, tables, server>>
  PROVE  StagesInv'
<1>1. main' = main /\ \A r \in Requests : flight'[r] # "unsent" => flight[r] # "unsent"
  BY EndEffect DEF Fail
<1> QED BY <1>1, StagesElsewhere

(* A step of main before the servers are made: nothing is served yet.      *)
LEMMA StagesEarly ==
  ASSUME StagesInv, NEW next \in {"validate", "connect", "migrate", "start"}, Goto(next),
         main \notin Prepared, server' = server,
         next \in Checked => OptionsValid(opts)',
         next \in Connected => opts'.database = "postgresql",
         next \in Prepared => client' /\ tables' = NTables
  PROVE  StagesInv'
<1>1. /\ \A s \in Servers : server[s] = "nil"
      /\ \A r \in Requests : flight[r] = "unsent"
  BY DEF StagesInv, Prepared, Past, PastSecure
<1>2. main' = next /\ flight' = flight
  BY DEF Goto
<1>3. \A s \in Servers : main' \notin Past(s)
  BY <1>2 DEF Past, PastSecure
<1> QED BY <1>1, <1>2, <1>3 DEF StagesInv

(* The steps of main.                                                      *)
LEMMA StagesMain ==
  ASSUME LifeTypes, SchemaInv, StagesInv, MainStep
  PROVE  StagesInv'
<1> USE DEF Past, PastSecure, Required
<1>1. CASE Complete
  <2>1. CASE CompleteFails(opts)
    BY <1>1, <2>1, StagesFail DEF Complete, dbVars
  <2>2. CASE ~CompleteFails(opts)
    <3>1. Goto("validate") /\ main = "complete" /\ server' = server
      BY <1>1, <2>2 DEF Complete, MainAt
    <3>2. "validate" \notin Checked /\ "validate" \notin Connected /\ "validate" \notin Prepared
          /\ main \notin Prepared
      BY <3>1 DEF Checked, Connected, Prepared
    <3> QED BY <3>1, <3>2, StagesEarly
  <2> QED BY <2>1, <2>2
<1>2. CASE ValidateOptions
  <2>1. CASE ~OptionsValid(opts)
    BY <1>2, <2>1, StagesFail DEF ValidateOptions, dbVars
  <2>2. CASE OptionsValid(opts)
    <3>1. Goto("connect") /\ main = "validate" /\ server' = server /\ opts' = opts
      BY <1>2, <2>2 DEF ValidateOptions, MainAt
    <3>2. OptionsValid(opts)'
      BY <2>2, <3>1 DEF OptionsValid, DatabaseValid
    <3>3. "connect" \notin Connected /\ "connect" \notin Prepared /\ main \notin Prepared
      BY <3>1 DEF Connected, Prepared
    <3> QED BY <3>1, <3>2, <3>3, StagesEarly
  <2> QED BY <2>1, <2>2
<1>3. CASE Connect
  <2>1. CASE Fail("error")
    BY <1>3, <2>1, StagesFail DEF Connect
  <2>2. CASE opts.database = "postgresql" /\ Goto("migrate")
    <3>1. main = "connect" /\ server' = server /\ opts' = opts
      BY <1>3 DEF Connect, MainAt
    <3>2. OptionsValid(opts)'
      BY <3>1 DEF StagesInv, Checked, OptionsValid, DatabaseValid
    <3>3. "migrate" \notin Prepared /\ main \notin Prepared
      BY <3>1 DEF Prepared
    <3> QED BY <2>2, <3>1, <3>2, <3>3, StagesEarly
  <2> QED BY <1>3, <2>1, <2>2 DEF Connect
<1>4. CASE EnsureScheme
  <2>0. main = "migrate" /\ UNCHANGED <<opts, server>> /\ "migrate" \notin Prepared
    BY <1>4 DEF EnsureScheme, MainAt, Prepared
  <2>1. OptionsValid(opts)' /\ opts'.database = "postgresql"
    BY <2>0 DEF StagesInv, Checked, Connected, OptionsValid, DatabaseValid
  <2>2. CASE Goto("migrate")
    BY <2>0, <2>1, <2>2, StagesEarly
  <2>3. CASE (Fail("exists") \/ Fail("error")) /\ UNCHANGED <<tables, client>>
    BY <2>0, <2>3, StagesFail
  <2>4. CASE Migrated("apiserver") /\ client' /\ Goto("start") /\ UNCHANGED tables
    <3>1. NTables \in Nat /\ "apiserver" \in Processes
      BY LifecycleAssumption DEF Processes
    <3>2. tables \in 0..NTables /\ migrating["apiserver"].at \in 1..(NTables + 1)
      BY <3>1 DEF LifeTypes
    <3>3. migrating["apiserver"].at <= tables + 1
      BY <3>1 DEF SchemaInv
    <3>4. tables' = NTables
      BY <2>4, <3>1, <3>2, <3>3 DEF Migrated
    <3> QED BY <2>0, <2>1, <2>4, <3>4, StagesEarly
  <2> QED BY <1>4, <2>2, <2>3, <2>4 DEF EnsureScheme
<1>5. CASE StartShutdownManager
  <2>1. main = "start" /\ main' = "insecure" /\ UNCHANGED <<opts, server, flight, client, tables>>
    BY <1>5 DEF StartShutdownManager, MainAt, Goto, dbVars
  <2> QED BY <2>1 DEF StagesInv, Checked, Connected, Prepared, Required, OptionsValid, DatabaseValid
<1>6. ASSUME NEW s \in Servers, CreateServer(s) PROVE StagesInv'
  <2>0. main = s /\ UNCHANGED <<opts, client, tables>> /\ (s = "secure" \/ s = "insecure")
    BY <1>6 DEF CreateServer, MainAt, dbVars, Servers
  <2> DEFINE next == IF s = "insecure" THEN "secure" ELSE "ping insecure"
  <2>1. CASE Fail("fatal") /\ UNCHANGED server
    BY <2>0, <2>1, StagesFail
  <2>2. CASE Goto(next) /\ server' = IF Required(s) THEN [server EXCEPT ![s] = "created"] ELSE server
    <3>1. main' = next /\ flight' = flight
      BY <2>2 DEF Goto
    <3>2. \A t \in Servers : server'[t] = IF t = s /\ Required(s) THEN "created" ELSE server[t]
      BY <2>2 DEF LifeTypes
    <3>3. /\ main' \in Checked => OptionsValid(opts)' /\ opts'.database = "postgresql"
          /\ client' /\ tables' = NTables
      BY <2>0 DEF StagesInv, Checked, Connected, Prepared, OptionsValid, DatabaseValid
    <3>4. \A t \in Servers : server'[t] # "nil" <=> Required(t)' /\ main' \in Past(t)
      BY <2>0, <3>1, <3>2 DEF StagesInv, Required, Servers
    <3>5. \A r \in Requests : flight'[r] # "unsent" => main' \in Past("insecure")
      BY <2>0, <3>1 DEF StagesInv
    <3> QED BY <3>1, <3>3, <3>4, <3>5 DEF StagesInv, Checked, Connected, Prepared
  <2> QED BY <1>6, <2>1, <2>2 DEF CreateServer
<1>7. ASSUME NEW s \in Servers, Ping(s) PROVE StagesInv'
  <2>0. main = Pinging[s] /\ UNCHANGED <<opts, client, tables, server>>
    BY <1>7 DEF Ping, MainAt, dbVars
  <2>1. CASE Fail("fatal")
    BY <2>0, <2>1, StagesFail
  <2>2. CASE \E next \in {"ping secure", "wait"} : Goto(next)
    <3>1. main \in PastSecure /\ main' \in PastSecure /\ flight' = flight
      BY <2>0, <2>2, StagesOf DEF Goto
    <3> QED BY <2>0, <3>1 DEF StagesInv, Checked, Connected, Prepared, Required, OptionsValid, DatabaseValid
  <2> QED BY <1>7, <2>1, <2>2 DEF Ping
<1>8. CASE Wait
  <2>1. \A r \in Requests : flight'[r] # "unsent" => flight[r] # "unsent"
    BY <1>8, EndEffect DEF Wait
  <2> QED BY <1>8, <2>1, StagesElsewhere DEF Wait, dbVars
<1> QED BY <1>1, <1>2, <1>3, <1>4, <1>5, <1>6, <1>7, <1>8 DEF MainStep

(* Every step of the process keeps what its stages promise.                *)
LEMMA StagesStep ==
  ASSUME LifeTypes, SchemaInv, StagesInv, [LifecycleNext]_lifecycleVars
  PROVE  StagesInv'
<1>f. ASSUME NEW how, End(how) PROVE \A r \in Requests : flight'[r] # "unsent" => flight[r] # "unsent"
  BY <1>f, EndEffect
<1>1. ASSUME NEW s \in Servers, Listen(s) \/ CloseListener(s) \/ Drain(s) PROVE StagesInv'
  <2>1. \A r \in Requests : flight'[r] # "unsent" => flight[r] # "unsent"
    BY <1>1, <1>f DEF Listen, CloseListener, Drain
  <2>2. \A t \in Servers : server'[t] = "nil" <=> server[t] = "nil"
    BY <1>1 DEF Listen, CloseListener, Drain, LifeTypes
  <2> QED BY <1>1, <2>1, <2>2, StagesElsewhere DEF Listen, CloseListener, Drain, dbVars
<1>2. CASE CloseStore \/ Finish \/ Signal \/ DeadlinePasses
  <2>1. \A r \in Requests : flight'[r] # "unsent" => flight[r] # "unsent"
    BY <1>2, <1>f DEF CloseStore, Finish, Signal, DeadlinePasses
  <2> QED BY <1>2, <2>1, StagesElsewhere DEF CloseStore, Finish, Signal, DeadlinePasses, dbVars
<1>3. ASSUME NEW r \in Requests, Respond(r) PROVE StagesInv'
  <2>1. \A q \in Requests : flight'[q] # "unsent" => flight[q] # "unsent"
    BY <1>3 DEF Respond, LifeTypes, Servers
  <2> QED BY <1>3, <2>1, StagesElsewhere DEF Respond, dbVars
<1>4. ASSUME NEW r \in Requests, NEW s \in Servers, Accept(r, s) PROVE StagesInv'
  <2>1. main \in Past("insecure") /\ UNCHANGED <<opts, main, client, tables, server>>
    BY <1>4 DEF Accept, StagesInv, Past, PastSecure, dbVars
  <2> QED BY <2>1 DEF StagesInv, Required, OptionsValid, DatabaseValid
<1>5. CASE BuildWorker
  <2>1. tables = NTables => tables' = NTables
    <3>1. NTables \in Nat /\ tables \in 0..NTables /\ "worker" \in Processes
      BY LifecycleAssumption DEF LifeTypes, Processes
    <3> QED BY <1>5, <3>1, MigrateEffect DEF BuildWorker
  <2> QED BY <1>5, <2>1, StagesElsewhere DEF BuildWorker
<1>6. CASE Ended \/ UNCHANGED lifecycleVars
  BY <1>6, StagesElsewhere DEF Ended, lifecycleVars
<1> QED BY <1>1, <1>2, <1>3, <1>4, <1>5, <1>6, StagesMain DEF LifecycleNext, ListenerStep, ShutdownStep
-----------------------------------------------------------------------------
(* A step that neither ends the process nor touches what the shutdown      *)
(* callback works on.                                                      *)
LEMMA ClosingElsewhere ==
  ASSUME ClosingInv, ShutdownOrderly, UNCHANGED <<fate, closing, expired, server, flight>>,
         opts'.required = opts.required, main \in Watching <=> main' \in Watching,
         fate = "crashed" => main' = main
  PROVE  ClosingInv' /\ ShutdownOrderly'
<1>1. ClosingInv'
  BY DEF ClosingInv, Busy, Required
<1>2. ShutdownOrderly'
  BY DEF ShutdownOrderly, CrashesEarly, StopsClosed, SecureDrained, Required
<1> QED BY <1>1, <1>2

(* While the process runs, no request has been cut off.                    *)
LEMMA OrderlyWhileUp ==
  ASSUME ClosingInv', fate' = "up"
  PROVE  ShutdownOrderly'
<1>1. \A r \in Requests : flight'[r] # "cut secure"
  BY DEF ClosingInv, CutOff
<1> QED BY <1>1 DEF ShutdownOrderly, CrashesEarly, StopsClosed, SecureDrained

(* The end of the process spares the requests over HTTPS if the servers    *)
(* have been drained, or if the process fails.                             *)
LEMMA ClosingEnd ==
  ASSUME LifeTypes, ClosingInv, fate = "up", NEW how, how # "up", End(how),
         UNCHANGED <<main, closing, expired, server, opts>>,
         how = "crashed" =>
           main \in {"insecure", "secure"} /\ ~Busy("secure") /\ \E s \in Servers : Required(s) /\ server[s] = "nil",
         how = "stopped" => \A s \in Servers : Required(s) => server[s] = "closed",
         expired \/ how = "fatal" \/ ~Busy("secure") \/ ~Required("insecure")
  PROVE  ClosingInv' /\ ShutdownOrderly'
<1>1. /\ fate' = how
      /\ \A r \in Requests : /\ flight'[r] \notin Servers
                             /\ flight'[r] = "cut secure" => flight[r] = "secure"
  BY EndEffect DEF ClosingInv, CutOff
<1>2. ~Busy("secure")'
  BY <1>1 DEF Busy, Servers
<1>3. ClosingInv'
  BY <1>1, <1>2 DEF ClosingInv, Required
<1>4. ShutdownOrderly'
  BY <1>1 DEF ShutdownOrderly, CrashesEarly, StopsClosed, SecureDrained, Busy, Required
<1> QED BY <1>3, <1>4

(* Before the servers are made there is no request to cut off.             *)
LEMMA ClosingEarly ==
  ASSUME LifeTypes, StagesInv, ClosingInv, fate = "up", main \notin Watching, NEW how, how \notin {"up", "crashed"},
         how # "stopped",
         Fail(how), UNCHANGED <<closing, expired, server, opts>>
  PROVE  ClosingInv' /\ ShutdownOrderly'
<1>1. ~Busy("secure")
  BY DEF Busy, StagesInv, Past, PastSecure, Watching, Prepared
<1> QED BY <1>1, ClosingEnd DEF Fail

(* Main makes and pings the servers in an order the callback can meet.     *)
LEMMA ClosingMain ==
  ASSUME LifeTypes, StagesInv, ClosingInv, ShutdownOrderly, MainStep
  PROVE  ClosingInv' /\ ShutdownOrderly'
<1>0. fate = "up"
  BY DEF MainStep, MainAt, Complete, ValidateOptions, Connect, EnsureScheme, StartShutdownManager,
         CreateServer, Ping, Wait
<1>w. \A at \in {"complete", "validate", "connect", "migrate", "start"} : at \notin Watching
  BY DEF Watching, Prepared
<1>1. CASE Complete
  <2>1. CASE CompleteFails(opts)
    BY <1>0, <1>1, <1>w, <2>1, ClosingEarly DEF Complete, MainAt, shutdownVars
  <2>2. CASE ~CompleteFails(opts)
    <3>1. opts'.required = opts.required
      BY <1>1, <2>2 DEF Complete, LifeTypes, OptionTypes
    <3>2. main \notin Watching /\ main' \notin Watching
      BY <1>1, <1>w, <2>2 DEF Complete, MainAt, Goto
    <3>3. UNCHANGED <<fate, closing, expired, server, flight>>
      BY <1>1, <2>2 DEF Complete, Goto, shutdownVars
    <3> QED BY <1>0, <3>1, <3>2, <3>3, ClosingElsewhere
  <2> QED BY <2>1, <2>2
<1>2. CASE ValidateOptions \/ Connect \/ EnsureScheme
  <2>0. main \notin Watching /\ UNCHANGED <<opts, closing, expired, server>>
    BY <1>2, <1>w DEF ValidateOptions, Connect, EnsureScheme, MainAt, shutdownVars
  <2>1. CASE Fail("error") \/ Fail("exists")
    BY <1>0, <2>0, <2>1, ClosingEarly
  <2>2. CASE \E next \in {"connect", "migrate", "start"} : Goto(next)
    <3>1. main' \notin Watching /\ UNCHANGED <<fate, flight>>
      BY <1>w, <2>2 DEF Goto
    <3> QED BY <1>0, <2>0, <3>1, ClosingElsewhere
  <2> QED BY <1>2, <2>1, <2>2 DEF ValidateOptions, Connect, EnsureScheme
<1>3. CASE StartShutdownManager
  <2>1. /\ main = "start" /\ main' = "insecure" /\ closing' = "waiting"
        /\ UNCHANGED <<opts, expired, server, flight, fate>>
    BY <1>3 DEF StartShutdownManager, MainAt, Goto
  <2>2. closing = "unwatched" /\ main' \in Watching
    BY <1>w, <2>1 DEF ClosingInv, Watching, Prepared
  <2>3. ClosingInv'
    BY <2>1, <2>2 DEF ClosingInv, Required
  <2> QED BY <1>0, <2>1, <2>3, OrderlyWhileUp
<1>4. ASSUME NEW s \in Servers, CreateServer(s) PROVE ClosingInv' /\ ShutdownOrderly'
  <2>0. main = s /\ UNCHANGED <<opts, closing, expired>> /\ (s = "secure" \/ s = "insecure")
    BY <1>4 DEF CreateServer, MainAt, shutdownVars, Servers
  <2> DEFINE next == IF s = "insecure" THEN "secure" ELSE "ping insecure"
  <2>w. main \in Watching /\ next \in Watching
    BY <2>0 DEF Watching, Prepared
  <2>1. CASE Fail("fatal") /\ UNCHANGED server
    BY <1>0, <2>0, <2>1, ClosingEnd DEF Fail
  <2>2. CASE Goto(next) /\ UNCHANGED server
    BY <1>0, <2>0, <2>2, <2>w, ClosingElsewhere DEF Goto
  <2>3. CASE Goto(next) /\ Required(s) /\ server' = [server EXCEPT ![s] = "created"]
    <3>1. server[s] = "nil"
      BY <2>0 DEF StagesInv, Past, PastSecure
    <3>2. \A t \in Servers : server'[t] = IF t = s THEN "created" ELSE server[t]
      BY <2>3 DEF LifeTypes
    <3>3. main' \in Watching /\ UNCHANGED <<fate, flight>>
      BY <2>3, <2>w DEF Goto
    <3>4. server'["insecure"] = "closed" => server["insecure"] = "closed"
      BY <3>2 DEF Servers
    <3>5. server["secure"] = "closed" \/ ~Required("secure") => server'["secure"] = "closed" \/ ~Required("secure")'
      BY <2>0, <2>3, <3>1, <3>2 DEF Servers, Required
    <3>6. Busy("secure")' = Busy("secure")
      BY <3>3 DEF Busy
    <3>7. \A r \in Requests : flight'[r] \in Servers => server'[flight'[r]] # "nil"
      BY <3>2, <3>3 DEF ClosingInv
    <3>9. server["insecure"] = "closed" \/ ~Required("insecure") => server'["insecure"] = "closed" \/ ~Required("insecure")'
      BY <2>0, <2>3, <3>1, <3>2 DEF Servers, Required
    <3>8. ClosingInv'
      BY <2>0, <2>w, <3>3, <3>4, <3>5, <3>6, <3>7, <3>9 DEF ClosingInv
    <3> QED BY <1>0, <3>3, <3>8, OrderlyWhileUp
  <2> QED BY <1>4, <2>1, <2>2, <2>3 DEF CreateServer
<1>5. ASSUME NEW s \in Servers, Ping(s) PROVE ClosingInv' /\ ShutdownOrderly'
  <2>0. main \in Watching /\ UNCHANGED <<opts, closing, expired, server>>
    BY <1>5, StagesOf DEF Ping, MainAt, shutdownVars, Watching, Prepared
  <2>1. CASE Fail("fatal")
    BY <1>0, <2>0, <2>1, ClosingEnd DEF Fail
  <2>2. CASE \E next \in {"ping secure", "wait"} : Goto(next)
    <3>1. main' \in Watching /\ UNCHANGED <<fate, flight>>
      BY <2>2 DEF Goto, Watching, Prepared
    <3> QED BY <1>0, <2>0, <3>1, ClosingElsewhere
  <2> QED BY <1>5, <2>1, <2>2 DEF Ping
<1>6. CASE Wait
  <2>1. End("stopped") /\ UNCHANGED <<opts, main, server, closing, expired>>
    BY <1>6 DEF Wait, shutdownVars
  <2>2. expired \/ ~Busy("secure") \/ ~Required("insecure")
    BY <1>6, StagesOf DEF Wait, ClosingInv
  <2>3. \A s \in Servers : Required(s) => server[s] = "closed"
    BY <1>6 DEF Wait
  <2> QED BY <1>0, <2>1, <2>2, <2>3, ClosingEnd
<1> QED BY <1>1, <1>2, <1>3, <1>4, <1>5, <1>6 DEF MainStep

(* The listeners, the callback, the requests and the worker.               *)
LEMMA ClosingStep ==
  ASSUME LifeTypes, StagesInv, ClosingInv, ShutdownOrderly, [LifecycleNext]_lifecycleVars
  PROVE  ClosingInv' /\ ShutdownOrderly'
<1>1. ASSUME NEW s \in Servers, Listen(s) PROVE ClosingInv' /\ ShutdownOrderly'
  <2>0. fate = "up" /\ server[s] = "created" /\ UNCHANGED <<opts, main, closing, expired>>
    BY <1>1 DEF Listen, shutdownVars
  <2>1. CASE End("fatal") /\ UNCHANGED server
    BY <2>0, <2>1, ClosingEnd
  <2>2. CASE server' = [server EXCEPT ![s] = "listening"] /\ UNCHANGED <<fate, flight>>
    <3>1. \A t \in Servers : server'[t] = IF t = s THEN "listening" ELSE server[t]
      BY <2>2 DEF LifeTypes
    <3>2. /\ server'["insecure"] = "closed" <=> server["insecure"] = "closed"
          /\ server["secure"] = "closed" => server'["secure"] = "closed"
      BY <2>0, <3>1 DEF Servers
    <3>3. Busy("secure")' = Busy("secure")
      BY <2>2 DEF Busy
    <3>a. \A r \in Requests : flight[r] \in Servers => server[flight[r]] # "nil"
      BY DEF ClosingInv
    <3>b. \A t \in Servers : server[t] # "nil" => server'[t] # "nil"
      BY <3>1
    <3>4. \A r \in Requests : flight'[r] \in Servers => server'[flight'[r]] # "nil"
      BY <2>2, <3>a, <3>b
    <3>5. ClosingInv'
      BY <2>0, <2>2, <3>2, <3>3, <3>4 DEF ClosingInv, Required
    <3> QED BY <2>0, <2>2, <3>5, OrderlyWhileUp
  <2> QED BY <1>1, <2>1, <2>2 DEF Listen
<1>2. ASSUME NEW s \in Servers, CloseListener(s) PROVE ClosingInv' /\ ShutdownOrderly'
  <2>0. fate = "up" /\ closing = s /\ UNCHANGED <<opts, main, expired>> /\ (s = "secure" \/ s = "insecure")
    BY <1>2 DEF CloseListener, Servers
  <2>w. main \in Watching /\ server["insecure"] # "closed"
    BY <2>0 DEF ClosingInv
  <2>1. CASE ~Required(s) /\ closing' = After(s) /\ UNCHANGED <<server, fate, flight>>
    <3>1. s = "secure" => ~Busy("secure")
      BY <2>1 DEF Busy, ClosingInv, StagesInv, Servers
    <3>2. Busy("secure")' = Busy("secure")
      BY <2>1 DEF Busy
    <3>3. ClosingInv'
      BY <2>0, <2>w, <2>1, <3>1, <3>2, StagesOf DEF ClosingInv, Required
    <3> QED BY <2>0, <2>1, <3>3, OrderlyWhileUp
  <2>2. CASE Required(s) /\ server[s] = "nil" /\ End("crashed") /\ UNCHANGED <<closing, server>>
    <3>1. main \in {"insecure", "secure"}
      BY <2>0, <2>w, <2>2 DEF StagesInv, Past, PastSecure, Watching, Prepared
    <3>2. server["secure"] = "nil"
      BY <3>1 DEF StagesInv, Past, PastSecure, Servers
    <3>3. ~Busy("secure")
      BY <3>2 DEF Busy, ClosingInv, Servers
    <3> QED BY <2>0, <2>2, <3>1, <3>3, ClosingEnd
  <2>3. CASE /\ server[s] # "nil" /\ server' = [server EXCEPT ![s] = "closed"]
             /\ closing' = Draining[s] /\ UNCHANGED <<fate, flight>>
    <3>1. \A t \in Servers : server'[t] = IF t = s THEN "closed" ELSE server[t]
      BY <2>3 DEF LifeTypes
    <3>2. Busy("secure")' = Busy("secure")
      BY <2>3 DEF Busy
    <3>a. \A r \in Requests : flight[r] \in Servers => server[flight[r]] # "nil"
      BY DEF ClosingInv
    <3>b. \A t \in Servers : server[t] # "nil" => server'[t] # "nil"
      BY <3>1
    <3>3. \A r \in Requests : flight'[r] \in Servers => server'[flight'[r]] # "nil"
      BY <2>3, <3>a, <3>b
    <3>4. server'["secure"] = "closed" \/ ~Required("secure")'
      BY <2>0, <3>1, StagesOf DEF ClosingInv, Required
    <3>5. server'["insecure"] = "closed" => closing' = "drain insecure"
      BY <2>0, <2>3, <2>w, <3>1, StagesOf
    <3>6. closing' = "drain insecure" => expired \/ ~Busy("secure")
      BY <2>0, <2>3, StagesOf DEF ClosingInv
    <3>7. closing' \in {"drain secure", "drain insecure"}
      BY <2>0, <2>3, StagesOf
    <3>9. closing' = "drain insecure" => server'["insecure"] = "closed"
      BY <2>0, <2>3, <3>1, StagesOf
    <3>8. ClosingInv'
      BY <2>0, <2>3, <2>w, <3>2, <3>3, <3>4, <3>5, <3>6, <3>7, <3>9 DEF ClosingInv
    <3> QED BY <2>0, <2>3, <3>8, OrderlyWhileUp
  <2> QED BY <1>2, <2>1, <2>2, <2>3 DEF CloseListener
<1>3. ASSUME NEW s \in Servers, Drain(s) PROVE ClosingInv' /\ ShutdownOrderly'
  <2>0. /\ fate = "up" /\ closing = Draining[s] /\ closing' = After(s) /\ (~Busy(s) \/ expired)
        /\ UNCHANGED <<opts, main, server, expired, flight, fate>> /\ (s = "secure" \/ s = "insecure")
    BY <1>3 DEF Drain, Servers
  <2>1. Busy("secure")' = Busy("secure")
    BY <2>0 DEF Busy
  <2>2. ClosingInv'
    BY <2>0, <2>1, StagesOf DEF ClosingInv, Required
  <2> QED BY <2>0, <2>2, OrderlyWhileUp
<1>4. CASE CloseStore \/ DeadlinePasses
  <2>0. fate = "up" /\ UNCHANGED <<opts, main, server, flight, fate>> /\ (expired => expired')
    BY <1>4 DEF CloseStore, DeadlinePasses
  <2>1. Busy("secure")' = Busy("secure")
    BY <2>0 DEF Busy
  <2>2. closing' = closing \/ (closing = "store" /\ closing' = "secure")
    BY <1>4 DEF CloseStore, DeadlinePasses
  <2>a. closing' = closing => ClosingInv'
    BY <2>0, <2>1 DEF ClosingInv, Required
  <2>b. closing = "store" /\ closing' = "secure" => ClosingInv'
    BY <2>0, <2>1 DEF ClosingInv, Required
  <2>3. ClosingInv'
    BY <2>2, <2>a, <2>b
  <2> QED BY <2>0, <2>3, OrderlyWhileUp
<1>5. CASE Finish
  <2>1. \A s \in Servers : Required(s) => server[s] = "closed"
    BY <1>5 DEF Finish, ClosingInv, Servers
  <2> QED BY <1>5, <2>1, ClosingEnd DEF Finish, shutdownVars, ClosingInv
<1>6. CASE Signal
  <2>0. fate = "up" /\ UNCHANGED <<opts, main, server, expired>>
    BY <1>6 DEF Signal
  <2>1. CASE closing = "unwatched" /\ End("killed") /\ UNCHANGED closing
    <3>1. main \notin Watching
      BY <2>1 DEF ClosingInv
    <3> QED BY <2>0, <2>1, <3>1, ClosingEarly DEF Fail
  <2>2. CASE closing = "waiting" /\ closing' = "store" /\ UNCHANGED <<fate, flight>>
    <3>1. Busy("secure")' = Busy("secure")
      BY <2>2 DEF Busy
    <3>2. ClosingInv'
      BY <2>0, <2>2, <3>1 DEF ClosingInv, Required
    <3> QED BY <2>0, <2>2, <3>2, OrderlyWhileUp
  <2> QED BY <1>6, <2>1, <2>2 DEF Signal
<1>7. ASSUME NEW r \in Requests, Respond(r) PROVE ClosingInv' /\ ShutdownOrderly'
  <2>0. fate = "up" /\ UNCHANGED <<opts, main, server, closing, expired, fate>>
    BY <1>7 DEF Respond, shutdownVars
  <2>1. \A q \in Requests : flight'[q] = flight[q] \/ flight'[q] \in {"answered", "no database"}
    BY <1>7 DEF Respond, LifeTypes
  <2>2. Busy("secure")' => Busy("secure")
    BY <2>1 DEF Busy
  <2>3. \A q \in Requests : flight'[q] \in Servers => server'[flight'[q]] # "nil"
    BY <2>0, <2>1 DEF ClosingInv, Servers
  <2>4. \A q \in Requests : flight'[q] \notin CutOff
    BY <2>0, <2>1 DEF ClosingInv, CutOff
  <2>5. ClosingInv'
    BY <2>0, <2>2, <2>3, <2>4 DEF ClosingInv, Required
  <2> QED BY <2>0, <2>5, OrderlyWhileUp
<1>8. ASSUME NEW r \in Requests, NEW s \in Servers, Accept(r, s) PROVE ClosingInv' /\ ShutdownOrderly'
  <2>0. fate = "up" /\ server[s] = "listening" /\ UNCHANGED <<opts, main, server, closing, expired, fate>>
    BY <1>8 DEF Accept, shutdownVars
  <2>1. \A q \in Requests : flight'[q] = IF q = r THEN s ELSE flight[q]
    BY <1>8 DEF Accept, LifeTypes
  <2>2. closing \in {"insecure", "drain insecure", "finish"} => s # "secure"
    BY <2>0 DEF ClosingInv, StagesInv, Servers
  <2>3. s # "secure" => (Busy("secure")' => Busy("secure"))
    BY <2>1 DEF Busy
  <2>4. \A q \in Requests : flight'[q] \in Servers => server'[flight'[q]] # "nil"
    BY <2>0, <2>1 DEF ClosingInv
  <2>5. \A q \in Requests : flight'[q] \notin CutOff
    BY <2>0, <2>1 DEF ClosingInv, CutOff, Servers
  <2>6. ClosingInv'
    BY <2>0, <2>2, <2>3, <2>4, <2>5 DEF ClosingInv, Required
  <2> QED BY <2>0, <2>6, OrderlyWhileUp
<1>9. CASE BuildWorker \/ Ended \/ UNCHANGED lifecycleVars
  BY <1>9, ClosingElsewhere DEF BuildWorker, Ended, lifecycleVars, shutdownVars
<1> QED BY <1>1, <1>2, <1>3, <1>4, <1>5, <1>6, <1>7, <1>8, <1>9, ClosingMain
        DEF LifecycleNext, ListenerStep, ShutdownStep
-----------------------------------------------------------------------------
LifecycleInv == LifeTypes /\ SchemaInv /\ StagesInv /\ ClosingInv /\ ShutdownOrderly

(* A process that has just been started has done nothing.                  *)
LEMMA LifecycleStarts == LifecycleInit => LifecycleInv
<1> SUFFICES ASSUME LifecycleInit PROVE LifecycleInv
  OBVIOUS
<1>0. NTables \in Nat \ {0}
  BY LifecycleAssumption
<1>1. LifeTypes
  <2>1. opts \in OptionTypes
    BY DEF LifecycleInit, Options, OptionTypes
  <2>2. tables \in 0..NTables
    BY <1>0 DEF LifecycleInit
  <2>3. migrating \in [Processes -> [at : 1..(NTables + 1), missing : BOOLEAN]]
    <3>1. 1 \in 1..(NTables + 1)
      BY <1>0
    <3> QED BY <3>1 DEF LifecycleInit
  <2>4. flight \in [Requests -> Flights]
    BY DEF LifecycleInit, Flights
  <2> QED BY <2>1, <2>2, <2>3, <2>4 DEF LifecycleInit, LifeTypes
<1>2. SchemaInv
  <2>1. \A p \in Processes : migrating[p].at = 1 /\ ~migrating[p].missing
    BY DEF LifecycleInit
  <2>2. tables = 0 /\ fate # "exists" /\ workerFate # "exists" /\ "worker" \in Processes
    BY DEF LifecycleInit, Processes
  <2> QED BY <2>1, <2>2 DEF SchemaInv
<1>3. StagesInv
  BY DEF LifecycleInit, StagesInv, Checked, Connected, Prepared, Past, PastSecure
<1>4. ClosingInv
  BY StagesOf DEF LifecycleInit, ClosingInv, Watching, Prepared, CutOff, Servers
<1>5. ShutdownOrderly
  BY DEF LifecycleInit, ShutdownOrderly, CrashesEarly, StopsClosed, SecureDrained
<1> QED BY <1>1, <1>2, <1>3, <1>4, <1>5 DEF LifecycleInv

(* All of it together holds for as long as the process runs.               *)
LEMMA LifecycleKept == LifecycleSpec => []LifecycleInv
<1>1. LifecycleInv /\ [LifecycleNext]_lifecycleVars => LifecycleInv'
  BY StepTypes, SchemaStep, StagesStep, ClosingStep DEF LifecycleInv
<1> QED BY LifecycleStarts, <1>1, PTL DEF LifecycleSpec

(* What the stages promise is what a request needs.                        *)
LEMMA ReadyFromStages ==
  ASSUME LifecycleInv
  PROVE  StartsReady
<1>1. ServedReady
  <2>1. \A at \in Past("insecure") : at \in Prepared /\ at \in Connected /\ at \in Checked
    BY DEF Past, PastSecure, Prepared, Connected, Checked
  <2> QED BY <2>1 DEF LifecycleInv, StagesInv, ServedReady
<1>2. OneMigrates
  <2>1. "apiserver" \in Processes /\ "worker" \in Processes /\ NTables \in Nat
    BY LifecycleAssumption DEF Processes
  <2>2. tables \in 0..NTables /\ \A p \in Processes : migrating[p].at \in 1..(NTables + 1)
    BY DEF LifecycleInv, LifeTypes
  <2>3. PICK w \in Processes : migrating[w].at = tables + 1
    BY DEF LifecycleInv, SchemaInv
  <2>4. w = "apiserver" \/ w = "worker"
    BY DEF Processes
  <2>5. /\ fate = "exists" => migrating["apiserver"].at <= tables
        /\ workerFate = "exists" => migrating["worker"].at <= tables
    BY DEF LifecycleInv, SchemaInv
  <2> QED BY <2>1, <2>2, <2>3, <2>4, <2>5 DEF OneMigrates
<1> QED BY <1>1, <1>2 DEF StartsReady

(* Whatever worker starts beside it, and wherever a start fails, the API   *)
(* server accepts a request only when its options were checked, its tables *)
(* exist and its store is set, and two starts on an empty database do not  *)
(* both lose the race for a table.                                         *)
THEOREM OnlyReadyServes == LifecycleSpec => []StartsReady
<1>1. LifecycleInv => StartsReady
  BY ReadyFromStages
<1> QED BY <1>1, LifecycleKept, PTL

(* However early or late a signal is caught: it crashes the process only   *)
(* while main is still making the servers, when no request over HTTPS is   *)
(* in flight; a process that stops has shut down both servers; and a       *)
(* request over HTTPS is cut off beside a running HTTP server only after   *)
(* the ten seconds or by a listener or health check that fails.            *)
THEOREM OrderlyEnds == LifecycleSpec => []ShutdownOrderly
<1>1. LifecycleInv => ShutdownOrderly
  BY DEF LifecycleInv
<1> QED BY <1>1, LifecycleKept, PTL
=============================================================================
