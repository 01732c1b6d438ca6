--------------------------- MODULE ServerLifecycle ---------------------------
(***************************************************************************)
(* The life of the API server's process, from its options to its end, with *)
(* a task worker that is started beside it.  Options are completed and     *)
(* checked, the database is connected and its tables are made, the HTTP    *)
(* and HTTPS servers are started and pinged, and a signal closes them.     *)
(*                                                                         *)
(* The main goroutine, the goroutine of each listener, the one that waits  *)
(* for signals and every request in flight take steps of their own.  The   *)
(* ten seconds a shutdown may take are the event DeadlinePasses.           *)
(***************************************************************************)
EXTENDS Naturals, FiniteSets

CONSTANTS
  Requests,    \* requests that clients send
  NTables      \* the tables of the schema, made in order

ASSUME LifecycleAssumption == NTables \in Nat \ {0} /\ IsFiniteSet(Requests)

VARIABLES
  opts,        \* the options of the API server
  main,        \* where its main goroutine is
  cert,        \* the key pair its HTTPS server was given
  tables,      \* how many tables exist
  migrating,   \* per process: the table it is at, and whether it found it missing
  store,       \* the API server's database handle: "none", "open", "closed"
  client,      \* store.SetClient has been called
  server,      \* "nil", "created", "listening" or "closed", for both servers
  closing,     \* where the shutdown callback is, "waiting" before the signal
  expired,     \* the ten seconds of Close are over
  flight,      \* per request: where it is, or how it ended
  fate,        \* how the process ended, "up" while it runs
  workerFate   \* the same for the worker, "starting" before it runs

lifecycleVars == <<opts, main, cert, tables, migrating, store, client, server, closing, expired,
                   flight, fate, workerFate>>
shutdownVars == <<closing, expired>>
dbVars == <<tables, migrating, store, client>>
-----------------------------------------------------------------------------
Servers == {"insecure", "secure"}
Processes == {"apiserver", "worker"}
Sources == {"data", "files", "dir"}
Pairs == {"absent", "matching", "mismatched", "unreadable"}

(* accepted: the library's check of the pair passes; valid: all options    *)
(* that are not listed here are.                                           *)
Options ==
  {o \in [required : SUBSET Servers, certs : [Sources -> Pairs], named : BOOLEAN, accepted : BOOLEAN,
          database : {"postgresql", "mysql", ""}, healthz : BOOLEAN, valid : BOOLEAN] :
     /\ o.certs["data"] # "unreadable"
     /\ "secure" \notin o.required => o.accepted /\ o.named /\ \A s \in Sources : o.certs[s] = "absent"
     /\ Cardinality({s \in Sources : o.certs[s] \in {"absent", "matching"}}) >= 2
     /\ o.named \/ o.certs["dir"] # "absent"}

Required(s) == s \in opts.required
Pinging == [insecure |-> "ping insecure", secure |-> "ping secure"]
Draining == [insecure |-> "drain insecure", secure |-> "drain secure"]
Cut == [insecure |-> "cut insecure", secure |-> "cut secure"]

(* SecureServingOptions.Complete: data that was given stays; the files are *)
(* read, and then the directory, whose pair replaces theirs.               *)
Loads(o) ==
  IF "secure" \notin o.required \/ o.certs["data"] # "absent" THEN {}
  ELSE {s \in {"files", "dir"} : o.certs[s] # "absent"}
CompleteFails(o) ==
  \E s \in Loads(o) : o.certs[s] = "unreadable" \/ (s = "dir" /\ ~o.named)
CompletedPair(o) ==
  IF "dir" \in Loads(o) THEN o.certs["dir"]
  ELSE IF "files" \in Loads(o) THEN o.certs["files"] ELSE o.certs["data"]

DatabaseValid(o) == o.database \in {"postgresql", "mysql"}
OptionsValid(o) ==
  o.valid /\ o.required # {} /\ DatabaseValid(o) /\ ("secure" \in o.required => o.accepted)
-----------------------------------------------------------------------------
LifecycleInit ==
  /\ opts \in Options
  /\ main = "complete" /\ cert = "absent" /\ tables = 0
  /\ migrating = [p \in Processes |-> [at |-> 1, missing |-> FALSE]]
  /\ store = "none" /\ client = FALSE
  /\ server = [s \in Servers |-> "nil"]
  /\ closing = "unwatched" /\ expired = FALSE
  /\ flight = [r \in Requests |-> "unsent"]
  /\ fate = "up" /\ workerFate = "starting"

(* The process is gone: requests in flight are cut off.                    *)
End(how) ==
  /\ fate' = how
  /\ flight' = [r \in Requests |-> IF flight[r] \in Servers THEN Cut[flight[r]] ELSE flight[r]]

MainAt(at) == fate = "up" /\ main = at
Goto(next) == main' = next /\ UNCHANGED <<fate, flight>>
Fail(how) == End(how) /\ UNCHANGED main

(* The sources of the key pair are not read again, and left out of opts.   *)
Complete ==
  /\ MainAt("complete")
  /\ IF CompleteFails(opts)
       THEN Fail("error") /\ UNCHANGED <<opts, cert>>
       ELSE /\ cert' = CompletedPair(opts) /\ Goto("validate")
            /\ opts' = [opts EXCEPT !.certs = [s \in Sources |-> "absent"], !.named = TRUE]
  /\ UNCHANGED <<server, workerFate, shutdownVars, dbVars>>

ValidateOptions ==
  /\ MainAt("validate")
  /\ IF OptionsValid(opts) THEN Goto("connect") ELSE Fail("error")
  /\ UNCHANGED <<opts, cert, server, workerFate, shutdownVars, dbVars>>

(* GetDatabaseFactoryOr: only postgresql is supported, and connecting may  *)
(* fail.                                                                   *)
Connect ==
  /\ MainAt("connect")
  /\ \/ opts.database = "postgresql" /\ store' = "open" /\ Goto("migrate")
     \/ Fail("error") /\ UNCHANGED store
  /\ UNCHANGED <<opts, cert, server, workerFate, shutdownVars, tables, migrating, client>>

(* AutoMigrate, table by table: look for it, and create it if it is not    *)
(* there.  Creating fails when another process has created it since.       *)
LookForTable(p) ==
  /\ migrating[p].at <= NTables /\ ~migrating[p].missing
  /\ migrating' =
       IF tables >= migrating[p].at
         THEN [migrating EXCEPT ![p] = [at |-> migrating[p].at + 1, missing |-> FALSE]]
         ELSE [migrating EXCEPT ![p].missing = TRUE]
  /\ UNCHANGED tables

CreateTable(p) ==
  /\ migrating[p].missing /\ tables < migrating[p].at
  /\ tables' = migrating[p].at
  /\ migrating' = [migrating EXCEPT ![p] = [at |-> migrating[p].at + 1, missing |-> FALSE]]

TableExists(p) == migrating[p].missing /\ tables >= migrating[p].at
Migrated(p) == migrating[p].at > NTables

(* Fault seeded for the checks: an error of the migration is ignored. *)
EnsureSchemeIgnores ==
  /\ MainAt("migrate")
  /\ \/ LookForTable("apiserver") /\ Goto("migrate") /\ UNCHANGED client
     \/ CreateTable("apiserver") /\ Goto("migrate") /\ UNCHANGED client
     \/ (Migrated("apiserver") \/ TableExists("apiserver"))
        /\ client' = TRUE /\ Goto("start") /\ UNCHANGED <<tables, migrating>>
  /\ UNCHANGED <<opts, cert, server, workerFate, shutdownVars, store>>

EnsureScheme ==
  /\ MainAt("migrate")
  /\ \/ LookForTable("apiserver") /\ Goto("migrate") /\ UNCHANGED client
     \/ CreateTable("apiserver") /\ Goto("migrate") /\ UNCHANGED client
     \/ TableExists("apiserver") /\ Fail("exists") /\ UNCHANGED <<tables, migrating, client>>
     \/ Fail("error") /\ UNCHANGED <<tables, migrating, client>>
     \/ Migrated("apiserver") /\ client' = TRUE /\ Goto("start") /\ UNCHANGED <<tables, migrating>>
  /\ UNCHANGED <<opts, cert, server, workerFate, shutdownVars, store>>

(* preparedServer.Run: from here on signals are caught. *)
StartShutdownManager ==
  /\ MainAt("start") /\ closing' = "waiting" /\ Goto("insecure")
  /\ UNCHANGED <<opts, cert, server, workerFate, expired, dbVars>>

(* GenericHTTPServer.Run: each server that is required is created and its  *)
(* goroutine started; a key pair that does not match is fatal.             *)
CreateServer(s) ==
  /\ MainAt(s)
  /\ LET next == IF s = "insecure" THEN "secure" ELSE "ping insecure" IN
       \/ ~Required(s) /\ Goto(next) /\ UNCHANGED server
       \/ Required(s) /\ s = "secure" /\ cert # "matching" /\ Fail("fatal") /\ UNCHANGED server
       \/ /\ Required(s) /\ (s = "secure" => cert = "matching")
          /\ server' = [server EXCEPT ![s] = "created"] /\ Goto(next)
  /\ UNCHANGED <<opts, cert, workerFate, shutdownVars, dbVars>>

Listen(s) ==
  /\ fate = "up" /\ server[s] = "created"
  /\ \/ server' = [server EXCEPT ![s] = "listening"] /\ UNCHANGED <<fate, flight>>
     \/ End("fatal") /\ UNCHANGED server
  /\ UNCHANGED <<opts, main, cert, workerFate, shutdownVars, dbVars>>

(* The health check of a server goes on until it is answered or its time   *)
(* is over, which is fatal.                                                *)
Ping(s) ==
  /\ MainAt(Pinging[s])
  /\ LET next == IF s = "insecure" THEN "ping secure" ELSE "wait" IN
       \/ ~(opts.healthz /\ Required(s)) /\ Goto(next)
       \/ opts.healthz /\ Required(s) /\ server[s] = "listening" /\ Goto(next)
       \/ opts.healthz /\ Required(s) /\ Fail("fatal")
  /\ UNCHANGED <<opts, cert, server, workerFate, shutdownVars, dbVars>>

(* errgroup.Wait: Run returns, and with it the process, when both          *)
(* listeners have returned, which they do as soon as Shutdown is called.   *)
Wait ==
  /\ MainAt("wait") /\ \A s \in Servers : Required(s) => server[s] = "closed"
  /\ End("stopped") /\ UNCHANGED <<opts, main, cert, server, workerFate, shutdownVars, dbVars>>
-----------------------------------------------------------------------------
Accept(r, s) ==
  /\ fate = "up" /\ server[s] = "listening" /\ flight[r] = "unsent"
  /\ flight' = [flight EXCEPT ![r] = s]
  /\ UNCHANGED <<opts, main, cert, server, fate, workerFate, shutdownVars, dbVars>>

(* A request that has not got what it needs from the database when the     *)
(* handle is closed fails.                                                 *)
Respond(r) ==
  /\ fate = "up" /\ flight[r] \in Servers
  /\ \/ store = "open" /\ flight' = [flight EXCEPT ![r] = "answered"]
     \/ store = "closed" /\ flight' = [flight EXCEPT ![r] = "no database"]
  /\ UNCHANGED <<opts, main, cert, server, fate, workerFate, shutdownVars, dbVars>>

Busy(s) == \E r \in Requests : flight[r] = s
-----------------------------------------------------------------------------
(* A signal: it kills a process that does not watch for it, and starts the *)
(* shutdown callback of one that does.                                     *)
Signal ==
  /\ fate = "up" /\ closing \in {"unwatched", "waiting"}
  /\ \/ closing = "unwatched" /\ End("killed") /\ UNCHANGED closing
     \/ closing = "waiting" /\ closing' = "store" /\ UNCHANGED <<fate, flight>>
  /\ UNCHANGED <<opts, main, cert, server, expired, workerFate, dbVars>>

(* The callback closes the database handle first, and then the servers.    *)
CloseStore ==
  /\ fate = "up" /\ closing = "store" /\ closing' = "secure" /\ store' = "closed"
  /\ UNCHANGED <<opts, main, cert, server, expired, flight, fate, workerFate, tables, migrating, client>>

(* Close shuts the HTTPS server down first. *)
After(s) == IF s = "secure" THEN "insecure" ELSE "finish"

(* Fault seeded for the checks: Close is called instead of Shutdown. *)
CloseListenerOnly(s) ==
  /\ fate = "up" /\ closing = s /\ (Required(s) => server[s] # "nil")
  /\ server' = IF Required(s) THEN [server EXCEPT ![s] = "closed"] ELSE server
  /\ closing' = After(s)
  /\ UNCHANGED <<opts, main, cert, expired, flight, fate, workerFate, dbVars>>

(* http.Server.Shutdown closes the listener and then waits for the         *)
(* requests in flight or the end of the context.  On a server that is not  *)
(* there yet it is a nil dereference.                                      *)
CloseListener(s) ==
  /\ fate = "up" /\ closing = s
  /\ \/ ~Required(s) /\ closing' = After(s) /\ UNCHANGED <<server, fate, flight>>
     \/ Required(s) /\ server[s] = "nil" /\ End("crashed") /\ UNCHANGED <<closing, server>>
     \/ /\ Required(s) /\ server[s] # "nil"
        /\ server' = [server EXCEPT ![s] = "closed"] /\ closing' = Draining[s]
        /\ UNCHANGED <<fate, flight>>
  /\ UNCHANGED <<opts, main, cert, expired, workerFate, dbVars>>

Drain(s) ==
  /\ fate = "up" /\ closing = Draining[s] /\ (~Busy(s) \/ expired)
  /\ closing' = After(s)
  /\ UNCHANGED <<opts, main, cert, server, expired, flight, fate, workerFate, dbVars>>

(* Fault seeded for the checks: Shutdown is given a context without end. *)
DeadlineNever == FALSE /\ UNCHANGED lifecycleVars

DeadlinePasses ==
  /\ fate = "up" /\ ~expired /\ closing \in Servers \cup {Draining[s] : s \in Servers}
  /\ expired' = TRUE
  /\ UNCHANGED <<opts, main, cert, server, closing, flight, fate, workerFate, dbVars>>

(* The shutdown manager ends the process after the callbacks. *)
Finish ==
  /\ fate = "up" /\ closing = "finish" /\ End("stopped")
  /\ UNCHANGED <<opts, main, cert, server, workerFate, shutdownVars, dbVars>>
-----------------------------------------------------------------------------
(* The worker connects and migrates with the same code, and then polls.    *)
BuildWorker ==
  /\ workerFate = "starting"
  /\ \/ (LookForTable("worker") \/ CreateTable("worker")) /\ UNCHANGED workerFate
     \/ TableExists("worker") /\ workerFate' = "exists" /\ UNCHANGED <<tables, migrating>>
     \/ workerFate' = "error" /\ UNCHANGED <<tables, migrating>>
     \/ Migrated("worker") /\ workerFate' = "up" /\ UNCHANGED <<tables, migrating>>
  /\ UNCHANGED <<opts, main, cert, store, client, server, shutdownVars, flight, fate>>

(* Nothing more happens in a process that has ended. *)
Ended == fate # "up" /\ UNCHANGED lifecycleVars

MainStep ==
  \/ Complete \/ ValidateOptions \/ Connect \/ EnsureScheme \/ StartShutdownManager
  \/ \E s \in Servers : CreateServer(s) \/ Ping(s)
  \/ Wait
ListenerStep == \E s \in Servers : Listen(s)
ShutdownStep == CloseStore \/ (\E s \in Servers : CloseListener(s) \/ Drain(s)) \/ Finish

LifecycleNext ==
  \/ MainStep \/ ListenerStep \/ ShutdownStep
  \/ \E r \in Requests : Respond(r) \/ \E s \in Servers : Accept(r, s)
  \/ Signal \/ DeadlinePasses \/ BuildWorker \/ Ended

(* Every goroutine that can run gets to run, and time passes; requests may *)
(* take forever, and a signal need not come.                               *)
LifecycleFairness ==
  /\ WF_lifecycleVars(ShutdownStep)
  /\ WF_lifecycleVars(DeadlinePasses)

LifecycleSpec == LifecycleInit /\ [][LifecycleNext]_lifecycleVars /\ LifecycleFairness
-----------------------------------------------------------------------------
(* A request is accepted only by a process whose options were checked,     *)
(* whose tables all exist and whose store is set (createServer, PrepareRun,*)
(* Run): nothing that fails on the way is passed over, whatever a worker   *)
(* that is started at the same time does to the tables.                    *)
ServedReady ==
  \A r \in Requests : flight[r] # "unsent" =>
    tables = NTables /\ client /\ OptionsValid(opts) /\ opts.database = "postgresql"

(* A signal that is caught before both servers have been made may crash    *)
(* the process: Close shuts down a server that is still nil.  It happens   *)
(* in no other way and at no later time, and though it cuts off requests   *)
(* over HTTP, whose server may be up by then, it cuts off none over HTTPS. *)
CrashesEarly ==
  fate = "crashed" =>
    /\ main \in {"insecure", "secure"}
    /\ \E s \in Servers : Required(s) /\ server[s] = "nil"
    /\ \A r \in Requests : flight[r] # "cut secure"

(* Any other end of the shutdown, be it of the callback or of main, which  *)
(* returns when both listeners have, comes after both servers were shut    *)
(* down.                                                                   *)
StopsClosed == fate = "stopped" => \A s \in Servers : Required(s) => server[s] = "closed"

(* When both servers are to run, Close drains the HTTPS server before it   *)
(* closes the HTTP server: a request over HTTPS is only cut off after the  *)
(* ten seconds, or when a listener or the health check fails.              *)
SecureDrained ==
  \A r \in Requests :
    flight[r] = "cut secure" /\ Required("insecure") => expired \/ fate = "fatal"

(* No two processes that start on an empty database lose to each other:    *)
(* the one whose table exists by the time it creates it leaves the other.  *)
OneMigrates == ~(fate = "exists" /\ workerFate = "exists")

(* What is served is served from a database that one start has prepared,   *)
(* however the starts of the API server and of the worker interleave.      *)
StartsReady == ServedReady /\ OneMigrates

(* What a signal does, however early or late it is caught: it crashes the  *)
(* process only while main is still making the servers; otherwise both are *)
(* shut down, in the order that spares the requests over HTTPS.            *)
ShutdownOrderly == CrashesEarly /\ StopsClosed /\ SecureDrained

(* After a signal was caught the process ends.                             *)
SignalEnds == (closing = "store") ~> (fate # "up")
=============================================================================
