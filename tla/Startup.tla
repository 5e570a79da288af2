------------------------------- MODULE Startup -------------------------------
(***************************************************************************)
(* The life of the backend's processes around their database: cmd/server,  *)
(* which loads its configuration, may migrate, loads the state graph,      *)
(* serves and shuts down, next to the migrate command.  Processes start,   *)
(* run into each other on the migration lock, get signals and are killed.  *)
(*                                                                         *)
(* golang-migrate is modelled as the code relies on it: one run at a time  *)
(* under a lock; the version marked dirty, the file run as one             *)
(* transaction, the mark removed.  What a server answers is in the other   *)
(* modules: a request is open here until it is answered.                   *)
(***************************************************************************)
EXTENDS Integers, FiniteSets

CONSTANTS
  Servers,      \* replicas of cmd/server
  Commands,     \* shells that run cmd/migrate
  Files, Envs,  \* what config files and the environment set
  Forced,       \* versions "migrate force" is given
  MaxBoots,     \* bound: starts of a server
  MaxCommands,  \* bound: migrate commands of a shell
  MaxOpen,      \* bound: requests a server has open at a time
  MayFail,      \* whether the database may fail
  MayKill       \* whether processes may be killed

Procs == Servers \cup Commands
Nobody == "nobody"

Latest == 7
Migrations == 1 .. Latest

\* Values of the settings by what the code tells apart: "bad" does not parse,
\* "short" is too short in production, "wrong" parses and cannot be used;
\* "keywords" is a DSN that is no URL, which pgxpool takes all the same.
Default ==
  [listen |-> "ok", level |-> "ok", dsn |-> "ok", lifetime |-> "ok", secret |-> "short",
   ttl |-> "ok", cost |-> 12, mcp |-> TRUE, path |-> "ok", token |-> "short",
   base |-> "ok", ws |-> "ok", transport |-> "log", host |-> "", from |-> "ok",
   prod |-> FALSE, auto |-> FALSE]
Settings == DOMAIN Default

ASSUME LayersAssumption == \A layer \in Files \cup Envs : DOMAIN layer \subseteq Settings
ASSUME ProcessesAssumption == Servers \cap Commands = {} /\ Nobody \notin Procs
ASSUME ForcedAssumption == Forced \subseteq Migrations
ASSUME BoundsAssumption == MaxBoots \in Nat /\ MaxCommands \in Nat /\ MaxOpen \in Nat
ASSUME MayAssumption == MayFail \in BOOLEAN /\ MayKill \in BOOLEAN

VARIABLES
  applied,    \* the migrations whose objects are in the database
  version,    \* schema_migrations.version, 0 when there is none
  dirty,      \* schema_migrations.dirty
  rows,       \* whether there are interview_sessions rows
  lock,       \* who holds the advisory lock
  proc,       \* the processes
  starts,     \* how often each was started
  mishaps     \* ghost: what has gone wrong or was done by hand

database == <<applied, version, dirty, rows>>
vars == <<database, lock, proc, starts, mishaps>>

\* A process: where it is; what its migrate run is to do and the file it runs;
\* its configuration, of which a migrate command only has the DSN; of a server,
\* whether ctx of main is cancelled, the parts of the state graph it has loaded and
\* the requests it has open.
NotRunning ==
  [pc |-> "off", dir |-> "up", file |-> 0, cfg |-> << >>, signalled |-> FALSE,
   machine |-> {}, open |-> 0]

Init ==
  /\ version \in {0, Latest}
  /\ applied = 1 .. version
  /\ dirty = FALSE
  /\ rows = FALSE
  /\ lock = Nobody
  /\ proc = [p \in Procs |-> NotRunning]
  /\ starts = [p \in Procs |-> 0]
  /\ mishaps = {}

Over(p) == proc[p].pc = "off"
Becomes(p, next) == proc' = [proc EXCEPT ![p] = next]
GoTo(p, step) == Becomes(p, [proc[p] EXCEPT !.pc = step])
\* main returns, or logger.Fatal, log.Fatal: what the process held is gone.
Ends(p) == Becomes(p, NotRunning)

-----------------------------------------------------------------------------
\* Configuration

\* loadConfig: the environment wins over the file, the file over DefaultConfig;
\* a file that is not there counts as one that sets nothing.
LoadConfig(f, env) ==
  [k \in Settings |->
     IF k \in DOMAIN env THEN env[k] ELSE IF k \in DOMAIN f THEN f[k] ELSE Default[k]]

\* The settings Validate fills in.
Effective(c) ==
  [c EXCEPT !.path = IF @ = "" THEN "ok" ELSE @,
            !.cost = IF @ = 0 THEN 12 ELSE @,
            !.transport = IF @ = "" THEN "log" ELSE @]

\* Config.Validate: the settings it complains about.
Offences(c) ==
  LET e == Effective(c) IN
  {k \in {"listen", "level", "dsn", "secret"} : e[k] = ""}
  \cup {k \in {"level", "dsn", "lifetime", "ttl", "base", "ws"} : e[k] = "bad"}
  \cup {k \in {"secret"} : e.prod /\ e[k] = "short"}
  \cup {k \in {"cost"} : e[k] \notin 10 .. 14}
  \cup {k \in {"path"} : e.mcp /\ e[k] = "bad"}
  \cup {k \in {"token"} : e.mcp /\ (e[k] = "" \/ (e.prod /\ e[k] = "short"))}
  \cup {k \in {"transport"} : e[k] \notin {"log", "smtp"}}
  \cup {k \in {"host", "from"} : e.transport = "smtp" /\ e[k] = ""}

\* What the modelled part of initServer and Listen looks at later.
Kept(c) == [k \in {"auto", "dsn", "listen", "transport", "host"} |-> Effective(c)[k]]

\* main begins: the configuration is loaded and checked.
Main(s) ==
  /\ Over(s) /\ starts[s] < MaxBoots
  /\ starts' = [starts EXCEPT ![s] = @ + 1]
  /\ \E f \in Files, env \in Envs :
       LET c == LoadConfig(f, env) IN
       IF Offences(c) = {}
       THEN Becomes(s, [NotRunning EXCEPT !.pc = "connect", !.cfg = Kept(c)])
       ELSE Ends(s)
  /\ UNCHANGED <<database, lock, mishaps>>

-----------------------------------------------------------------------------
\* Migrations

\* dsn of cmd/migrate: the environment's, or else that of DefaultConfig.
Dsn(env) == [dsn |-> LoadConfig(<< >>, env).dsn]

\* The migrate command is started.
RunCommand(m, dir) ==
  /\ Over(m) /\ starts[m] < MaxCommands
  /\ starts' = [starts EXCEPT ![m] = @ + 1]
  /\ \E env \in Envs :
       Becomes(m, [NotRunning EXCEPT !.pc = "lock", !.dir = dir, !.cfg = Dsn(env)])
  /\ mishaps' = mishaps \cup ({dir} \ {"up"})
  /\ UNCHANGED <<database, lock>>

Doing(p, step) == proc[p].pc = step
Up(p) == proc[p].dir = "up"

\* The files left to run: the next one, or none.
Pending(p) == {n \in Migrations : n = IF Up(p) THEN version + 1 ELSE version}

\* Where a process goes on when its migrations are done.
Migrated(p) == IF p \in Servers THEN GoTo(p, "load states") ELSE Ends(p)

\* Seeded fault: ErrNoChange is handled like any other error.
NoChangeFails(p) == Ends(p)

\* A run that finds nothing to do is not an error: ErrNoChange.
NoChange(p) == Migrated(p)

\* Seeded fault: a dirty version is not looked at.
NeverDirty == FALSE

\* A version left dirty ends every run but "force".
ErrDirty == dirty

\* newMigrate puts "pgx5://" in place of the scheme of the DSN, or before one that
\* has none, which must make a URL.
MakesURL(p) == proc[p].cfg.dsn # "keywords"

\* newMigrate fails: RunUp, RunDown and Force end with its error.
NewMigrateFails(p) ==
  /\ Doing(p, "lock") /\ ~MakesURL(p)
  /\ Ends(p)
  /\ UNCHANGED <<database, lock, starts, mishaps>>

\* RunUp and RunDown begin: newMigrate, the lock, the version.
Lock(p) ==
  /\ Doing(p, "lock") /\ MakesURL(p) /\ proc[p].dir # "force" /\ lock = Nobody
  /\ \/ ErrDirty /\ Ends(p) /\ UNCHANGED lock
     \/ ~ErrDirty /\ Pending(p) = {} /\ NoChange(p) /\ UNCHANGED lock
     \/ ~ErrDirty /\ Pending(p) # {} /\ GoTo(p, "mark") /\ lock' = p
  /\ UNCHANGED <<database, starts, mishaps>>

\* "migrate force": the version is written, the files are left alone.
ForceVersion(p) ==
  /\ Doing(p, "lock") /\ MakesURL(p) /\ proc[p].dir = "force" /\ lock = Nobody
  /\ version' \in Forced
  /\ dirty' = FALSE
  /\ Ends(p)
  /\ UNCHANGED <<applied, rows, lock, starts, mishaps>>

\* The lock is not to be had in time.
LockTimeout(p) ==
  /\ Doing(p, "lock") /\ MakesURL(p) /\ lock # Nobody
  /\ Ends(p)
  /\ mishaps' = mishaps \cup {"blocked"}
  /\ UNCHANGED <<database, lock, starts>>

\* The version a file leads to is written, dirty, before the file is run.
Mark(p) ==
  /\ Doing(p, "mark")
  /\ \E n \in Pending(p) :
       /\ version' = IF Up(p) THEN n ELSE n - 1
       /\ Becomes(p, [proc[p] EXCEPT !.pc = "run", !.file = n])
  /\ dirty' = TRUE
  /\ UNCHANGED <<applied, rows, lock, starts, mishaps>>

\* Whether the statements of an up file, and of a down file, can succeed: the
\* objects they create are missing, those they need are there.  0003 adds a
\* column without default to interview_sessions; 0002 takes back states that
\* rows refer to, 0001 tables that session_state_events refers to.
UpWorks(n) ==
  /\ n \notin applied
  /\ n = 1 \/ 1 \in applied
  /\ n = 3 => ~rows
DownWorks(n) ==
  /\ n \in {2, 3, 5} => 1 \in applied
  /\ n \in {6, 7} => n \in applied
  /\ n = 2 => ~rows
  /\ n = 1 => 4 \notin applied

\* The file takes effect as a whole.
TakesEffect(p) ==
  LET n == proc[p].file IN
  \/ Up(p) /\ UpWorks(n) /\ applied' = applied \cup {n} /\ UNCHANGED rows
  \/ /\ ~Up(p) /\ DownWorks(n)
     /\ applied' = IF n = 1 THEN {} ELSE applied \ {n}
     /\ rows' = (rows /\ n # 1)

\* The file cannot succeed.
Refused(p) == IF Up(p) THEN ~UpWorks(proc[p].file) ELSE ~DownWorks(proc[p].file)

\* The next file is up, or the run is over.
NextFile(p) ==
  \/ Pending(p) = {} /\ Migrated(p) /\ lock' = Nobody
  \/ Pending(p) # {} /\ GoTo(p, "mark") /\ UNCHANGED lock

\* Seeded fault: RunUp is given ctx, and a signal ends it before the mark is off.
UnmarkUnlessSignalled(p) ==
  IF proc[p].signalled
  THEN Ends(p) /\ lock' = Nobody /\ UNCHANGED dirty
  ELSE dirty' = FALSE /\ NextFile(p)

\* SetVersion(target, clean); RunUp has no context that a signal cancels.
Unmark(p) == dirty' = FALSE /\ NextFile(p)

\* The file is run and its mark removed; if it cannot succeed the version stays
\* dirty.  (A process that ends between the two is one that ends in "run" after
\* the file took effect: see Breaks.)
RunFile(p) ==
  /\ Doing(p, "run")
  /\ \/ TakesEffect(p) /\ Unmark(p)
     \/ Refused(p) /\ Ends(p) /\ lock' = Nobody /\ UNCHANGED <<applied, rows, dirty>>
  /\ UNCHANGED <<version, starts, mishaps>>

MigrationStep(p) ==
  \/ NewMigrateFails(p) \/ Lock(p) \/ ForceVersion(p) \/ LockTimeout(p)
  \/ Mark(p) \/ RunFile(p)

-----------------------------------------------------------------------------
\* initServer and Listen

\* postgres.Connect, whose ping fails once ctx is cancelled.
Connect(s) ==
  /\ Doing(s, "connect")
  /\ \/ proc[s].signalled /\ Ends(s)
     \/ ~proc[s].signalled /\ GoTo(s, IF proc[s].cfg.auto THEN "lock" ELSE "load states")
  /\ UNCHANGED <<database, lock, starts, mishaps>>

\* What a query of LoadGraph finds: the seeded rows, no rows, or no table.
LoadPart(s, part, next) ==
  \/ (proc[s].signalled \/ 1 \notin applied) /\ Ends(s)
  \/ /\ ~proc[s].signalled /\ 1 \in applied
     /\ Becomes(s, [proc[s] EXCEPT !.pc = next,
                      !.machine = @ \cup (IF 2 \in applied THEN {part} ELSE {})])

\* LoadGraph asks for the states and, in a query of its own, the transitions.
LoadStates(s) ==
  /\ Doing(s, "load states")
  /\ LoadPart(s, "states", "load transitions")
  /\ UNCHANGED <<database, lock, starts, mishaps>>
LoadTransitions(s) ==
  /\ Doing(s, "load transitions")
  /\ LoadPart(s, "transitions", "wire")
  /\ UNCHANGED <<database, lock, starts, mishaps>>

\* statemachine.New: there are states, and no transition of an unknown one.
AcceptsGraph(graph) == "states" \in graph

\* email_repo.NewSender.
NewSender(c) == c.transport \in {"log", ""} \/ (c.transport = "smtp" /\ c.host # "")

\* The rest of initServer: the machine, the services and the sender.
InitServer(s) ==
  LET fine == AcceptsGraph(proc[s].machine) /\ NewSender(proc[s].cfg) IN
  /\ Doing(s, "wire")
  /\ \/ fine /\ GoTo(s, "listen")
     \/ ~fine /\ Ends(s)
  /\ UNCHANGED <<database, lock, starts, mishaps>>

\* Listen: the address may be unusable.
Listen(s) ==
  /\ Doing(s, "listen")
  /\ \/ proc[s].cfg.listen = "wrong" /\ Ends(s)
     \/ proc[s].cfg.listen # "wrong" /\ GoTo(s, "serving")
  /\ UNCHANGED <<database, lock, starts, mishaps>>

\* A request comes in, and is answered some time, or never.  With the schema
\* complete it may have been one that schedules an interview.
Accept(s) ==
  /\ Doing(s, "serving") /\ proc[s].open < MaxOpen
  /\ Becomes(s, [proc[s] EXCEPT !.open = @ + 1])
  /\ UNCHANGED <<database, lock, starts, mishaps>>
Answer(s) ==
  /\ proc[s].open > 0
  /\ Becomes(s, [proc[s] EXCEPT !.open = @ - 1])
  /\ rows' \in {rows, rows \/ applied = Migrations}
  /\ UNCHANGED <<applied, version, dirty, lock, starts, mishaps>>

\* SIGINT or SIGTERM: NotifyContext cancels ctx, and that is all it does.
Signal(s) ==
  /\ ~Over(s) /\ ~proc[s].signalled
  /\ Becomes(s, [proc[s] EXCEPT !.signalled = TRUE])
  /\ UNCHANGED <<database, lock, starts, mishaps>>

\* Listen notices the signal and stops to accept.
Shutdown(s) ==
  /\ Doing(s, "serving") /\ proc[s].signalled
  /\ GoTo(s, "draining")
  /\ UNCHANGED <<database, lock, starts, mishaps>>

\* Seeded fault: Shutdown is given a context without a deadline.
WhenAnswered(s) == proc[s].open = 0

\* Shutdown returns once all is answered, or after five seconds with an error:
\* sooner or later, and maybe with requests open.
Returns(s) == TRUE

\* The process ends when Shutdown returns.
Exit(s) ==
  /\ Doing(s, "draining") /\ Returns(s)
  /\ Ends(s)
  /\ UNCHANGED <<database, lock, starts, mishaps>>

ServerStep(s) ==
  \/ Connect(s) \/ LoadStates(s) \/ LoadTransitions(s) \/ InitServer(s) \/ Listen(s)
  \/ Shutdown(s) \/ Exit(s)

-----------------------------------------------------------------------------
\* Failures

\* The steps that talk to the database.
Querying == {"connect", "lock", "mark", "run", "load states", "load transitions"}

\* A process ends in the middle: its lock is released, and the file it was
\* running takes effect or does not.
Breaks(p) ==
  /\ Ends(p)
  /\ mishaps' = mishaps \cup {"broken"}
  /\ lock' = IF lock = p THEN Nobody ELSE lock
  /\ \/ UNCHANGED <<applied, rows>>
     \/ Doing(p, "run") /\ TakesEffect(p)
  /\ UNCHANGED <<version, dirty, starts>>

\* A statement fails, before or after its effect.
DbError(p) == MayFail /\ proc[p].pc \in Querying /\ Breaks(p)

\* The process is killed; the migrate command also dies of a SIGINT.
Kill(p) == MayKill /\ ~Over(p) /\ Breaks(p)

Next ==
  \/ \E s \in Servers : Main(s) \/ ServerStep(s) \/ Accept(s) \/ Answer(s) \/ Signal(s)
  \/ \E m \in Commands, dir \in {"up", "down", "force"} : RunCommand(m, dir)
  \/ \E p \in Procs : MigrationStep(p) \/ DbError(p) \/ Kill(p)

\* A process that can go on does, and every statement is answered in the end.
\* Nothing is assumed of requests, of signals or of those who start processes.
Fairness ==
  /\ \A s \in Servers : WF_vars(ServerStep(s))
  /\ \A p \in Procs : WF_vars(MigrationStep(p))

Spec == Init /\ [][Next]_vars /\ Fairness
-----------------------------------------------------------------------------
\* What is kept of a configuration, and the steps of a process.
Configs ==
  {<< >>} \cup {Kept(LoadConfig(f, env)) : f \in Files, env \in Envs}
          \cup {Dsn(env) : env \in Envs}
Steps == Querying \cup {"off", "wire", "listen", "serving", "draining"}

Process ==
  [pc : Steps, dir : {"up", "down", "force"}, file : 0 .. Latest, cfg : Configs,
   signalled : BOOLEAN, machine : SUBSET {"states", "transitions"}, open : 0 .. MaxOpen]

TypeOK ==
  /\ applied \subseteq Migrations
  /\ version \in 0 .. Latest
  /\ {dirty, rows} \subseteq BOOLEAN
  /\ lock \in Procs \cup {Nobody}
  /\ proc \in [Procs -> Process]
  /\ starts \in [Procs -> Nat]
  /\ mishaps \subseteq {"down", "force", "blocked", "broken"}

\* A server that serves has the whole state graph, and one that migrates at its
\* start finds the schema complete as well, however many replicas, commands and
\* crashes came before: only a rollback (between its two queries, or later) and
\* "migrate force" can take that away.
ServesSeededGraph ==
  \A s \in Servers :
    proc[s].pc \in {"serving", "draining"} =>
      /\ "down" \notin mishaps => proc[s].machine = {"states", "transitions"}
      /\ proc[s].cfg.auto /\ mishaps \cap {"down", "force"} = {} => applied = Migrations

\* The books of golang-migrate agree with the tables unless a version was forced,
\* and a version is left dirty by a crash, a failed statement or a rollback that
\* met interviews, never by a signal: RunUp is not given the server's context.
DirtyHasACause ==
  "force" \notin mishaps =>
    /\ ~dirty => applied = 1 .. version
    /\ dirty /\ lock = Nobody =>
         "broken" \in mishaps \/ ("down" \in mishaps /\ rows)

\* Replicas that start together come up together: one whose configuration was
\* accepted serves (if its address can be used and its DSN makes a URL for newMigrate,
\* neither of which Validate looks at), unless it is signalled, or something fails; another one that migrates,
\* or has migrated, does not keep it from doing so.
ReplicasComeUp ==
  \A s \in Servers :
    (Doing(s, "connect") /\ proc[s].cfg.auto /\ proc[s].cfg.listen # "wrong" /\ MakesURL(s))
      ~> (Doing(s, "serving") \/ proc[s].signalled \/ mishaps # {})

\* A server that is signalled ends, whatever it is doing: migrating, waiting for
\* another's migrations, or serving requests that are never answered.
SignalledExits == \A s \in Servers : proc[s].signalled ~> Over(s)
=============================================================================
