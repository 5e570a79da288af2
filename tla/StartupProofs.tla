--------------------------- MODULE StartupProofs ---------------------------
(***************************************************************************)
(* Theorems about Startup, for any replicas, shells, configurations and    *)
(* numbers of starts, and whatever fails or is killed.  The inductive      *)
(* invariant IInv says who holds the migration lock (HoldsLock), what the  *)
(* holder knows of the schema while it runs a file (FileInOrder), that     *)
(* interviews came with a schema that was complete (RowsAreOld), and what  *)
(* a server has seen of the database on its way up (Loaded).               *)
(***************************************************************************)
EXTENDS Startup, TLAPS

\* The lock is held by the process that has files to run.
HoldsLock(p) == lock = p <=> proc[p].pc \in {"mark", "run"}

\* What a migrate command may do is remembered; servers only migrate up.
DirIsRemembered(p) ==
  /\ proc[p].dir # "up" => proc[p].dir \in mishaps
  /\ p \in Servers => proc[p].dir = "up"
  /\ proc[p].dir = "force" => proc[p].pc \in {"off", "lock"}

\* The holder of the lock has a file to run, with the version clean before Mark
\* and that of the file, dirty, behind it.
FileInOrder(p) ==
  /\ proc[p].pc = "mark" => ~dirty /\ Pending(p) # {}
  /\ proc[p].pc = "run" =>
       /\ dirty /\ proc[p].file \in Migrations
       /\ version = IF Up(p) THEN proc[p].file ELSE proc[p].file - 1
       /\ "force" \notin mishaps =>
            applied = IF Up(p) THEN 1 .. proc[p].file - 1 ELSE 1 .. proc[p].file

\* Interviews are stored with the schema complete: where they are and it is not,
\* it was rolled back.
RowsAreOld == rows /\ applied # Migrations => "down" \in mishaps

\* What a server has seen of the database on its way up is there, as long as
\* nobody rolls back.
Loaded(s) ==
  LET t == proc[s] IN
  /\ "states" \in t.machine => "down" \in mishaps \/ 2 \in applied
  /\ t.pc \in {"wire", "listen", "serving", "draining"} /\ "states" \in t.machine =>
       "down" \in mishaps \/ "transitions" \in t.machine
  /\ t.pc \in {"listen", "serving", "draining"} => "states" \in t.machine
  /\ t.pc \in {"load states", "load transitions", "wire", "listen", "serving", "draining"}
       /\ t.cfg.auto /\ mishaps \cap {"down", "force"} = {} => applied = Migrations

\* The invariant of the migrations.
MInv ==
  /\ \A p \in Procs : HoldsLock(p) /\ DirIsRemembered(p) /\ FileInOrder(p)
  /\ RowsAreOld /\ DirtyHasACause

\* The inductive invariant.
IInv == TypeOK /\ MInv /\ \A s \in Servers : Loaded(s)
-----------------------------------------------------------------------------
(* Processes *)

LEMMA NotRunningTyped == NotRunning \in Process
<1>1. << >> \in Configs
  BY DEF Configs
<1> QED
  BY <1>1, BoundsAssumption DEF NotRunning, Process, Latest, Steps

\* What Becomes does, to the process and to the others.
LEMMA BecomesTyped ==
  ASSUME TypeOK, NEW p \in Procs, NEW r \in Process, Becomes(p, r)
  PROVE  /\ proc' \in [Procs -> Process] /\ proc'[p] = r
         /\ \A q \in Procs \ {p} : proc'[q] = proc[q]
BY DEF TypeOK, Becomes

LEMMA EndsTyped ==
  ASSUME TypeOK, NEW p \in Procs, Ends(p)
  PROVE  /\ proc' \in [Procs -> Process] /\ proc'[p] = NotRunning
         /\ \A q \in Procs \ {p} : proc'[q] = proc[q]
BY NotRunningTyped, BecomesTyped DEF Ends

\* What GoTo leaves of a process.
LEMMA GoToTyped ==
  ASSUME TypeOK, NEW p \in Procs, NEW step \in Steps, GoTo(p, step)
  PROVE  /\ proc' \in [Procs -> Process]
         /\ proc'[p] = [proc[p] EXCEPT !.pc = step]
         /\ \A q \in Procs \ {p} : proc'[q] = proc[q]
<1>1. proc[p] \in Process
  BY DEF TypeOK
<1>2. [proc[p] EXCEPT !.pc = step] \in Process
  BY <1>1 DEF Process
<1> QED
  BY <1>2, BecomesTyped DEF GoTo

LEMMA MigratedTyped ==
  ASSUME TypeOK, NEW p \in Procs, Migrated(p)
  PROVE  /\ proc' \in [Procs -> Process]
         /\ p \in Servers => proc'[p] = [proc[p] EXCEPT !.pc = "load states"]
         /\ p \notin Servers => proc'[p] = NotRunning
         /\ \A q \in Procs \ {p} : proc'[q] = proc[q]
<1>1. "load states" \in Steps
  BY DEF Steps, Querying
<1> QED
  BY <1>1, GoToTyped, EndsTyped DEF Migrated

\* The parts of a process.
LEMMA Parts ==
  ASSUME TypeOK, NEW p \in Procs
  PROVE  /\ proc[p].pc \in Steps /\ proc[p].dir \in {"up", "down", "force"}
         /\ proc[p].file \in 0 .. Latest /\ proc[p].machine \subseteq {"states", "transitions"}
         /\ proc[p].signalled \in BOOLEAN /\ proc[p].open \in 0 .. MaxOpen
BY DEF TypeOK, Process
-----------------------------------------------------------------------------
(* Types *)

LEMMA InitTyped == Init => TypeOK
<1> SUFFICES ASSUME Init PROVE TypeOK
  OBVIOUS
<1>1. proc \in [Procs -> Process]
  BY NotRunningTyped DEF Init
<1>2. starts \in [Procs -> Nat]
  BY DEF Init
<1>3. version \in 0 .. Latest /\ applied \subseteq Migrations
  BY DEF Init, Latest, Migrations
<1> QED
  BY <1>1, <1>2, <1>3 DEF Init, TypeOK

\* A step of one process, which leaves the others, and the variables of the
\* database, as they are or within their types.
LEMMA Typed ==
  ASSUME TypeOK, proc' \in [Procs -> Process], applied' \subseteq Migrations,
         version' \in 0 .. Latest, dirty' \in BOOLEAN, rows' \in BOOLEAN,
         lock' \in Procs \cup {Nobody}, starts' \in [Procs -> Nat],
         mishaps' \subseteq {"down", "force", "blocked", "broken"}
  PROVE  TypeOK'
BY DEF TypeOK

LEMMA MainTyped ==
  ASSUME TypeOK, NEW s \in Servers, Main(s)
  PROVE  /\ TypeOK' /\ \A q \in Procs \ {s} : proc'[q] = proc[q]
         /\ proc'[s].pc \in {"off", "connect"} /\ proc'[s].dir = "up"
         /\ proc'[s].machine = {}
<1>1. starts' \in [Procs -> Nat]
  BY DEF Main, TypeOK, Procs
<1>2. /\ proc' \in [Procs -> Process] /\ \A q \in Procs \ {s} : proc'[q] = proc[q]
      /\ proc'[s].pc \in {"off", "connect"} /\ proc'[s].dir = "up"
      /\ proc'[s].machine = {}
  <2>1. ASSUME NEW f \in Files, NEW env \in Envs,
               Becomes(s, [NotRunning EXCEPT !.pc = "connect",
                             !.cfg = Kept(LoadConfig(f, env))])
        PROVE  /\ proc' \in [Procs -> Process] /\ \A q \in Procs \ {s} : proc'[q] = proc[q]
               /\ proc'[s].pc = "connect" /\ proc'[s].dir = "up"
               /\ proc'[s].machine = {}
    <3> DEFINE r == [NotRunning EXCEPT !.pc = "connect", !.cfg = Kept(LoadConfig(f, env))]
    <3>1. /\ r \in Process
          /\ r.pc = "connect" /\ r.dir = "up" /\ r.machine = {}
      <4>1. Kept(LoadConfig(f, env)) \in Configs
        BY DEF Configs
      <4>2. r \in Process
        BY <4>1, NotRunningTyped DEF Process, Steps, Querying
      <4> QED
        BY <4>2 DEF NotRunning
    <3> QED
      BY <2>1, <3>1, BecomesTyped DEF Procs
  <2>2. CASE Ends(s)
    <3>1. NotRunning.pc = "off" /\ NotRunning.dir = "up" /\ NotRunning.machine = {}
      BY DEF NotRunning
    <3> QED
      BY <2>2, <3>1, EndsTyped DEF Procs
  <2> QED
    BY <2>1, <2>2 DEF Main
<1> QED
  BY <1>1, <1>2 DEF Main, TypeOK, database

LEMMA RunCommandTyped ==
  ASSUME TypeOK, NEW m \in Commands, NEW dir \in {"up", "down", "force"}, RunCommand(m, dir)
  PROVE  /\ TypeOK'
         /\ proc'[m].pc = "lock" /\ proc'[m].dir = dir
         /\ \A q \in Procs \ {m} : proc'[q] = proc[q]
<1>1. PICK env \in Envs :
        Becomes(m, [NotRunning EXCEPT !.pc = "lock", !.dir = dir, !.cfg = Dsn(env)])
  BY DEF RunCommand
<1> DEFINE r == [NotRunning EXCEPT !.pc = "lock", !.dir = dir, !.cfg = Dsn(env)]
<1>2. Dsn(env) \in Configs
  BY DEF Configs
<1>3. r \in Process /\ r.pc = "lock" /\ r.dir = dir
  BY <1>2, NotRunningTyped DEF Process, Steps, Querying
<1> HIDE DEF r
<1>4. /\ proc' \in [Procs -> Process]
      /\ proc'[m].pc = "lock" /\ proc'[m].dir = dir
      /\ \A q \in Procs \ {m} : proc'[q] = proc[q]
  BY <1>1, <1>3, BecomesTyped DEF Procs, r
<1>5. starts' \in [Procs -> Nat]
  BY DEF RunCommand, TypeOK, Procs
<1> QED
  BY <1>4, <1>5 DEF RunCommand, TypeOK, database

\* What a step of initServer or Listen does to a server: it ends, or goes on,
\* having loaded some more.
LEMMA ServerMoves ==
  ASSUME TypeOK, NEW s \in Servers, ServerStep(s)
  PROVE  /\ UNCHANGED <<database, lock, starts, mishaps>>
         /\ proc' \in [Procs -> Process]
         /\ \A q \in Procs \ {s} : proc'[q] = proc[q]
         /\ proc[s].pc \notin {"mark", "run"} /\ proc'[s].pc \notin {"mark", "run"}
         /\ proc'[s].dir \in {"up", proc[s].dir}
<1>0. s \in Procs /\ proc[s] \in Process
  BY DEF Procs, TypeOK
<1>1. NotRunning.dir = "up" /\ NotRunning.pc = "off"
  BY DEF NotRunning
<1>2. ASSUME NEW step \in Steps \ {"mark", "run"}, GoTo(s, step)
      PROVE  /\ proc' \in [Procs -> Process]
             /\ \A q \in Procs \ {s} : proc'[q] = proc[q]
             /\ proc'[s].pc \notin {"mark", "run"} /\ proc'[s].dir = proc[s].dir
  <2>1. /\ proc' \in [Procs -> Process] /\ \A q \in Procs \ {s} : proc'[q] = proc[q]
        /\ proc'[s] = [proc[s] EXCEPT !.pc = step]
    BY <1>0, <1>2, GoToTyped
  <2>2. /\ [proc[s] EXCEPT !.pc = step].pc = step
        /\ [proc[s] EXCEPT !.pc = step].dir = proc[s].dir
    BY <1>0 DEF Process
  <2> QED
    BY <2>1, <2>2
<1>3. ASSUME Ends(s)
      PROVE  /\ proc' \in [Procs -> Process]
             /\ \A q \in Procs \ {s} : proc'[q] = proc[q]
             /\ proc'[s].pc \notin {"mark", "run"} /\ proc'[s].dir = "up"
  BY <1>0, <1>1, <1>3, EndsTyped
<1>4. ASSUME NEW part \in {"states", "transitions"}, NEW next \in Steps \ {"mark", "run"},
             Becomes(s, [proc[s] EXCEPT !.pc = next,
                           !.machine = @ \cup (IF 2 \in applied THEN {part} ELSE {})])
      PROVE  /\ proc' \in [Procs -> Process]
             /\ \A q \in Procs \ {s} : proc'[q] = proc[q]
             /\ proc'[s].pc \notin {"mark", "run"} /\ proc'[s].dir = proc[s].dir
  <2> DEFINE r == [proc[s] EXCEPT !.pc = next,
                     !.machine = @ \cup (IF 2 \in applied THEN {part} ELSE {})]
  <2>1. r \in Process /\ r.pc = next /\ r.dir = proc[s].dir
    BY <1>0 DEF Process
  <2> QED
    BY <1>0, <1>4, <2>1, BecomesTyped
<1>5. /\ {"lock", "load states", "load transitions", "wire", "listen", "serving", "draining"}
           \subseteq Steps \ {"mark", "run"}
  BY DEF Steps, Querying
<1>6. CASE Connect(s)
  BY <1>2, <1>3, <1>5, <1>6 DEF Connect, Doing
<1>7. CASE LoadStates(s)
  BY <1>3, <1>4, <1>5, <1>7 DEF LoadStates, LoadPart, Doing
<1>8. CASE LoadTransitions(s)
  BY <1>3, <1>4, <1>5, <1>8 DEF LoadTransitions, LoadPart, Doing
<1>9. CASE InitServer(s)
  BY <1>2, <1>3, <1>5, <1>9 DEF InitServer, Doing
<1>10. CASE Listen(s)
  BY <1>2, <1>3, <1>5, <1>10 DEF Listen, Doing
<1>11. CASE Shutdown(s)
  BY <1>2, <1>5, <1>11 DEF Shutdown, Doing
<1>12. CASE Exit(s)
  BY <1>3, <1>12 DEF Exit, Doing
<1> QED
  BY <1>6, <1>7, <1>8, <1>9, <1>10, <1>11, <1>12 DEF ServerStep
-----------------------------------------------------------------------------
(* What a step leaves of the invariant of the migrations *)

\* Only the holder of the lock, or one that finds it free, touches the schema;
\* the other processes know what they knew.
LEMMA OthersKeep ==
  ASSUME TypeOK, MInv, NEW p \in Procs,
         \A q \in Procs \ {p} : proc'[q] = proc[q],
         mishaps \subseteq mishaps',
         \/ UNCHANGED <<applied, version, dirty, lock>>
         \/ lock \in {Nobody, p} /\ lock' \in {Nobody, p}
  PROVE  \A q \in Procs \ {p} :
           HoldsLock(q)' /\ DirIsRemembered(q)' /\ FileInOrder(q)'
<1> SUFFICES ASSUME NEW q \in Procs \ {p}
             PROVE  HoldsLock(q)' /\ DirIsRemembered(q)' /\ FileInOrder(q)'
  OBVIOUS
<1>1. q # Nobody /\ q # p /\ proc'[q] = proc[q]
  BY ProcessesAssumption
<1>2. HoldsLock(q) /\ DirIsRemembered(q) /\ FileInOrder(q)
  BY DEF MInv
<1>3. HoldsLock(q)' /\ DirIsRemembered(q)'
  BY <1>1, <1>2 DEF HoldsLock, DirIsRemembered
<1>4. CASE UNCHANGED <<applied, version, dirty, lock>>
  <2>1. Pending(q)' = Pending(q) /\ Up(q)' = Up(q)
    BY <1>1, <1>4 DEF Pending, Up
  <2> QED
    BY <1>1, <1>2, <1>3, <1>4, <2>1 DEF FileInOrder
<1>5. CASE lock \in {Nobody, p} /\ lock' \in {Nobody, p}
  BY <1>1, <1>2, <1>3, <1>5 DEF HoldsLock, FileInOrder
<1> QED
  BY <1>4, <1>5

\* A step of a process that has no file to run and gets none.
LEMMA QuietStep ==
  ASSUME TypeOK, MInv, NEW p \in Procs,
         \A q \in Procs \ {p} : proc'[q] = proc[q],
         UNCHANGED <<applied, version, dirty, lock>>, mishaps \subseteq mishaps',
         rows' = rows \/ (rows' = TRUE /\ applied = Migrations),
         proc[p].pc \notin {"mark", "run"}, proc'[p].pc \notin {"mark", "run"},
         DirIsRemembered(p)'
  PROVE  MInv'
<1>1. \A q \in Procs \ {p} : HoldsLock(q)' /\ DirIsRemembered(q)' /\ FileInOrder(q)'
  BY OthersKeep
<1>2. HoldsLock(p)' /\ FileInOrder(p)'
  BY DEF MInv, HoldsLock, FileInOrder
<1>3. RowsAreOld'
  BY DEF MInv, RowsAreOld
<1>4. DirtyHasACause'
  BY DEF MInv, DirtyHasACause, TypeOK
<1> QED
  BY <1>1, <1>2, <1>3, <1>4 DEF MInv

\* A process that is not running has nothing to do.
LEMMA EndedKeeps ==
  ASSUME TypeOK, NEW p \in Procs, proc'[p] = NotRunning
  PROVE  DirIsRemembered(p)' /\ proc'[p].pc \notin {"mark", "run"}
BY DEF NotRunning, DirIsRemembered
-----------------------------------------------------------------------------
(* The steps of a migration *)

\* The next file is one of the migrations, and there is one unless the schema
\* is at an end.
LEMMA NextPending ==
  ASSUME TypeOK, NEW p \in Procs
  PROVE  /\ \A n \in Pending(p) : /\ n \in Migrations
                                  /\ version = IF Up(p) THEN n - 1 ELSE n
         /\ Pending(p) = {} /\ Up(p) => version = Latest
<1>1. version \in 0 .. Latest
  BY DEF TypeOK
<1>2. \A n \in Pending(p) : n \in Migrations /\ version = IF Up(p) THEN n - 1 ELSE n
  BY <1>1 DEF Pending, Migrations, Latest
<1>3. ASSUME Pending(p) = {}, Up(p) PROVE version = Latest
  <2>1. version + 1 \notin Migrations
    BY <1>3 DEF Pending
  <2> QED
    BY <1>1, <2>1 DEF Migrations, Latest
<1> QED
  BY <1>2, <1>3

\* A server that has gone through its migrations finds the schema complete.
LEMMA NothingPending ==
  ASSUME TypeOK, MInv, NEW p \in Servers, ~dirty, Pending(p) = {}, "force" \notin mishaps
  PROVE  applied = Migrations
<1>1. Up(p)
  BY DEF MInv, DirIsRemembered, Up, Procs
<1>2. version = Latest
  BY <1>1, NextPending DEF Procs
<1> QED
  BY <1>2 DEF MInv, DirtyHasACause, Migrations

LEMMA LockStep ==
  ASSUME TypeOK, MInv, NEW p \in Procs, Lock(p)
  PROVE  /\ TypeOK' /\ MInv'
         /\ UNCHANGED <<applied, mishaps>> /\ \A q \in Procs \ {p} : proc'[q] = proc[q]
         /\ \/ proc'[p] = NotRunning
            \/ proc'[p] = [proc[p] EXCEPT !.pc = "mark"]
            \/ /\ proc'[p] = [proc[p] EXCEPT !.pc = "load states"]
               /\ p \in Servers /\ ("force" \notin mishaps => applied = Migrations)
<1>1. /\ UNCHANGED <<database, starts, mishaps>> /\ lock = Nobody
      /\ proc[p].pc = "lock" /\ proc[p].dir # "force" /\ proc[p] \in Process
  BY DEF Lock, Doing, TypeOK
<1>2. DirIsRemembered(p)
  BY DEF MInv
<1>3. CASE UNCHANGED lock /\ Ends(p)
  <2>1. /\ proc' \in [Procs -> Process] /\ proc'[p] = NotRunning
        /\ \A q \in Procs \ {p} : proc'[q] = proc[q]
    BY <1>3, EndsTyped
  <2>2. MInv'
    BY <1>1, <1>3, <2>1, EndedKeeps, QuietStep DEF database
  <2> QED
    BY <1>1, <1>3, <2>1, <2>2 DEF TypeOK, database
<1>4. CASE ~dirty /\ Pending(p) = {} /\ Migrated(p) /\ UNCHANGED lock /\ p \in Servers
  <2>1. /\ proc' \in [Procs -> Process]
        /\ proc'[p] = [proc[p] EXCEPT !.pc = "load states"]
        /\ \A q \in Procs \ {p} : proc'[q] = proc[q]
    BY <1>4, MigratedTyped
  <2>2. proc'[p].pc = "load states" /\ proc'[p].dir = proc[p].dir
    BY <1>1, <2>1 DEF Process
  <2>3. DirIsRemembered(p)'
    BY <1>1, <1>2, <2>2 DEF DirIsRemembered
  <2>4. MInv'
    BY <1>1, <1>4, <2>1, <2>2, <2>3, QuietStep DEF database
  <2>5. "force" \notin mishaps => applied = Migrations
    BY <1>4, NothingPending
  <2> QED
    BY <1>1, <1>4, <2>1, <2>4, <2>5 DEF TypeOK, database
<1>5. CASE ~dirty /\ Pending(p) # {} /\ GoTo(p, "mark") /\ lock' = p
  <2>1. "mark" \in Steps
    BY DEF Steps, Querying
  <2>2. /\ proc' \in [Procs -> Process]
        /\ proc'[p] = [proc[p] EXCEPT !.pc = "mark"]
        /\ \A q \in Procs \ {p} : proc'[q] = proc[q]
    BY <1>5, <2>1, GoToTyped
  <2>3. proc'[p].pc = "mark" /\ proc'[p].dir = proc[p].dir
    BY <1>1, <2>2 DEF Process
  <2>4. Pending(p)' = Pending(p)
    BY <1>1, <2>3 DEF Pending, Up, database
  <2>5. HoldsLock(p)' /\ DirIsRemembered(p)' /\ FileInOrder(p)'
    BY <1>1, <1>2, <1>5, <2>3, <2>4 DEF HoldsLock, DirIsRemembered, FileInOrder, database
  <2>6. \A q \in Procs \ {p} : HoldsLock(q)' /\ DirIsRemembered(q)' /\ FileInOrder(q)'
    BY <1>1, <1>5, <2>2, OthersKeep
  <2>7. RowsAreOld' /\ DirtyHasACause'
    BY <1>1, <1>5 DEF MInv, RowsAreOld, DirtyHasACause, database
  <2> QED
    BY <1>1, <1>5, <2>2, <2>5, <2>6, <2>7 DEF MInv, TypeOK, database
<1> QED
  BY <1>1, <1>3, <1>4, <1>5 DEF Lock, ErrDirty, NoChange, Migrated, database

LEMMA NewMigrateStep ==
  ASSUME TypeOK, MInv, NEW p \in Procs, NewMigrateFails(p)
  PROVE  /\ TypeOK' /\ MInv'
         /\ UNCHANGED <<applied, mishaps>> /\ \A q \in Procs \ {p} : proc'[q] = proc[q]
         /\ proc'[p] = NotRunning
<1>1. /\ proc' \in [Procs -> Process] /\ proc'[p] = NotRunning
      /\ \A q \in Procs \ {p} : proc'[q] = proc[q]
  BY EndsTyped DEF NewMigrateFails
<1>2. UNCHANGED <<database, lock, starts, mishaps>> /\ proc[p].pc = "lock"
  BY DEF NewMigrateFails, Doing
<1>3. MInv'
  BY <1>1, <1>2, EndedKeeps, QuietStep DEF database
<1> QED
  BY <1>1, <1>2, <1>3 DEF TypeOK, database

LEMMA ForceStep ==
  ASSUME TypeOK, MInv, NEW p \in Procs, ForceVersion(p)
  PROVE  /\ TypeOK' /\ MInv'
         /\ UNCHANGED <<applied, mishaps>> /\ \A q \in Procs \ {p} : proc'[q] = proc[q]
         /\ proc'[p] = NotRunning
<1>1. /\ proc' \in [Procs -> Process] /\ proc'[p] = NotRunning
      /\ \A q \in Procs \ {p} : proc'[q] = proc[q]
  BY EndsTyped DEF ForceVersion
<1>2. /\ UNCHANGED <<applied, rows, lock, starts, mishaps>>
      /\ lock = Nobody /\ dirty' = FALSE /\ version' \in Forced
  BY DEF ForceVersion
<1>3. version' \in 0 .. Latest
  BY <1>2, ForcedAssumption DEF Migrations, Latest
<1>4. "force" \in mishaps
  BY DEF ForceVersion, Doing, MInv, DirIsRemembered
<1>5. \A q \in Procs \ {p} : HoldsLock(q)' /\ DirIsRemembered(q)' /\ FileInOrder(q)'
  BY <1>1, <1>2, OthersKeep
<1>6. HoldsLock(p)' /\ DirIsRemembered(p)' /\ FileInOrder(p)'
  BY <1>1, <1>2, EndedKeeps, ProcessesAssumption DEF HoldsLock, FileInOrder
<1>7. RowsAreOld' /\ DirtyHasACause'
  BY <1>2, <1>4 DEF MInv, RowsAreOld, DirtyHasACause
<1> QED
  BY <1>1, <1>2, <1>3, <1>5, <1>6, <1>7 DEF MInv, TypeOK

LEMMA LockTimeoutStep ==
  ASSUME TypeOK, MInv, NEW p \in Procs, LockTimeout(p)
  PROVE  /\ TypeOK' /\ MInv'
         /\ UNCHANGED applied /\ mishaps \subseteq mishaps'
         /\ \A q \in Procs \ {p} : proc'[q] = proc[q]
         /\ proc'[p] = NotRunning
<1>1. /\ proc' \in [Procs -> Process] /\ proc'[p] = NotRunning
      /\ \A q \in Procs \ {p} : proc'[q] = proc[q]
  BY EndsTyped DEF LockTimeout
<1>2. /\ UNCHANGED <<database, lock, starts>> /\ mishaps' = mishaps \cup {"blocked"}
      /\ proc[p].pc = "lock"
  BY DEF LockTimeout, Doing
<1>3. MInv'
  BY <1>1, <1>2, EndedKeeps, QuietStep DEF database
<1> QED
  BY <1>1, <1>2, <1>3 DEF TypeOK, database

LEMMA MarkStep ==
  ASSUME TypeOK, MInv, NEW p \in Procs, Mark(p)
  PROVE  /\ TypeOK' /\ MInv'
         /\ UNCHANGED <<applied, mishaps>> /\ \A q \in Procs \ {p} : proc'[q] = proc[q]
         /\ \E n \in Migrations : proc'[p] = [proc[p] EXCEPT !.pc = "run", !.file = n]
<1>1. /\ UNCHANGED <<applied, rows, lock, starts, mishaps>> /\ dirty' = TRUE
      /\ proc[p].pc = "mark" /\ proc[p] \in Process
  BY DEF Mark, Doing, TypeOK
<1>2. PICK n \in Pending(p) :
        /\ version' = IF Up(p) THEN n ELSE n - 1
        /\ Becomes(p, [proc[p] EXCEPT !.pc = "run", !.file = n])
  BY DEF Mark
<1>3. n \in Migrations /\ version = IF Up(p) THEN n - 1 ELSE n
  BY NextPending
<1>4. [proc[p] EXCEPT !.pc = "run", !.file = n] \in Process
  <2>1. n \in 0 .. Latest /\ "run" \in Steps
    BY <1>3 DEF Migrations, Latest, Steps, Querying
  <2> QED
    BY <1>1, <2>1 DEF Process
<1>5. /\ proc' \in [Procs -> Process]
      /\ proc'[p] = [proc[p] EXCEPT !.pc = "run", !.file = n]
      /\ \A q \in Procs \ {p} : proc'[q] = proc[q]
  BY <1>2, <1>4, BecomesTyped
<1>6. proc'[p].pc = "run" /\ proc'[p].file = n /\ proc'[p].dir = proc[p].dir
  BY <1>1, <1>5 DEF Process
<1>7. lock = p /\ p # Nobody /\ ~dirty
  BY <1>1, ProcessesAssumption DEF MInv, HoldsLock, FileInOrder
<1>8. \A q \in Procs \ {p} : HoldsLock(q)' /\ DirIsRemembered(q)' /\ FileInOrder(q)'
  BY <1>1, <1>5, <1>7, OthersKeep
<1>9. HoldsLock(p)' /\ DirIsRemembered(p)'
  BY <1>1, <1>6, <1>7 DEF MInv, HoldsLock, DirIsRemembered
<1>10. FileInOrder(p)'
  <2>1. Up(p)' = Up(p)
    BY <1>6 DEF Up
  <2>2. "force" \notin mishaps => applied = 1 .. version
    BY <1>7 DEF MInv, DirtyHasACause
  <2> QED
    BY <1>1, <1>2, <1>3, <1>6, <2>1, <2>2 DEF FileInOrder, Migrations, Latest
<1>11. RowsAreOld' /\ DirtyHasACause'
  BY <1>1, <1>7 DEF MInv, RowsAreOld, DirtyHasACause
<1>12. version' \in 0 .. Latest
  BY <1>2, <1>3 DEF Migrations, Latest
<1> QED
  BY <1>1, <1>3, <1>5, <1>8, <1>9, <1>10, <1>11, <1>12 DEF MInv, TypeOK

\* What a file that takes effect makes of the schema.
LEMMA Effect ==
  ASSUME TypeOK, MInv, NEW p \in Procs, proc[p].pc = "run", TakesEffect(p)
  PROVE  /\ applied' \subseteq Migrations /\ rows' \in BOOLEAN
         /\ "down" \in mishaps \/ applied \subseteq applied'
         /\ "force" \notin mishaps => applied' = 1 .. version
         /\ rows' /\ applied' # Migrations => "down" \in mishaps
<1> DEFINE n == proc[p].file
<1>1. /\ n \in Migrations /\ version = IF Up(p) THEN n ELSE n - 1
      /\ "force" \notin mishaps => applied = IF Up(p) THEN 1 .. n - 1 ELSE 1 .. n
  BY DEF MInv, FileInOrder
<1>2. applied \subseteq Migrations /\ rows \in BOOLEAN
  BY DEF TypeOK
<1>3. CASE Up(p)
  <2>1. applied' = applied \cup {n} /\ rows' = rows
    BY <1>3 DEF TakesEffect
  <2>2. "force" \notin mishaps => applied' = 1 .. version
    BY <1>1, <1>3, <2>1 DEF Migrations, Latest
  <2>3. rows' /\ applied' # Migrations => "down" \in mishaps
    BY <1>1, <1>2, <2>1 DEF MInv, RowsAreOld
  <2> QED
    BY <1>1, <1>2, <2>1, <2>2, <2>3
<1>4. CASE ~Up(p)
  <2>1. /\ applied' = IF n = 1 THEN {} ELSE applied \ {n}
        /\ rows' = (rows /\ n # 1)
    BY <1>4 DEF TakesEffect
  <2>2. "down" \in mishaps
    BY <1>4, Parts DEF MInv, DirIsRemembered, Up
  <2>3. ASSUME "force" \notin mishaps PROVE applied' = 1 .. version
    <3>1. n \in 1 .. 7 /\ version = n - 1 /\ applied = 1 .. n
      BY <1>1, <1>4, <2>3 DEF Migrations, Latest
    <3>2. CASE n = 1
      BY <2>1, <3>1, <3>2
    <3>3. CASE n # 1
      <4>1. applied' = (1 .. n) \ {n}
        BY <2>1, <3>1, <3>3
      <4> QED
        BY <3>1, <4>1
    <3> QED
      BY <3>2, <3>3
  <2> QED
    BY <1>2, <2>1, <2>2, <2>3
<1> QED
  BY <1>3, <1>4

\* A file that cannot succeed is one that interviews keep from being taken back.
LEMMA RefusedHasACause ==
  ASSUME TypeOK, MInv, NEW p \in Procs, proc[p].pc = "run", Refused(p),
         "force" \notin mishaps
  PROVE  "down" \in mishaps /\ rows
<1> DEFINE n == proc[p].file
<1>1. n \in Migrations /\ applied = IF Up(p) THEN 1 .. n - 1 ELSE 1 .. n
  BY DEF MInv, FileInOrder
<1>2. CASE Up(p)
  <2>1. ~UpWorks(n)
    BY <1>2 DEF Refused
  <2>2. n \notin applied /\ (n = 1 \/ 1 \in applied)
    BY <1>1, <1>2 DEF Migrations, Latest
  <2>3. n = 3 /\ rows
    BY <2>1, <2>2 DEF UpWorks
  <2>4. applied # Migrations
    BY <1>1, <2>2
  <2> QED
    BY <2>3, <2>4 DEF MInv, RowsAreOld
<1>3. CASE ~Up(p)
  <2>1. ~DownWorks(n)
    BY <1>3 DEF Refused
  <2>2. 1 \in applied /\ n \in applied /\ (n = 1 => 4 \notin applied)
    BY <1>1, <1>3 DEF Migrations, Latest
  <2>3. n = 2 /\ rows
    BY <2>1, <2>2 DEF DownWorks
  <2>4. "down" \in mishaps
    BY <1>3, Parts DEF MInv, DirIsRemembered, Up
  <2> QED
    BY <2>3, <2>4
<1> QED
  BY <1>2, <1>3

LEMMA RunFileStep ==
  ASSUME TypeOK, MInv, NEW p \in Procs, RunFile(p)
  PROVE  /\ TypeOK' /\ MInv'
         /\ UNCHANGED mishaps /\ ("down" \in mishaps \/ applied \subseteq applied')
         /\ \A q \in Procs \ {p} : proc'[q] = proc[q]
         /\ \/ proc'[p] = NotRunning
            \/ proc'[p] = [proc[p] EXCEPT !.pc = "mark"]
            \/ /\ proc'[p] = [proc[p] EXCEPT !.pc = "load states"]
               /\ p \in Servers /\ ("force" \notin mishaps => applied' = Migrations)
<1>1. /\ UNCHANGED <<version, starts, mishaps>>
      /\ proc[p].pc = "run" /\ proc[p] \in Process
  BY DEF RunFile, Doing, TypeOK
<1>2. lock = p /\ dirty /\ p # Nobody /\ DirIsRemembered(p)
  BY <1>1, ProcessesAssumption DEF MInv, HoldsLock, FileInOrder
<1>3. CASE TakesEffect(p) /\ dirty' = FALSE
  <2>1. /\ applied' \subseteq Migrations /\ rows' \in BOOLEAN
        /\ "down" \in mishaps \/ applied \subseteq applied'
        /\ "force" \notin mishaps => applied' = 1 .. version
        /\ rows' /\ applied' # Migrations => "down" \in mishaps
    BY <1>1, <1>3, Effect
  <2>2. RowsAreOld' /\ DirtyHasACause'
    BY <1>1, <1>3, <2>1 DEF RowsAreOld, DirtyHasACause
  <2>3. CASE Pending(p) = {} /\ Migrated(p) /\ lock' = Nobody
    <3>1. \A q \in Procs \ {p} : proc'[q] = proc[q]
      BY <2>3, MigratedTyped
    <3>2. \A q \in Procs \ {p} : HoldsLock(q)' /\ DirIsRemembered(q)' /\ FileInOrder(q)'
      BY <1>1, <1>2, <2>3, <3>1, OthersKeep
    <3>3. CASE p \in Servers
      <4>1. /\ proc' \in [Procs -> Process]
            /\ proc'[p] = [proc[p] EXCEPT !.pc = "load states"]
        BY <2>3, <3>3, MigratedTyped
      <4>2. proc'[p].pc = "load states" /\ proc'[p].dir = proc[p].dir
        BY <1>1, <4>1 DEF Process
      <4>3. HoldsLock(p)' /\ DirIsRemembered(p)' /\ FileInOrder(p)'
        BY <1>1, <1>2, <2>3, <4>2 DEF HoldsLock, DirIsRemembered, FileInOrder
      <4>4. "force" \notin mishaps => applied' = Migrations
        <5>1. Up(p)
          BY <1>2, <3>3 DEF DirIsRemembered, Up
        <5>2. version = Latest
          BY <2>3, <5>1, NextPending
        <5> QED
          BY <2>1, <5>2 DEF Migrations
      <4> QED
        BY <1>1, <1>3, <2>1, <2>2, <2>3, <3>1, <3>2, <3>3, <4>1, <4>3, <4>4
        DEF MInv, TypeOK
    <3>4. CASE p \notin Servers
      <4>1. proc' \in [Procs -> Process] /\ proc'[p] = NotRunning
        BY <2>3, <3>4, MigratedTyped
      <4>2. HoldsLock(p)' /\ DirIsRemembered(p)' /\ FileInOrder(p)'
        BY <1>2, <2>3, <4>1, EndedKeeps DEF HoldsLock, FileInOrder
      <4> QED
        BY <1>1, <1>3, <2>1, <2>2, <2>3, <3>1, <3>2, <4>1, <4>2 DEF MInv, TypeOK
    <3> QED
      BY <3>3, <3>4
  <2>4. CASE Pending(p) # {} /\ GoTo(p, "mark") /\ UNCHANGED lock
    <3>1. "mark" \in Steps
      BY DEF Steps, Querying
    <3>2. /\ proc' \in [Procs -> Process]
          /\ proc'[p] = [proc[p] EXCEPT !.pc = "mark"]
          /\ \A q \in Procs \ {p} : proc'[q] = proc[q]
      BY <2>4, <3>1, GoToTyped
    <3>3. proc'[p].pc = "mark" /\ proc'[p].dir = proc[p].dir
      BY <1>1, <3>2 DEF Process
    <3>4. Pending(p)' = Pending(p)
      BY <1>1, <3>3 DEF Pending, Up
    <3>5. \A q \in Procs \ {p} : HoldsLock(q)' /\ DirIsRemembered(q)' /\ FileInOrder(q)'
      BY <1>1, <1>2, <2>4, <3>2, OthersKeep
    <3>6. HoldsLock(p)' /\ DirIsRemembered(p)' /\ FileInOrder(p)'
      BY <1>1, <1>2, <1>3, <2>4, <3>3, <3>4
      DEF HoldsLock, DirIsRemembered, FileInOrder
    <3> QED
      BY <1>1, <1>3, <2>1, <2>2, <2>4, <3>2, <3>5, <3>6 DEF MInv, TypeOK
  <2> QED
    BY <1>1, <1>3, <2>3, <2>4 DEF RunFile, Unmark, NextFile, Refused, TakesEffect
<1>4. CASE Refused(p) /\ Ends(p) /\ lock' = Nobody /\ UNCHANGED <<applied, rows, dirty>>
  <2>1. /\ proc' \in [Procs -> Process] /\ proc'[p] = NotRunning
        /\ \A q \in Procs \ {p} : proc'[q] = proc[q]
    BY <1>4, EndsTyped
  <2>2. \A q \in Procs \ {p} : HoldsLock(q)' /\ DirIsRemembered(q)' /\ FileInOrder(q)'
    BY <1>1, <1>2, <1>4, <2>1, OthersKeep
  <2>3. HoldsLock(p)' /\ DirIsRemembered(p)' /\ FileInOrder(p)'
    BY <1>2, <1>4, <2>1, EndedKeeps DEF HoldsLock, FileInOrder
  <2>4. RowsAreOld' /\ DirtyHasACause'
    BY <1>1, <1>2, <1>4, RefusedHasACause DEF MInv, RowsAreOld, DirtyHasACause
  <2> QED
    BY <1>1, <1>4, <2>1, <2>2, <2>3, <2>4 DEF MInv, TypeOK
<1> QED
  BY <1>3, <1>4 DEF RunFile, Unmark

\* A process that ends in the middle leaves the lock free, and the mark of the
\* file it was running.
LEMMA BreaksStep ==
  ASSUME TypeOK, MInv, NEW p \in Procs, Breaks(p)
  PROVE  /\ TypeOK' /\ MInv'
         /\ mishaps \subseteq mishaps' /\ ("down" \in mishaps \/ applied \subseteq applied')
         /\ \A q \in Procs \ {p} : proc'[q] = proc[q]
         /\ proc'[p] = NotRunning
<1>1. /\ proc' \in [Procs -> Process] /\ proc'[p] = NotRunning
      /\ \A q \in Procs \ {p} : proc'[q] = proc[q]
  BY EndsTyped DEF Breaks
<1>2. /\ UNCHANGED <<version, dirty, starts>> /\ mishaps' = mishaps \cup {"broken"}
      /\ lock' = IF lock = p THEN Nobody ELSE lock
  BY DEF Breaks
<1>3. p # Nobody /\ HoldsLock(p) /\ lock \in Procs \cup {Nobody}
  BY ProcessesAssumption DEF MInv, TypeOK
<1>4. CASE UNCHANGED <<applied, rows>>
  <2>1. \A q \in Procs \ {p} : HoldsLock(q)' /\ DirIsRemembered(q)' /\ FileInOrder(q)'
    BY <1>1, <1>2, <1>4, OthersKeep
  <2>2. HoldsLock(p)' /\ DirIsRemembered(p)' /\ FileInOrder(p)'
    BY <1>1, <1>2, <1>3, EndedKeeps DEF HoldsLock, FileInOrder
  <2>3. RowsAreOld' /\ DirtyHasACause'
    BY <1>2, <1>4 DEF MInv, RowsAreOld, DirtyHasACause
  <2> QED
    BY <1>1, <1>2, <1>4, <2>1, <2>2, <2>3 DEF MInv, TypeOK
<1>5. CASE proc[p].pc = "run" /\ TakesEffect(p)
  <2>1. /\ applied' \subseteq Migrations /\ rows' \in BOOLEAN
        /\ "down" \in mishaps \/ applied \subseteq applied'
        /\ rows' /\ applied' # Migrations => "down" \in mishaps
    BY <1>5, Effect
  <2>2. lock = p /\ dirty
    BY <1>3, <1>5 DEF HoldsLock, MInv, FileInOrder
  <2>3. \A q \in Procs \ {p} : HoldsLock(q)' /\ DirIsRemembered(q)' /\ FileInOrder(q)'
    BY <1>1, <1>2, <2>2, OthersKeep
  <2>4. HoldsLock(p)' /\ DirIsRemembered(p)' /\ FileInOrder(p)'
    BY <1>1, <1>2, <1>3, EndedKeeps DEF HoldsLock, FileInOrder
  <2>5. RowsAreOld' /\ DirtyHasACause'
    BY <1>2, <2>1, <2>2 DEF RowsAreOld, DirtyHasACause
  <2> QED
    BY <1>1, <1>2, <2>1, <2>3, <2>4, <2>5 DEF MInv, TypeOK
<1> QED
  BY <1>4, <1>5 DEF Breaks, Doing

\* Requests and signals do not touch what a process is doing to the schema.
LEMMA AsideStep ==
  ASSUME TypeOK, MInv, NEW p \in Procs,
         \A q \in Procs \ {p} : proc'[q] = proc[q],
         proc'[p].pc = proc[p].pc, proc'[p].dir = proc[p].dir,
         proc'[p].file = proc[p].file,
         UNCHANGED <<applied, version, dirty, lock, mishaps>>,
         rows' = rows \/ (rows' = TRUE /\ applied = Migrations)
  PROVE  MInv'
<1>1. \A q \in Procs \ {p} : HoldsLock(q)' /\ DirIsRemembered(q)' /\ FileInOrder(q)'
  BY OthersKeep
<1>2. HoldsLock(p)' /\ DirIsRemembered(p)'
  BY DEF MInv, HoldsLock, DirIsRemembered
<1>3. FileInOrder(p)'
  <2>1. Pending(p)' = Pending(p) /\ Up(p)' = Up(p)
    BY DEF Pending, Up
  <2> QED
    BY <2>1 DEF MInv, FileInOrder
<1>4. RowsAreOld' /\ DirtyHasACause'
  BY DEF MInv, RowsAreOld, DirtyHasACause, TypeOK
<1> QED
  BY <1>1, <1>2, <1>3, <1>4 DEF MInv
-----------------------------------------------------------------------------
(* What a server has loaded *)

\* What a server has seen stays there while others move, and while it answers.
LEMMA LoadedKeeps ==
  ASSUME NEW s \in Servers, Loaded(s),
         mishaps \subseteq mishaps', "down" \in mishaps \/ applied \subseteq applied',
         applied' \subseteq Migrations,
         proc'[s].pc = proc[s].pc, proc'[s].machine = proc[s].machine,
         proc'[s].cfg = proc[s].cfg
  PROVE  Loaded(s)'
BY DEF Loaded

LEMMA LoadedEnds ==
  ASSUME NEW s \in Servers, proc'[s] = NotRunning
  PROVE  Loaded(s)'
BY DEF Loaded, NotRunning

\* A server loads the parts of the state graph one after the other.
LEMMA ServerLoads ==
  ASSUME IInv, NEW s \in Servers, ServerStep(s)
  PROVE  Loaded(s)'
<1>1. /\ s \in Procs /\ proc[s] \in Process /\ TypeOK /\ Loaded(s)
      /\ UNCHANGED <<database, mishaps>>
  BY ServerMoves DEF IInv, TypeOK, Procs
<1>2. UNCHANGED applied
  BY <1>1 DEF database
<1>3. ASSUME Ends(s) PROVE Loaded(s)'
  BY <1>1, <1>3, EndsTyped, LoadedEnds
<1>4. ASSUME NEW step \in Steps, GoTo(s, step)
      PROVE  /\ proc'[s].pc = step /\ proc'[s].cfg = proc[s].cfg
             /\ proc'[s].machine = proc[s].machine
  <2>1. proc'[s] = [proc[s] EXCEPT !.pc = step]
    BY <1>1, <1>4, GoToTyped
  <2> QED
    BY <1>1, <2>1 DEF Process
<1>5. {"lock", "load states", "load transitions", "wire", "listen", "serving", "draining"}
        \subseteq Steps
  BY DEF Steps, Querying
<1>6. ASSUME NEW part \in {"states", "transitions"}, NEW next \in {"load transitions", "wire"},
             Becomes(s, [proc[s] EXCEPT !.pc = next,
                           !.machine = @ \cup (IF 2 \in applied THEN {part} ELSE {})])
      PROVE  /\ proc'[s].pc = next /\ proc'[s].cfg = proc[s].cfg
             /\ proc'[s].machine =
                  proc[s].machine \cup (IF 2 \in applied THEN {part} ELSE {})
  <2> DEFINE r == [proc[s] EXCEPT !.pc = next,
                     !.machine = @ \cup (IF 2 \in applied THEN {part} ELSE {})]
  <2>1. /\ r \in Process /\ r.pc = next /\ r.cfg = proc[s].cfg
        /\ r.machine = proc[s].machine \cup (IF 2 \in applied THEN {part} ELSE {})
    BY <1>1, <1>5 DEF Process
  <2> QED
    BY <1>1, <1>6, <2>1, BecomesTyped
<1>7. CASE Connect(s)
  <2>1. CASE GoTo(s, IF proc[s].cfg.auto THEN "lock" ELSE "load states")
    <3>1. CASE proc[s].cfg.auto
      BY <1>1, <1>2, <1>4, <1>5, <2>1, <3>1 DEF Loaded
    <3>2. CASE ~proc[s].cfg.auto
      BY <1>1, <1>2, <1>4, <1>5, <2>1, <3>2 DEF Loaded
    <3> QED
      BY <3>1, <3>2
  <2> QED
    BY <1>3, <1>7, <2>1 DEF Connect
<1>8. CASE LoadStates(s)
  <2>1. CASE Becomes(s, [proc[s] EXCEPT !.pc = "load transitions",
                           !.machine = @ \cup (IF 2 \in applied THEN {"states"} ELSE {})])
    <3>1. /\ proc'[s].pc = "load transitions" /\ proc'[s].cfg = proc[s].cfg
          /\ proc'[s].machine =
               proc[s].machine \cup (IF 2 \in applied THEN {"states"} ELSE {})
      BY <1>6, <2>1
    <3> QED
      BY <1>1, <1>2, <1>8, <3>1 DEF Loaded, LoadStates, Doing
  <2> QED
    BY <1>3, <1>8, <2>1 DEF LoadStates, LoadPart
<1>9. CASE LoadTransitions(s)
  <2>1. CASE Becomes(s, [proc[s] EXCEPT !.pc = "wire",
                           !.machine = @ \cup (IF 2 \in applied THEN {"transitions"} ELSE {})])
    <3>1. /\ proc'[s].pc = "wire" /\ proc'[s].cfg = proc[s].cfg
          /\ proc'[s].machine =
               proc[s].machine \cup (IF 2 \in applied THEN {"transitions"} ELSE {})
      BY <1>6, <2>1
    <3> QED
      BY <1>1, <1>2, <1>9, <3>1 DEF Loaded, LoadTransitions, Doing
  <2> QED
    BY <1>3, <1>9, <2>1 DEF LoadTransitions, LoadPart
<1>10. CASE InitServer(s)
  <2>1. CASE AcceptsGraph(proc[s].machine) /\ GoTo(s, "listen")
    BY <1>1, <1>2, <1>4, <1>5, <1>10, <2>1 DEF Loaded, InitServer, Doing, AcceptsGraph
  <2> QED
    BY <1>3, <1>10, <2>1 DEF InitServer
<1>11. CASE Listen(s)
  <2>1. CASE GoTo(s, "serving")
    BY <1>1, <1>2, <1>4, <1>5, <1>11, <2>1 DEF Loaded, Listen, Doing
  <2> QED
    BY <1>3, <1>11, <2>1 DEF Listen
<1>12. CASE Shutdown(s)
  BY <1>1, <1>2, <1>4, <1>5, <1>12 DEF Loaded, Shutdown, Doing
<1>13. CASE Exit(s)
  BY <1>3, <1>13 DEF Exit
<1> QED
  BY <1>7, <1>8, <1>9, <1>10, <1>11, <1>12, <1>13 DEF ServerStep

\* A migration, whether a command runs it or a server that starts.
LEMMA MigrationMoves ==
  ASSUME IInv, NEW p \in Procs, MigrationStep(p)
  PROVE  IInv'
<1>1. TypeOK /\ MInv /\ proc[p] \in Process
  BY DEF IInv, TypeOK
<1>2. /\ TypeOK' /\ MInv' /\ mishaps \subseteq mishaps'
      /\ "down" \in mishaps \/ applied \subseteq applied'
      /\ \A q \in Procs \ {p} : proc'[q] = proc[q]
      /\ \/ proc'[p] = NotRunning
         \/ proc'[p] = [proc[p] EXCEPT !.pc = "mark"]
         \/ \E n \in Migrations : proc'[p] = [proc[p] EXCEPT !.pc = "run", !.file = n]
         \/ /\ proc'[p] = [proc[p] EXCEPT !.pc = "load states"]
            /\ "force" \notin mishaps' => applied' = Migrations
  <2>1. CASE Lock(p)
    BY <1>1, <2>1, LockStep
  <2>2. CASE ForceVersion(p)
    BY <1>1, <2>2, ForceStep
  <2>3. CASE LockTimeout(p)
    BY <1>1, <2>3, LockTimeoutStep
  <2>4. CASE Mark(p)
    BY <1>1, <2>4, MarkStep
  <2>5. CASE RunFile(p)
    BY <1>1, <2>5, RunFileStep
  <2>6. CASE NewMigrateFails(p)
    BY <1>1, <2>6, NewMigrateStep
  <2> QED
    BY <2>1, <2>2, <2>3, <2>4, <2>5, <2>6 DEF MigrationStep
<1>3. applied' \subseteq Migrations
  BY <1>2 DEF TypeOK
<1>4. ASSUME NEW s \in Servers PROVE Loaded(s)'
  <2>1. Loaded(s) /\ s \in Procs
    BY DEF IInv, Procs
  <2>2. CASE s # p
    BY <1>2, <1>3, <2>1, <2>2, LoadedKeeps
  <2>3. CASE s = p
    <3>1. CASE proc'[p] = NotRunning
      BY <2>3, <3>1, LoadedEnds
    <3>2. CASE proc'[p] = [proc[p] EXCEPT !.pc = "mark"]
      <4>1. proc'[p].pc = "mark" /\ proc'[p].machine = proc[p].machine
        BY <1>1, <3>2 DEF Process
      <4> QED
        BY <1>2, <2>1, <2>3, <4>1 DEF Loaded
    <3>3. CASE \E n \in Migrations : proc'[p] = [proc[p] EXCEPT !.pc = "run", !.file = n]
      <4>1. proc'[p].pc = "run" /\ proc'[p].machine = proc[p].machine
        BY <1>1, <3>3 DEF Process
      <4> QED
        BY <1>2, <2>1, <2>3, <4>1 DEF Loaded
    <3>4. CASE /\ proc'[p] = [proc[p] EXCEPT !.pc = "load states"]
               /\ "force" \notin mishaps' => applied' = Migrations
      <4>1. proc'[p].pc = "load states" /\ proc'[p].machine = proc[p].machine
        BY <1>1, <3>4 DEF Process
      <4> QED
        BY <1>2, <2>1, <2>3, <3>4, <4>1 DEF Loaded
    <3> QED
      BY <1>2, <3>1, <3>2, <3>3, <3>4
  <2> QED
    BY <2>2, <2>3
<1> QED
  BY <1>2, <1>4 DEF IInv
-----------------------------------------------------------------------------
(* The inductive invariant *)

LEMMA InitIsIInv == Init => IInv
<1> SUFFICES ASSUME Init PROVE IInv
  OBVIOUS
<1>1. \A p \in Procs : proc[p] = NotRunning /\ p # Nobody
  BY ProcessesAssumption DEF Init
<1>2. \A p \in Procs : HoldsLock(p) /\ DirIsRemembered(p) /\ FileInOrder(p)
  BY <1>1 DEF Init, HoldsLock, DirIsRemembered, FileInOrder, NotRunning
<1>3. RowsAreOld /\ DirtyHasACause
  BY DEF Init, RowsAreOld, DirtyHasACause
<1>4. \A s \in Servers : Loaded(s)
  <2>1. \A s \in Servers : proc[s].pc = "off" /\ proc[s].machine = {}
    BY <1>1 DEF NotRunning, Procs
  <2> QED
    BY <2>1 DEF Loaded
<1> QED
  BY <1>2, <1>3, <1>4, InitTyped DEF IInv, MInv

LEMMA InvStep ==
  ASSUME IInv, [Next]_vars
  PROVE  IInv'
<1>1. TypeOK /\ MInv /\ \A s \in Servers : Loaded(s) /\ s \in Procs
  BY DEF IInv, Procs
<1>2. ASSUME NEW s \in Servers, Main(s) PROVE IInv'
  <2>1. /\ UNCHANGED <<database, lock, mishaps>> /\ proc[s].pc = "off"
    BY <1>2 DEF Main, Over
  <2>2. /\ TypeOK' /\ \A q \in Procs \ {s} : proc'[q] = proc[q]
        /\ proc'[s].pc \in {"off", "connect"} /\ proc'[s].dir = "up"
        /\ proc'[s].machine = {}
    BY <1>1, <1>2, MainTyped
  <2>3. DirIsRemembered(s)'
    BY <2>2 DEF DirIsRemembered
  <2>4. MInv'
    BY <1>1, <2>1, <2>2, <2>3, QuietStep DEF database
  <2>5. Loaded(s)'
    BY <2>2 DEF Loaded
  <2>6. \A q \in Servers \ {s} : Loaded(q)'
    BY <1>1, <2>1, <2>2, LoadedKeeps DEF database, TypeOK
  <2> QED
    BY <2>2, <2>4, <2>5, <2>6 DEF IInv
<1>3. ASSUME NEW s \in Servers, ServerStep(s) PROVE IInv'
  <2>1. /\ UNCHANGED <<database, lock, starts, mishaps>>
        /\ proc' \in [Procs -> Process]
        /\ \A q \in Procs \ {s} : proc'[q] = proc[q]
        /\ proc[s].pc \notin {"mark", "run"} /\ proc'[s].pc \notin {"mark", "run"}
        /\ proc'[s].dir \in {"up", proc[s].dir}
    BY <1>1, <1>3, ServerMoves
  <2>2. DirIsRemembered(s)'
    BY <1>1, <2>1 DEF MInv, DirIsRemembered
  <2>3. TypeOK' /\ MInv'
    BY <1>1, <2>1, <2>2, QuietStep DEF database, TypeOK
  <2>4. \A q \in Servers \ {s} : Loaded(q)'
    BY <1>1, <2>1, LoadedKeeps DEF database, TypeOK
  <2> QED
    BY <1>3, <2>3, <2>4, ServerLoads DEF IInv
<1>4. ASSUME NEW s \in Servers, NEW r \in Process, Becomes(s, r),
             r.pc = proc[s].pc, r.dir = proc[s].dir, r.file = proc[s].file,
             r.machine = proc[s].machine, r.cfg = proc[s].cfg,
             UNCHANGED <<applied, version, dirty, lock, starts, mishaps>>,
             rows' = rows \/ (rows' = TRUE /\ applied = Migrations)
      PROVE  IInv'
  <2>1. /\ proc' \in [Procs -> Process] /\ proc'[s] = r
        /\ \A q \in Procs \ {s} : proc'[q] = proc[q]
    BY <1>1, <1>4, BecomesTyped
  <2>2. TypeOK'
    BY <1>1, <1>4, <2>1 DEF TypeOK
  <2>3. MInv'
    BY <1>1, <1>4, <2>1, AsideStep
  <2>4. ASSUME NEW q \in Servers PROVE Loaded(q)'
    <3>1. /\ proc'[q].pc = proc[q].pc /\ proc'[q].machine = proc[q].machine
          /\ proc'[q].cfg = proc[q].cfg
      BY <1>1, <1>4, <2>1
    <3> QED
      BY <1>1, <1>4, <3>1, LoadedKeeps DEF TypeOK
  <2> QED
    BY <2>2, <2>3, <2>4 DEF IInv
<1>5. ASSUME NEW s \in Servers, Accept(s) PROVE IInv'
  <2>1. proc[s] \in Process /\ proc[s].open \in 0 .. MaxOpen /\ proc[s].open < MaxOpen
    BY <1>1, <1>5, Parts DEF TypeOK, Accept
  <2>2. proc[s].open + 1 \in 0 .. MaxOpen
    BY <2>1, BoundsAssumption
  <2> DEFINE r == [proc[s] EXCEPT !.open = @ + 1]
  <2>3. /\ r \in Process
        /\ r.pc = proc[s].pc /\ r.dir = proc[s].dir /\ r.file = proc[s].file
        /\ r.machine = proc[s].machine /\ r.cfg = proc[s].cfg
    BY <2>1, <2>2 DEF Process
  <2>4. Becomes(s, r) /\ UNCHANGED <<applied, version, dirty, lock, starts, mishaps, rows>>
    BY <1>5 DEF Accept, database
  <2> QED
    BY <1>4, <2>3, <2>4
<1>6. ASSUME NEW s \in Servers, Answer(s) PROVE IInv'
  <2>1. proc[s] \in Process /\ proc[s].open \in 0 .. MaxOpen /\ proc[s].open > 0
    BY <1>1, <1>6, Parts DEF TypeOK, Answer
  <2>2. proc[s].open - 1 \in 0 .. MaxOpen
    BY <2>1, BoundsAssumption
  <2> DEFINE r == [proc[s] EXCEPT !.open = @ - 1]
  <2>3. /\ r \in Process
        /\ r.pc = proc[s].pc /\ r.dir = proc[s].dir /\ r.file = proc[s].file
        /\ r.machine = proc[s].machine /\ r.cfg = proc[s].cfg
    BY <2>1, <2>2 DEF Process
  <2>4. Becomes(s, r) /\ UNCHANGED <<applied, version, dirty, lock, starts, mishaps>>
    BY <1>6 DEF Answer
  <2>5. rows' = rows \/ (rows' = TRUE /\ applied = Migrations)
    BY <1>1, <1>6 DEF Answer, TypeOK
  <2> QED
    BY <1>4, <2>3, <2>4, <2>5
<1>7. ASSUME NEW s \in Servers, Signal(s) PROVE IInv'
  <2>1. proc[s] \in Process
    BY <1>1 DEF TypeOK
  <2> DEFINE r == [proc[s] EXCEPT !.signalled = TRUE]
  <2>2. /\ r \in Process
        /\ r.pc = proc[s].pc /\ r.dir = proc[s].dir /\ r.file = proc[s].file
        /\ r.machine = proc[s].machine /\ r.cfg = proc[s].cfg
    BY <2>1 DEF Process
  <2>3. Becomes(s, r) /\ UNCHANGED <<applied, version, dirty, lock, starts, mishaps, rows>>
    BY <1>7 DEF Signal, database
  <2> QED
    BY <1>4, <2>2, <2>3
<1>8. ASSUME NEW m \in Commands, NEW dir \in {"up", "down", "force"}, RunCommand(m, dir)
      PROVE  IInv'
  <2>1. /\ UNCHANGED <<database, lock>> /\ mishaps' = mishaps \cup ({dir} \ {"up"})
        /\ proc[m].pc = "off" /\ m \in Procs /\ m \notin Servers
    BY <1>8, ProcessesAssumption DEF RunCommand, Over, Procs
  <2>2. /\ TypeOK'
        /\ proc'[m].pc = "lock" /\ proc'[m].dir = dir
        /\ \A q \in Procs \ {m} : proc'[q] = proc[q]
    BY <1>1, <1>8, RunCommandTyped
  <2>3. DirIsRemembered(m)'
    BY <2>1, <2>2 DEF DirIsRemembered
  <2>4. MInv'
    BY <1>1, <2>1, <2>2, <2>3, QuietStep DEF database
  <2>5. ASSUME NEW s \in Servers PROVE Loaded(s)'
    <3>1. proc'[s] = proc[s]
      BY <1>1, <2>1, <2>2
    <3> QED
      BY <1>1, <2>1, <3>1, LoadedKeeps DEF database, TypeOK
  <2> QED
    BY <2>2, <2>4, <2>5 DEF IInv
<1>9. ASSUME NEW p \in Procs, Breaks(p) PROVE IInv'
  <2>1. /\ TypeOK' /\ MInv'
        /\ mishaps \subseteq mishaps' /\ ("down" \in mishaps \/ applied \subseteq applied')
        /\ \A q \in Procs \ {p} : proc'[q] = proc[q]
        /\ proc'[p] = NotRunning
    BY <1>1, <1>9, BreaksStep
  <2>2. ASSUME NEW s \in Servers PROVE Loaded(s)'
    <3>1. CASE s = p
      BY <2>1, <3>1, LoadedEnds
    <3>2. CASE s # p
      BY <1>1, <2>1, <3>2, LoadedKeeps DEF TypeOK
    <3> QED
      BY <3>1, <3>2
  <2> QED
    BY <2>1, <2>2 DEF IInv
<1>10. CASE UNCHANGED vars
  <2>1. UNCHANGED <<applied, version, dirty, rows, lock, proc, starts, mishaps>>
    BY <1>10 DEF vars, database
  <2>2. TypeOK' /\ \A s \in Servers : Loaded(s)'
    BY <1>1, <2>1 DEF TypeOK, Loaded
  <2>3. MInv'
    BY <1>1, <2>1 DEF MInv, HoldsLock, DirIsRemembered, FileInOrder, Pending, Up,
                      RowsAreOld, DirtyHasACause
  <2> QED
    BY <2>2, <2>3 DEF IInv
<1> QED
  BY <1>2, <1>3, <1>5, <1>6, <1>7, <1>8, <1>9, <1>10, MigrationMoves DEF Next, DbError, Kill

\* IInv holds throughout.
THEOREM StartupInvariant == Spec => []IInv
<1>1. Init => IInv
  BY InitIsIInv
<1>2. IInv /\ [Next]_vars => IInv'
  BY InvStep
<1> QED
  BY <1>1, <1>2, PTL DEF Spec

\* Every variable of the processes and of the database keeps its type.
THEOREM StartupTypeCorrect == Spec => []TypeOK
<1>1. IInv => TypeOK
  BY DEF IInv
<1> QED
  BY <1>1, StartupInvariant, PTL

\* initServer only lets a server serve that has loaded all of the state graph,
\* and, if it migrates, one whose schema is complete, unless somebody rolled back
\* or forced a version: for any number of replicas, shells and crashes.
THEOREM ServesSeededGraphHolds == Spec => []ServesSeededGraph
<1>1. ASSUME IInv PROVE ServesSeededGraph
  <2> SUFFICES ASSUME NEW s \in Servers, proc[s].pc \in {"serving", "draining"}
               PROVE  /\ "down" \notin mishaps =>
                           proc[s].machine = {"states", "transitions"}
                      /\ proc[s].cfg.auto /\ mishaps \cap {"down", "force"} = {} =>
                           applied = Migrations
    BY DEF ServesSeededGraph
  <2>1. Loaded(s) /\ proc[s].machine \subseteq {"states", "transitions"}
    BY <1>1, Parts DEF IInv, Procs
  <2> QED
    BY <2>1 DEF Loaded
<1> QED
  BY <1>1, StartupInvariant, PTL

\* The version golang-migrate keeps agrees with the tables unless it was forced,
\* and is only left dirty by what broke a run or by a rollback that met rows.
THEOREM DirtyHasACauseHolds == Spec => []DirtyHasACause
<1>1. IInv => DirtyHasACause
  BY DEF IInv, MInv
<1> QED
  BY <1>1, StartupInvariant, PTL
=============================================================================
