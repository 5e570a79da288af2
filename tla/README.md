# A verification development for oriva

oriva runs job interviews by voice: a Go backend owns the data and the state of
every interview, a Python service holds the conversation, a React frontend is
what recruiters and candidates see.  This directory models the parts of the
system whose correctness depends on the order in which things happen, checks
them with TLC on small instances and proves the most important facts about the
session authority, colliding starts of a call, the transcript, scoring, the
recruiters' API and a candidate's visits with TLAPS for instances of any size.

## 1. The system

| Part | State it keeps | Operations | Talks to |
|---|---|---|---|
| session state machine (`backend-go/statemachine`, migration 0002) | the graph of 12 states, loaded at start-up | `Has`, `IsTerminal`, `Validate` | sessions service |
| session state changes (`services/sessions`, `repositories/postgres/interview_repo`) | `interview_sessions.state`, `session_state_events` | `Advance` = read, validate, compare-and-swap, re-read | recruiters over HTTP, the AI service over MCP, join, scoring |
| candidate join (`services/join`) | none of its own | `Status` (read), `Start` (walks the pre-call chain) | AI service; `Advance` |
| transcript (`repositories/postgres/response_repo`, tool `record_turn`) | `responses` | append or insert a turn | AI service; starts a turn scorer |
| scoring (`services/scoring`, `score_repo`, `llmjudge`) | `scores`; goroutines in the server process | `ScoreTurn`, `ScoreOverall` | judge LLMs; `Advance` |
| interviews service | `interview_sessions` rows | `Schedule`, `Get` with scores, `List` | recruiter pages, e-mail |
| jobs, candidates, users (`services/jobs`, `candidates`, `auth`, their repositories) | rows, each of one organization | create, read, list, update; login, token, roles | recruiter pages; seed command |
| start-up (`cmd/server`, `cmd/migrate`, `config`, `migrate.go`, `state_repo`) | schema, `schema_migrations`, processes | load and check configuration, migrate, load the graph, listen, shut down | database, other replicas |
| queue interviewer (`ai-service-python/.../queue_interviewer.py`) | stage, question queue, done flag, deadline | handles one context frame at a time | candidate (TTS), `record_turn`, `advance_state` |
| context compactor (`context_compactor.py`) | the call's LLM context, a flag, a lock | background compression | summarizing LLM |
| WebSocket session and assembly | one pipeline per connection | resolve token, start session, run pipeline | join endpoints, MCP |
| telemetry, bake-off, providers | metrics, reports, adapters | observe frames, score clips | - |
| call page (`frontend/src/pages/Call.tsx`, `call/`) | last poll, phase of the call, transcript shown | poll, start, end, callbacks | `join.Status`, AI service WebSocket |
| recruiter pages | forms, tables | calls to the API | backend API |

Behaviours that are hard to get right, and where each is looked at:

* several callers move one session at a time, each on a state read earlier, and
  a commit may take effect although its caller is told it failed (`Sessions`);
* two connections start the same session, hop by hop (`JoinStart`);
* two connections append to one transcript at read-committed isolation
  (`Transcript`);
* scorers run in the background, in a process that may stop, while the session
  is moved and the detail page is read (`Scoring`);
* a handler awaits its tools while the candidate, the clock and a barge-in go
  on, and others move the session under it (`Interviewer`);
* a background task rewrites a context that others append to (`Compactor`);
* requests check rows in one statement and use them in the next, while a seed
  moves their user away, tokens expire and answers get lost (`Recruiting`);
* a candidate polls, connects, hangs up, reloads, comes back and opens a second
  connection, against the clock, recruiters and failing tools (`Visits`);
* replicas and the migrate command share one schema, and any of them may be
  signalled or killed in the middle of a migration (`Startup`).

What makes each part correct:

* sessions: the audit log is one legal path of the graph, terminal states are
  final, only the owning organization moves a session, scoring starts once;
* join: colliding starts do not all lose; success means the session got there;
* transcript: turns are numbered without gaps, no answer is stored twice, no
  stored turn changes, every call is answered;
* scoring: a session called scored has a score, a score rests on scored turns,
  the page never contradicts itself, what can be scored is scored;
* interviewer: questions are stored in order and once, under the right answer, a
  question is always pending, a call that ends hands its session over, a call ends;
* compactor: prompt first, order kept, recent turns verbatim, nothing forgotten;
* recruiting: an interview, its job and its candidate are one organization's, an
  invitation leads its addressee to the call, an answer says what was stored,
  rows are shown to their organization only;
* visits: nobody is turned away from an interview that can take place, a started
  call has its session in progress, a finished one is handed to scoring, phases
  never go back, "live" is shown over a connection, or over one it waits to hang up;
* start-up: what serves has the whole graph, a dirty version has a cause,
  replicas that start together come up, a signalled server ends.

`PROJECT.json` lists every hazard at its line, with the properties that watch it.

## 2. The modules

| Module | Models | Extends |
|---|---|---|
| `SessionGraph` | the seeded graph and `Validate` | - |
| `SessionAuthority` | abstract: what the backend promises about a session's history | `SessionGraph` |
| `Sessions` | `Advance` over `interview_repo`, any number of callers | `SessionGraph` |
| `JoinStart` | `join.Start` composed with other callers of `Advance` | `Sessions` |
| `Transcript` | `record_turn` over `response_repo.Record` | - |
| `Scoring` | `services/scoring`, `score_repo`, `llmjudge`, `attachScores` | `SessionGraph` |
| `Interviewer` | `QueueInterviewer` for one call | `SessionGraph` |
| `Compactor` | `ContextCompactor` for one call | - |
| `Recruiting` | login, jobs, candidates, scheduling, invitation, reads | - |
| `Visits` | call page, `join.Status` and `Start`, `session.py`, wrap-up | `SessionGraph` |
| `Startup` | configuration, migrations, `initServer`, `Listen` | - |
| `SessionsProofs` | theorems about `Sessions` and `JoinStart`: invariants, and the refinement of `SessionAuthority` | `JoinStart`, TLAPS |
| `TranscriptProofs`, `ScoringProofs`, `InterviewerProofs`, `CompactorProofs`, `RecruitingProofs`, `VisitsProofs`, `StartupProofs` | theorems about the module they are named for | the module, TLAPS |
| `MCSessions`, `MCJoinStart`, `MCScoring`, `MCInterviewer`, `MCRecruiting`, `MCVisits`, `MCStartup` | constants and symmetries of the runs | the module they are named for |

Operators whose comment begins with *Seeded fault* are not part of any
specification.  Each is a plausible mistake in the definition that follows it,
kept to show that a property notices it (`PROJECT.json`, "mutants").

### Sessions

`row[s]` is `interview_sessions.state`, `events[s]` the rows of
`session_state_events` in commit order, `call[c]` the local variables of one
execution of `Advance` together with the round trip it is about to make, and
`spawned[s]` counts the scoring goroutines started.  `Advance` is split at the
database: `CurrentState` (SELECT and `Validate`), `ApplyTransition` (the
transaction: UPDATE ... AND state = $3, INSERT of the event) and `Get` (the final
read).  A round trip may fail; a failed commit may or may not have taken effect.
Callers name any session, any organization and any target, known or not:
recruiters send their own organization, tools look it up.

`SessionAuthority` keeps only the history of states of each session: it is
created in "scheduled" and extended along the graph.  `Sessions` implements it
with `history` read off the audit log (`ImplementsAuthority`).

### JoinStart

`start[p]` is one execution of `Start`: the state it looked up, its place in
`preCallChain` and whether an `Advance` of its own is under way, which is
`call[p]` of `Sessions`.  `Lookup` is `JoinByToken`, `OrgOf` and the early
returns; `Hop` is the loop; `Advanced` is what the loop does with the result.
A hop begins a call of `Advance` as any other caller does (`Begin`).  A caller of
`Start` holds one token: it may start its own session again, and no other.
The other callers are recruiters, who ask for the states in `OthersWant`.  The
`actor` of an event tells whose move it was, so that `RaceReachesInProgress` can be
stated for the sessions that nobody but the starts has moved.

### Transcript

A `record_turn` call begins a transaction, picks an index (the one it was given,
or one more than the largest *committed* index), inserts, waits if an open
transaction holds the same key, and commits.  Rows become visible at commit,
which is what read committed means.  `scorers` counts the goroutines started for
each turn.

### Scoring

One session.  `scorer[t]` and `job` are the goroutines; the session's other moves
are single steps along the graph, which is justified by `ImplementsAuthority`, and
there is one overall goroutine, which is justified by `ScoringStartsOnce`.  Turn
numbers have no gaps, which is `NoGaps` for calls that name no index, as the
interviewer's do.  A crash ends every goroutine.  `overall` carries two ghost
fields, the turns the judge was shown and how many were recorded then, and
`faulted` remembers that a round trip, both judges or the server failed: the
liveness properties are owed only until then, and everything else always.  `page` is a recruiter's GET of the interview: the row, the
overall score and the turn scores in three queries.

### Interviewer

One call.  `handler` says at which await `process_frame` is suspended; `inbox`
counts the frames behind it.  A frame has no text of its own: `heard` is the last
user message of the one shared context, with the prompt it was an answer to.
`talking`, `StopTalking`, `PipelineEnds`, `HangUp` and `Interrupt` are the
framework and the candidate and are marked external.  `Overlap` lets the
candidate talk while a handler is busy, `BargeIn` lets an interruption cancel it.
`OthersMove` is everybody else who asks `Advance` for a move of this session
(recruiters, other connections): any legal one, at any moment of the call.
The ghost `mishaps` remembers whether somebody talked over a handler, cancelled one,
or a tool failed, and the ghost `mover` who moved the session last.  Each property
says what it survives: the order of the records survives everything, and so does
that no answer is stored under a question that comes before the prompt it was
given to; that it is stored under exactly that question needs that nobody talked over a
handler, a single record per question that no handler was cancelled, the hand-over
that tools worked and that nobody else has moved the session since.

### Compactor

A message is the set of message numbers it speaks for, so that a summary speaks
for all it replaced.  The threshold, in words in the code, is in messages here.
The ghost `disturbed` remembers that a message was added while a summary was under
way: until then nothing is forgotten, afterwards the order still holds.

### Recruiting

`req[c]` is the request browser tab `c` has under way: the claims it was admitted
with, its body and what its handler has found out so far.  A login reads the user's row in one step (`FindByEmail`) and issues the token in a
later one (`Issue`), with the organization it read and the time it is then; between
them lie the password hash and whatever others do, a seed among it.
A tab waits for the answer to its login, and logs in only while it may still make a
request, as nothing can be seen of a login after its last one.  `Request` is
`RequireAuth` and `RequireRole`; an action named after a handler is the handler with
its service and its one SQL statement.  `POST /interviews` is split at each of its
statements: `CheckJob`, `CheckCandidate`, `InsertSession`, `Reload`,
`LookUpCandidate`, `SendInvite`.  Every statement may fail, and every answer of a
write may get lost after the write took effect (`DbError` beside the new row).
`Upsert` is the seed command, which moves a user that exists to the organization it
was given; tokens of logins that read the row before name the old one until they expire.  An
update may leave fields out, which `COALESCE` keeps, but not all of them.  Three ghosts:
`was` keeps the organizations a user has left, `took`, in a token, how long its login
took from the read to the issue, and `by`, in a session, the request that stored it.  Texts and addresses are what validation tells apart; ids are well
formed (a malformed one is an internal error at the database).

### Visits

`tab[t]` is the call page: `data` and `error` of the last poll, the phase of `useCall`,
whether it waits for the microphone, the client it refers to, and how many presses
of "End interview" have not come through (`ending`).  `End` hangs up and awaits
`disconnect()`; `EndDone`, at any later time and however that await ends, shows "ended".
`conn[k]` is one WebSocket connection: where `handle_session` and the pipeline are
(`pc`), the hop `join.Start` is at, and the connection as the client sees it.  A poll, and the
resolution of a token, reads the row in one step (`Poll`, first half of
`ResolveSession`) and is answered, at the clock's time, in another (`Status`).  A
move of the session is a single step, legal by the graph or an error, which
`ImplementsAuthority` justifies; between two hops of a start, and between the two
moves of a wrap-up, everything else may happen.  A failed move may have taken
effect.  `Reload` closes a tab or loads it again, `PipelineEnds` is what the framework
does once the client is gone, and during the wrap-up it cancels a tool call.  The
ghost `upset` remembers that a recruiter moved the session or that a wrap-up was
cut short; `LiveCallIsInProgress` and `FinishedMeansScoring` say which of the two
they survive.  `Scored` is the scoring service, which is in `Scoring`; the answers
given in the call are in `Interviewer`.

### Startup

`applied`, `version` and `dirty` are the schema and `schema_migrations`; `lock` is
golang-migrate's advisory lock; `proc[p]` is a server or a migrate command and the
step it is at.  `Main` is `loadConfig` and `Validate`, over settings that are known by
what the code tells apart ("short" is a secret too short for production); `Lock`,
`Mark` and `RunFile` are golang-migrate's run of a file, which the code relies on and
which is marked external where the code has no line for it; `UpWorks` and `DownWorks`
say when the statements of the files can succeed.  `MakesURL` is what `newMigrate` makes
of the DSN: one of keywords ("host=... user=...") passes `Validate` and serves the pool,
and becomes no URL for golang-migrate (`NewMigrateFails`).  A command takes its DSN from
its own environment (`Dsn`).  `LoadStates` and
`LoadTransitions` are the two queries of `LoadGraph`.  `Signal` cancels the context of
`main`, `Breaks` ends a process in the middle of a step, with or without the effect
of its statement.  The ghost `mishaps` remembers rollbacks, forced versions, lock
timeouts and broken processes.

## 3. The runs

| Run | Shows | Instance | Result |
|---|---|---|---|
| `Sessions` | audit chain, organizations, single start of scoring, answers, terminal states, refinement | 1 session, 2 callers, 2 organizations, 6 events | holds |
| `JoinStart` | colliding starts do not all lose; success means the session arrived | 2 starts, 1 recruiter, failures, 5 events | holds |
| `Transcript` | numbering, single storing and scoring, append-only, no call hangs | 2 callers, 3 calls each, index 2 may be named, failures | holds |
| `Scoring` | scores, bounds and the page under crashes and failures; what can be scored is scored | 2 turns, two judges, failures, crashes | holds |
| `ScoringEarly` | the overall score misses turns being judged | 2 turns, nothing fails | refuted |
| `Interviewer` | order, pending question, completion, fit, hand-over, termination | 2 questions, failing tools, overlaps, barge-ins, any move of the session by others | holds |
| `InterviewerForwards` | a late frame reaches the LLM node | 2 questions | refuted |
| `InterviewerDeadline` | the deadline alone does not end the call | 2 questions | refuted |
| `Compactor` | prompt, order, nothing forgotten when quiet, progress | 9 messages, 2 kept, threshold 4 | holds |
| `Recruiting` | one organization per interview, invitations, answers, visibility | 2 tabs, 1 user, 2 organizations, room for 2 jobs, candidates, sessions and links, 1 request per tab, tokens live 1 tick, failures | holds |
| `Visits` | refusals, live calls, hand-over, page and connection, phases | 1 tab, 2 connections, 1 press of "End" at a time, 3 ticks (before, open, late), three states recruiters ask for, failures | holds |
| `Startup` | graph and schema of what serves, dirty versions, replicas, shutdown | 2 servers, 1 shell, 1 start each, 1 open request, all failures, a DSN for the pool alone | holds |

The refuted properties quote what a document or comment of the repository says;
`PROJECT.json` "findings" gives both sides.

The runs check what several steps are needed to break; the type invariants of
`JoinStart`, `Transcript`, `Interviewer`, `Compactor`, `Recruiting`, `Visits` and `Startup`
are definitions of these modules and theorems (`...TypeCorrect`).
Properties that belong together are one formula with named parts: `OncePerAnswer`
(stored once, judged once), `ScriptIsStored` (in order, nothing skipped),
`HandsOverWhenFinished`, `ContextInOrder`.

### Bounds

`MaxEvents` stops new calls once a session has that many audit events (calls
under way go on): six are enough for the whole happy path, and for an
interruption, a rejoin and a failure.  Sessions do not interact (every statement
names one id), so one is enough, and two callers are enough for every pair of
racing round trips.  In `JoinStart` five events hold the four hops and one move of
the recruiter, who asks for one state of each kind: on the way to the call,
beyond it, interrupted and failed; the two starts are interchangeable, which
the run uses as a symmetry.  `MaxCalls`, `MaxTurns` and
`MaxMessages` bound how much is recorded; three transcript calls per caller let an
aborted call be followed by one that works, and nine messages with two kept and a
threshold of four allow several compactions.  `MaxInbox` = 2 is the least at which
two answers pile up behind a handler, and `MaxRecords` = 4 is one more than the
script needs.

In `Recruiting` one request per tab is enough for two requests to interleave at every
statement; so that both may be about interviews, a job and a candidate are there from
the beginning.  One tick makes a token expire between two requests, or lets time pass in a login.  The tabs,
session ids and links are interchangeable and used as a symmetry.  In `Visits` two
connections of one tab race each other's starts and wrap-ups (a second tab adds no
state of the session, and the theorems hold for any number); the three
ticks reach each phase; recruiters ask for one state on the way to the call, one
beside it and one that ends it.  `MaxPresses` = 1 lets the page wait for one
`disconnect()` at a time (the theorem holds for any number).  In `Startup` one start per server is enough for a
collision on the lock, and the shell's one command may be each of the three.  `Forced`
is one version that lies before the latest.

Every bound makes the system stop, so deadlock is not checked.

### Fairness

* `Transcript`: a call that was begun is continued, because it is a goroutine of its
  own and the database serves its statements; failures may happen but no call is
  made to rely on one.
* `Scoring`: a goroutine is run, and the HTTP client gives a judge up after 30 s.
  Nothing resumes a goroutine after a crash, so liveness is owed up to a fault.
* `Interviewer`: the event loop runs a handler that can run and tool calls
  return.  `CooperativeSpec` adds a candidate who takes each turn (weak fairness)
  and, however often a repetition is asked for, gives the answer in the end
  (strong fairness), which the safety properties of that run do not need.
  `TalkativeSpec`, for the refuted deadline, only assumes that the candidate goes on
  talking and that time passes.
* `Compactor`: the task is run and its request has a 10 s timeout.
* `Startup`: a process that can take a step does, and each statement is answered in
  the end.  Nothing is assumed of requests: that a signalled server ends although its
  requests may never be answered is `Shutdown`'s five seconds.

## 4. What is proved

Every invariant and action property of the passing runs is a theorem, for any
values of the constants that the assumptions of its module allow.

`SessionsProofs` proves for any sets of sessions, organizations and callers, and any
bound:

* `TypeCorrect`: `Spec => []TypeOK`;
* `AuditChainHolds`: `Spec => []AuditChain`;
* `OwnOrgOnlyHolds`: `Spec => []OwnOrgOnly`;
* `ScoringStartsOnceHolds`: `Spec => []ScoringStartsOnce`;
* `TerminalIsFinalHolds`: `Spec => TerminalIsFinal`;
* `AnswerIsNotStaleHolds`: `Spec => []AnswerIsNotStale`;
* `Refinement`: `Spec => ImplementsAuthority`.

The only assumptions are those declared in `Sessions`: every session has an
owner among the organizations and the unknown target is not a state.  The
inductive invariant `IInv` adds to the three invariants what a call remembers
between its round trips: a call about to apply a move holds a legal edge of the
graph (`Validate` said so), whatever the row is by now.  Without that the step
`ApplyTransition` could append anything.  The compare-and-swap turns "was legal when
read" into "is legal now".  `ScoringStartsOnce` needs that no edge leads back into
"scoring" from a state behind it (`ScoringIsEnteredOnce`, a fact about the graph),
and `TerminalIsFinal` that no edge leaves a terminal state (`GraphWellFormed`).

`AnswerIsNotStale` rests on a second invariant, `AInv`: a call that has committed
and not answered yet finds its event at the place it remembers, and since no step
shortens or rewrites a log (`LogsGrow`) it will find it there later.  The
refinement maps a new row to `Create` and a commit to `Move`; the rest of the
steps stutter.  That `Move` is legal is again the validated edge, and that the
history ends in the state of the row, which `Move` extends, is `AuditChain`
(`HistoriesFit`).

The second half of `SessionsProofs` is about `JoinStart`, for any sessions, starts,
other callers and states these ask for: `JoinTypeCorrect`,
`RaceReachesInProgressHolds`, `OkMeansArrivedHolds`, and that starts break none of the
promises of `Sessions`: `StartsImplementAuthority` (`JoinSpec => ImplementsAuthority`)
and `StartsLeaveTerminalAlone` (`JoinSpec => TerminalIsFinal`).  Every
step of `JoinStart` is a step of `Sessions` whose log is not bounded, or leaves the
sessions alone (`JoinStepIsAnyStep`), so what the first half shows for such steps,
`IInv`, `AInv` and the refinement among it, holds here too.  `JInv` adds that the log of a session has the hop each of
its starts is at (`Place`), which gives `OkMeansArrived`; that a session moved by
starts only is on the chain (`OnChain`); and that one which is short of the call has a
start at its front or one the database has stopped (`Pushed`): a start can lose only
to one that is ahead of it, and the one at the front has nobody to lose to.

`TranscriptProofs` proves, for any callers, any number of calls and any indexes that
may be named, `TranscriptTypeCorrect`, `NoGapsHolds`, `OncePerAnswerHolds` and
`AppendOnlyHolds`, from the assumptions on constants that `Transcript` declares.  The
inductive invariant says what a call knows of its index while it is under way: one
that holds a key holds it alone, and the key is not stored (`KeyIsExclusive`, which
makes the commit an addition and never a replacement); an index that was not named
follows a stored turn (`IndexIsJustified`: the turn that was last when it was read
is still there, because nothing is dropped); an answer being stored is stored
nowhere yet (`AnswersAreOfCalls`); a scorer about to be started is the first
(`ScorerIsDue`).  That a transcript has a last turn is a part of the invariant
(`HasLast`), because that every finite set of numbers has one is an induction over
data.

`ScoringProofs` proves, for any number of turns, any judges and any failures and
crashes, `ScoringTypeCorrect`, `ScoredHasOverallHolds`, `OverallRestsOnTurnsHolds` and
`PageIsCoherentHolds`.  The inductive invariant says what the overall goroutine holds
between its round trips (`JobIsJustified`): a verdict rests on scores that are still
there when it is stored, because scores are only added, and the session is moved on
only behind a stored score.  `PageReads` says the same of the detail page: a row that
was called scored has a score to be read afterwards, and the turns behind a score
that was read are still there to be read after it.  That a session stays handed over
once it was is a fact about the graph (`HandedOverOnce`).

`VisitsProofs` proves, for any tabs, connections, times and states recruiters may ask
for, `VisitsTypeCorrect`, `NobodyTurnedAwayHolds`, `LiveCallIsInProgressHolds`,
`FinishedMeansScoringHolds`, `LiveMeansConnectedHolds` and `PhaseMovesForwardHolds`.
Without recruiters a session only goes forward along one line of states; `Place`
numbers them, and `StartsBroughtIt` says that the session is at least as far as the
hop each start is at, so a hop that finds its move illegal finds the session ahead.
`ReadsAreSound` says that what was read of the end of an interview stays true, which
carries a refusal over to the moment it is given and a "closed" phase over all
polls under way; `PhaseHasBegun` compares the phase shown with the clock.
`SomeoneHandsOver` is the heart of the hand-over: as long as nothing came between, a
completed session has a connection that is about to hand it to scoring, and a
wrap-up that failed to move the session found it handed over or about to be.

`RecruitingProofs` proves, for any organizations, users, rows,
tabs, requests and times, `RecruitingTypeCorrect`, `SessionIsOneOrgsHolds`,
`ShownToMembersHolds`, `InviteLeadsToCallHolds` and `AnswerMatchesEffectsHolds`, from
the assumptions on constants that `Recruiting` declares.  The inductive invariant
`IInv` says what a request knows between its statements (`Found`): the job and the
candidate `Schedule` has checked are its organization's, and stay so until the insert
because no statement of anyone drops a row or moves it to another organization
(`RowsKeep`); what a list has shown only grows.  What a login has read is its
user's organization, or one left since it was read (`LoginIsDated`); so a token names
an organization its user is in, or left when the token was to live at most a lifetime
more and the time its login took (`TokenIsDated`); a request admitted with it inherits
that (`Admitted`).  `LInv` adds a
ledger for each tab (`Ledger`): nothing stored before the insert, one session after
it, and no mail with its link until its own invitation is sent.  Nobody else's mail has
that link, because the unique key keeps links apart (`LinksDiffer`), and no earlier
request of the tab is mistaken for this one (`CallsCounted`).

`InterviewerProofs` proves, for any questions, any number of frames waiting and
whatever fails, is talked over or cancelled, `InterviewerTypeCorrect`,
`ScriptIsStoredHolds`, `QuestionPendingHolds`, `AnswersFitHolds` and
`HandsOverWhenFinishedHolds`.  `Interviewer` assumes that the questions are told apart
(they are items of the plan, whatever their texts) and are no prompt of another
kind; without that an answer could not be said to fit one of two equal questions.
The
inductive invariant says that `_queue` is an end of the script
(`QueueIsLeft`), so that one number, `Upcoming`, tells what is recorded next;
`Recorded` bounds every record by it, strictly as long as no handler was cancelled
behind its `record_turn`, and has a record for everything before it, unless a tool
failed.  `Asked` ties what was spoken last to the head of the queue, across the
awaits of a handler; `InTurn` says that a candidate who waits is heard with the
prompt given last, which makes the answers fit exactly; `Behind`, that whatever was
heard, or waits to be, was an answer to a prompt not beyond the head of the queue, which
holds through talk and cancellations.  `HandingOver` says who moved the session
where: a wrap-up that moved it last has it where it has got to, whatever others did
before, and one that found nobody but the start had moved it does not leave it in
progress.

`CompactorProofs` proves, for any threshold, number of messages kept and length of the
call, `CompactorTypeCorrect`, `ContextInOrderHolds` and
`NothingForgottenWhenQuietHolds`.  What a task has cut before its request is used after
it; `CutFits` says that front, head and tail are, piece by piece, still the beginning
of the context then, and all of it if nothing was added.  So each message that
`set_messages` puts in stands for messages at one place or one stretch of the old
context, in the old order (`OrderKept`), and, undisturbed, for all of them (`Covers`),
the most recent ones untouched (`RecentLast`).  `OneTask` says that the flag is up as
long as there is a task: `_compressing` alone keeps a second one from being created.

`StartupProofs` proves, for any replicas, shells, configurations and numbers of starts,
failures and kills, `StartupTypeCorrect`, `ServesSeededGraphHolds` and
`DirtyHasACauseHolds`.  The inductive invariant says that the lock is held by exactly
the process that has files to run (`HoldsLock`), that its file is the next one and the
version that file's (`FileInOrder`: nobody else writes the tables between its
statements), that there are interviews on an incomplete schema only after a rollback
(`RowsAreOld`), and what a server has seen of the database on its way up, which
stays there unless somebody rolls back (`Loaded`).  That golang-migrate's lock
excludes, and that a file is one transaction, is what the model takes from the
library, not a result.

Only model-checked: liveness (`EveryCallAnswers`, `EveryTurnIsScored`, `ScoringEnds`,
`CallEnds`, `CompressionEnds`, `ReplicasComeUp`, `SignalledExits`), which needs
fairness and `ENABLED` and is out of the prover's reach, and the three refutations,
which are counterexamples.

## 5. What is not modelled

* Formatting, logging, metrics, health checks, CORS, validation messages, prompts,
  LLM wording, rendering and SMTP.
* The bearer check and transport of the MCP server; the password hash (a login is
  right or changes nothing).
* Time as a quantity in calls: the deadline is an event that may happen at any moment.
* Postgres beyond read committed, row locks on one key and unique keys.
* The bare `session_id` path of `session.py:44-50`, which line 56 keeps for tests: the page
  always sends the token.
* The voice framework, beyond the external actions of `Interviewer` and `PipelineEnds`.
* `migrate version`, and the seed command's lookup of an organization.
* Parts listed in `PROJECT.json` with status `not_modelled`, with the reason.

### Known disagreements

Where the code does not do what a reader may expect of it, and no run states it:

* `response_repo.go:33` reads the maximum without a lock: of two appends at the same
  time one is refused with a conflict, although its caller named no index, and the
  AI service only logs that.  The turn is lost.
* `session.py:68-70` calls a failed start recoverable; the call takes place, its
  wrap-up is illegal, and the interview is never scored.  `LiveCallIsInProgress` and
  `FinishedMeansScoring` therefore speak of starts that succeeded.
* A call whose session somebody else completes has its own "completed" refused and
  skips the hand-over to scoring: the session stays "completed" until somebody moves it
  on.  A move into "scoring" whose commit takes effect although its answer is lost starts
  no scorer either.
* A user who is seeded into another organization reads the old one's rows for the
  lifetime of a token, and longer by the time a login took that had read the row before.
* `context_compactor.py:17-18` promises a stale summary at worst; messages added
  while a summary is under way are lost.  `NothingForgottenWhenQuiet` excludes them.
* `join.Status` closes the phase in terminal states only: an interview in "completed"
  or "scoring" is joined again, and a whole new conversation is recorded in it.  Neither
  the page nor `session.py` keeps a candidate from starting before the scheduled time.
* `useCall.ts:94`: "End interview" while the microphone permission is pending does not
  cancel it; the permission then connects and the page goes live.
* `useCall.ts:95`: the page goes on showing "live" after "End interview" until
  `disconnect()` has settled.
* `Call.tsx:47` and `:58`: a failed poll, or a closed interview, covers a live call
  together with its "End" button; the call goes on behind it.
* `interviews.go:78` says that durations of zero and below get the default; only zero
  does, a negative one is refused (`Minutes`).
* `config.Validate` accepts a token lifetime that is not positive, any non-empty
  listen address, and DSNs that serve the pool but that `newMigrate` cannot use; `loadConfig` ignores a configuration file that does not exist.
* `statemachine.New` accepts a graph without transitions, as a server finds that loads
  it while a rollback runs; `ServesSeededGraph` excuses rollbacks.
* The down file of 0002 cannot succeed while there are interviews, and the version it
  leaves dirty is only left by "force".
* Two seeds of one new organization may insert it twice (`organizations.name` is not
  unique).

## 6. Plan

1. Proofs: bounds on what is left open by liveness, such as measures that every step
   of a call or of a start-up decreases, stated as action properties.
2. The transcript of a session with several visits: `Visits` composed with
   `Transcript`, to say what a second conversation leaves in the first one's turns.
3. `useCountdown` against the deadline, and the seed command's organization lookup.
4. `Observer`: which frames open and close a measured turn; `EditDistance`: the bake-off's
   word error rate against a reference definition.
