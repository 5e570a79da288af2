----------------------------- MODULE Recruiting -----------------------------
(***************************************************************************)
(* The recruiters' API: log in, keep jobs and candidates, schedule         *)
(* interviews.  handlers -> services -> repositories/postgres, behind the  *)
(* bearer token of http/middlewares, with the invitation e-mail that       *)
(* interviews.Schedule sends at its end.                                   *)
(*                                                                         *)
(* A request carries the claims of a token that was issued earlier; every  *)
(* database statement is one step, and other requests, seeds and the clock *)
(* run between them.  Scores and session states are in Scoring, Sessions.  *)
(***************************************************************************)
EXTENDS Integers, FiniteSets

CONSTANTS
  Orgs, Users,              \* organizations; e-mail addresses of accounts
  Registered,               \* the users, jobs and candidates rows there are
  FirstJobs, FirstCands,    \* at the beginning
  Clients,                  \* browser tabs recruiters work in
  JobIds, CandIds, SessIds, \* ids the database may hand out
  Links,                    \* join tokens
  Texts,                    \* job titles and candidate names that are accepted
  Addresses,                \* candidates' addresses, up to case (citext)
  Malformed,                \* a field that validation refuses
  None,                     \* no row, no token
  Asks,                     \* the requests that are made
  Ttl,                      \* lifetime of an access token
  MaxTime, MaxCalls,        \* bounds: the clock, and requests per client, who
                            \* logs in only to make one
  DbMayFail                 \* whether statements may fail or answers get lost

Absent == "absent"          \* a field the request leaves out

User == [org : Orgs, role : {"scheduler", "candidate"}]
Job == [org : Orgs, title : Texts]
Candidate == [org : Orgs, email : Addresses, name : Texts]
\* by is a history field: the request that stored the row.
Session == [org : Orgs, job : JobIds, cand : CandIds, at : Nat, minutes : 5 .. 120,
            link : Links, by : Clients \X Nat]
\* took is a history field: the time from the read of the row to the token's issue.
Claims ==
  [sub : Users, org : Orgs, role : {"scheduler", "candidate"}, exp : Nat, took : Nat]
\* What a login has read of the users row; at is a history field: when it was read.
Credentials == [sub : Users, org : Orgs, role : {"scheduler", "candidate"}, at : Nat]
Text == Texts \cup {Malformed}

\* The other field of an update: a job's description, a candidate's resume.
Rest == {"fits", Malformed, Absent}

\* Bodies and parameters of the requests, one set per kind.
JobAsks ==
  [kind : {"create job"}, title : Text]
  \cup [kind : {"update job"}, id : JobIds, title : Text \cup {Absent}, rest : Rest]
  \cup [kind : {"get job"}, id : JobIds]
CandidateAsks ==
  [kind : {"create candidate"}, name : Text, email : Addresses \cup {Malformed}]
  \cup [kind : {"update candidate"}, id : CandIds, name : Text \cup {Absent}, rest : Rest]
  \cup [kind : {"get candidate"}, id : CandIds]
InterviewAsks ==
  [kind : {"schedule"}, job : JobIds \cup {Absent}, cand : CandIds \cup {Absent},
   at : Nat, minutes : Int]
  \cup [kind : {"get interview"}, id : SessIds]
  \cup [kind : {"list interviews"}, job : JobIds \cup {Absent}]
PlainAsks == [kind : {"me", "list jobs", "list candidates"}]

ASSUME AsksAssumption ==
  \A ask \in Asks :
    ask \in JobAsks \/ ask \in CandidateAsks \/ ask \in InterviewAsks \/ ask \in PlainAsks
ASSUME RowsAssumption ==
  /\ Registered \in [Users -> User \cup {None}]
  /\ FirstJobs \in [JobIds -> Job \cup {None}]
  /\ FirstCands \in [CandIds -> Candidate \cup {None}]
ASSUME NoneAssumption ==
  None \notin User \cup Job \cup Candidate \cup Session \cup Claims \cup Credentials
ASSUME MalformedAssumption == {Malformed, Absent} \cap (Texts \cup Addresses) = {}
ASSUME ClockAssumption == Ttl \in Nat /\ MaxTime \in Nat /\ MaxCalls \in Nat
ASSUME DbMayFailAssumption == DbMayFail \in BOOLEAN

VARIABLES
  now,      \* the clock
  users,    \* users rows
  was,      \* history: organizations a user has left, and when
  login,    \* the row each client's login has read, until it is answered
  token,    \* the access token each client holds
  jobs, cands, sessions,  \* rows
  mails,    \* invitations that reached the mail server
  calls,    \* requests each client has made
  req       \* the request each client has under way, or its answer

rows == <<jobs, cands, sessions>>
vars == <<now, users, was, login, token, jobs, cands, sessions, mails, calls, req>>

Mail == [to : Addresses, title : Texts, link : Links, at : Nat]

Stored(table, id) == table[id] # None
\* A tab waits for its answers.
Idle(c) == req[c].pc \in {"idle", "answered"} /\ login[c] = None
Doing(c, kind) == req[c].pc = "admitted" /\ req[c].ask.kind = kind

Init ==
  /\ now = 0
  /\ users = Registered
  /\ was = [u \in Users |-> {}]
  /\ login = [c \in Clients |-> None]
  /\ token = [c \in Clients |-> None]
  /\ jobs = FirstJobs
  /\ cands = FirstCands
  /\ sessions = [s \in SessIds |-> None]
  /\ mails = {}
  /\ calls = [c \in Clients |-> 0]
  /\ req = [c \in Clients |-> [pc |-> "idle"]]

Tick ==
  /\ now < MaxTime
  /\ now' = now + 1
  /\ UNCHANGED <<users, was, login, token, rows, mails, calls, req>>

-----------------------------------------------------------------------------
\* Accounts, tokens and admission

\* UserRepo.Upsert by the seed command.  A user who is there already is moved
\* to the named organization; tokens that name the old one stay out there.
Upsert(u, o) ==
  /\ users' = [users EXCEPT ![u] = [org |-> o, role |-> "scheduler"]]
  /\ was' = IF Stored(users, u) /\ users[u].org # o
            THEN [was EXCEPT ![u] = @ \cup {[org |-> users[u].org, until |-> now]}]
            ELSE was
  /\ UNCHANGED <<now, login, token, rows, mails, calls, req>>

\* POST /auth/login reads the users row.  An unknown user, a wrong password and a
\* failing database change nothing.
FindByEmail(c, u) ==
  /\ Idle(c) /\ calls[c] < MaxCalls
  /\ Stored(users, u)
  /\ login' = [login EXCEPT ![c] =
       [sub |-> u, org |-> users[u].org, role |-> users[u].role, at |-> now]]
  /\ UNCHANGED <<now, users, was, token, rows, mails, calls, req>>

\* JWT.Issue: the claims are copied from what was read and hold for Ttl from now.
Claim(found) ==
  [sub |-> found.sub, org |-> found.org, role |-> found.role, exp |-> now + Ttl,
   took |-> now - found.at]

\* The password has been verified, which takes its time, and the token is issued.
Issue(c) ==
  /\ login[c] # None
  /\ login' = [login EXCEPT ![c] = None]
  /\ token' = [token EXCEPT ![c] = Claim(login[c])]
  /\ UNCHANGED <<now, users, was, rows, mails, calls, req>>

\* Seeded fault: the token is decoded and its expiry is not looked at.
ParseUnverified(t) == t # None

\* JWT.Parse: there is a token, and it has not expired.
Parse(t) == t # None /\ now < t.exp

\* The routes that RequireRole guards: all but GET /auth/me.
ForSchedulers(ask) == ask.kind # "me"

\* RequireRole(scheduler).
HasRole(claims) == claims.role = "scheduler"

\* RespondError: the status an error kind is answered with.
RespondError(kind) ==
  CASE kind = "not found" -> 404
    [] kind = "conflict" -> 409
    [] kind = "invalid" -> 400
    [] kind = "expectation failed" -> 417
    [] kind = "unauthorized" -> 401
    [] kind = "forbidden" -> 403
    [] OTHER -> 500

\* toHandlerFunc: a handler returns a body and a status, or an error.
Answer(c, status, shows) ==
  req' = [req EXCEPT ![c].pc = "answered", ![c].status = status, ![c].shows = shows]

Refuse(c, kind) == Answer(c, RespondError(kind), {})

\* An error of the database reaches the client as an internal error.
DbError(c) == DbMayFail /\ Refuse(c, "internal")

\* A request in which RequireAuth has put the user and the organization of the
\* claims; sess, title and to are what interviews.Schedule finds out later.  since
\* and took are history: when it arrived, and how long its token's login took.
Begun(pc, ask, claims, status) ==
  [pc |-> pc, ask |-> ask, user |-> claims.sub, org |-> claims.org, since |-> now,
   took |-> claims.took, status |-> status, shows |-> {}, sess |-> None,
   title |-> None, to |-> None]

Nobody == [sub |-> None, org |-> None, took |-> 0]

\* A request arrives and meets RequireAuth, then RequireRole.  GET /auth/me
\* answers with the claims themselves.
Request(c, ask) ==
  LET t == token[c]
      begin(pc, claims, status) == req' = [req EXCEPT ![c] = Begun(pc, ask, claims, status)]
  IN
  /\ Idle(c)
  /\ calls[c] < MaxCalls
  /\ calls' = [calls EXCEPT ![c] = @ + 1]
  /\ \/ ~Parse(t) /\ begin("answered", Nobody, RespondError("unauthorized"))
     \/ Parse(t) /\ ~ForSchedulers(ask) /\ begin("answered", t, 200)
     \/ /\ Parse(t) /\ ForSchedulers(ask)
        /\ \/ ~HasRole(t) /\ begin("answered", t, RespondError("forbidden"))
           \/ HasRole(t) /\ begin("admitted", t, 0)
  /\ UNCHANGED <<now, users, was, login, token, rows, mails>>

-----------------------------------------------------------------------------
\* Jobs

\* What Service.Create and Service.Update of jobs accept.
ValidJob(ask) == ask.title \in Texts
ValidJobChange(ask) ==
  /\ ask.title # Absent \/ ask.rest # Absent
  /\ Malformed \notin {ask.title, ask.rest}

\* SQL's COALESCE: a field left out keeps what is stored.
Coalesce(new, old) == IF new = Absent THEN old ELSE new

\* WHERE org_id = $1 AND id = $2.
JobInOrg(o, j) == Stored(jobs, j) /\ jobs[j].org = o

\* JobRepo.Create.
InsertJob(c, j) ==
  /\ ~Stored(jobs, j)
  /\ jobs' = [jobs EXCEPT ![j] = [org |-> req[c].org, title |-> req[c].ask.title]]

\* JobRepo.Update.
UpdateJobRow(c) ==
  LET ask == req[c].ask IN
  jobs' = [jobs EXCEPT ![ask.id].title = Coalesce(ask.title, @)]

\* JobRepo.ListByOrg.
JobsByOrg(o) == {j \in JobIds : Stored(jobs, j) /\ jobs[j].org = o}

\* POST /jobs.  The answer may be lost after the row was stored.
CreateJob(c) ==
  /\ Doing(c, "create job")
  /\ \/ ~ValidJob(req[c].ask) /\ Refuse(c, "invalid") /\ UNCHANGED jobs
     \/ ValidJob(req[c].ask) /\ DbError(c) /\ UNCHANGED jobs
     \/ /\ ValidJob(req[c].ask)
        /\ \E j \in JobIds :
             /\ InsertJob(c, j)
             /\ \/ DbError(c)
                \/ Answer(c, 201, {j})
  /\ UNCHANGED <<now, users, was, login, token, cands, sessions, mails, calls>>

\* PATCH /jobs/{id}.
UpdateJob(c) ==
  LET ask == req[c].ask IN
  /\ Doing(c, "update job")
  /\ \/ ~ValidJobChange(ask) /\ Refuse(c, "invalid") /\ UNCHANGED jobs
     \/ ValidJobChange(ask) /\ DbError(c) /\ UNCHANGED jobs
     \/ ValidJobChange(ask) /\ ~JobInOrg(req[c].org, ask.id) /\ Refuse(c, "not found")
        /\ UNCHANGED jobs
     \/ /\ ValidJobChange(ask) /\ JobInOrg(req[c].org, ask.id)
        /\ UpdateJobRow(c)
        /\ \/ DbError(c)
           \/ Answer(c, 200, {ask.id})
  /\ UNCHANGED <<now, users, was, login, token, cands, sessions, mails, calls>>

\* GET /jobs/{id}.
GetJob(c) ==
  LET j == req[c].ask.id IN
  /\ Doing(c, "get job")
  /\ \/ DbError(c)
     \/ ~JobInOrg(req[c].org, j) /\ Refuse(c, "not found")
     \/ JobInOrg(req[c].org, j) /\ Answer(c, 200, {j})
  /\ UNCHANGED <<now, users, was, login, token, rows, mails, calls>>

\* GET /jobs.
ListJobs(c) ==
  /\ Doing(c, "list jobs")
  /\ \/ DbError(c)
     \/ Answer(c, 200, JobsByOrg(req[c].org))
  /\ UNCHANGED <<now, users, was, login, token, rows, mails, calls>>

-----------------------------------------------------------------------------
\* Candidates

\* What Service.Create and Service.Update of candidates accept.
ValidCandidate(ask) == ask.email \in Addresses /\ ask.name \in Texts
ValidCandidateChange(ask) ==
  /\ ask.name # Absent \/ ask.rest # Absent
  /\ Malformed \notin {ask.name, ask.rest}

\* WHERE org_id = $1 AND id = $2.
CandInOrg(o, d) == Stored(cands, d) /\ cands[d].org = o

\* UNIQUE (org_id, email).
Taken(o, email) == \E d \in CandIds : CandInOrg(o, d) /\ cands[d].email = email

\* CandidateRepo.Create.
InsertCandidate(c, d) ==
  /\ ~Stored(cands, d)
  /\ cands' = [cands EXCEPT ![d] =
       [org |-> req[c].org, email |-> req[c].ask.email, name |-> req[c].ask.name]]

\* Seeded fault: the update takes a new address along.
UpdateWithAddress(c) ==
  \E a \in Addresses :
    cands' = [cands EXCEPT ![req[c].ask.id].name = Coalesce(req[c].ask.name, @),
                           ![req[c].ask.id].email = a]

\* CandidateRepo.Update: the address is not among the columns it sets.
UpdateCandidateRow(c) ==
  LET ask == req[c].ask IN
  cands' = [cands EXCEPT ![ask.id].name = Coalesce(ask.name, @)]

\* CandidateRepo.ListByOrg.
CandidatesByOrg(o) == {d \in CandIds : Stored(cands, d) /\ cands[d].org = o}

\* POST /candidates.
CreateCandidate(c) ==
  LET ask == req[c].ask IN
  /\ Doing(c, "create candidate")
  /\ \/ ~ValidCandidate(ask) /\ Refuse(c, "invalid") /\ UNCHANGED cands
     \/ ValidCandidate(ask) /\ DbError(c) /\ UNCHANGED cands
     \/ ValidCandidate(ask) /\ Taken(req[c].org, ask.email) /\ Refuse(c, "conflict")
        /\ UNCHANGED cands
     \/ /\ ValidCandidate(ask) /\ ~Taken(req[c].org, ask.email)
        /\ \E d \in CandIds :
             /\ InsertCandidate(c, d)
             /\ \/ DbError(c)
                \/ Answer(c, 201, {d})
  /\ UNCHANGED <<now, users, was, login, token, jobs, sessions, mails, calls>>

\* PATCH /candidates/{id}.
UpdateCandidate(c) ==
  LET ask == req[c].ask IN
  /\ Doing(c, "update candidate")
  /\ \/ ~ValidCandidateChange(ask) /\ Refuse(c, "invalid") /\ UNCHANGED cands
     \/ ValidCandidateChange(ask) /\ DbError(c) /\ UNCHANGED cands
     \/ ValidCandidateChange(ask) /\ ~CandInOrg(req[c].org, ask.id)
        /\ Refuse(c, "not found") /\ UNCHANGED cands
     \/ /\ ValidCandidateChange(ask) /\ CandInOrg(req[c].org, ask.id)
        /\ UpdateCandidateRow(c)
        /\ \/ DbError(c)
           \/ Answer(c, 200, {ask.id})
  /\ UNCHANGED <<now, users, was, login, token, jobs, sessions, mails, calls>>

\* GET /candidates/{id}.
GetCandidate(c) ==
  LET d == req[c].ask.id IN
  /\ Doing(c, "get candidate")
  /\ \/ DbError(c)
     \/ ~CandInOrg(req[c].org, d) /\ Refuse(c, "not found")
     \/ CandInOrg(req[c].org, d) /\ Answer(c, 200, {d})
  /\ UNCHANGED <<now, users, was, login, token, rows, mails, calls>>

\* GET /candidates.
ListCandidates(c) ==
  /\ Doing(c, "list candidates")
  /\ \/ DbError(c)
     \/ Answer(c, 200, CandidatesByOrg(req[c].org))
  /\ UNCHANGED <<now, users, was, login, token, rows, mails, calls>>

-----------------------------------------------------------------------------
\* Interviews

DefaultDurationMinutes == 30

\* Zero, or a field left out, means the default.
Minutes(ask) == IF ask.minutes = 0 THEN DefaultDurationMinutes ELSE ask.minutes

\* What Service.Schedule accepts before it asks the database.
ValidSchedule(ask) ==
  /\ ask.job # Absent /\ ask.cand # Absent
  /\ ask.at > now
  /\ Minutes(ask) \in 5 .. 120

GoTo(c, pc) == req' = [req EXCEPT ![c].pc = pc]

\* JobRepo.ExistsInOrg.
JobExistsInOrg(o, j) == Stored(jobs, j) /\ jobs[j].org = o

\* Seeded fault: the candidate is looked for in every organization.
CandidateAnywhere(o, d) == Stored(cands, d)

\* CandidateRepo.ExistsInOrg.
CandidateExistsInOrg(o, d) == Stored(cands, d) /\ cands[d].org = o

\* POST /interviews: the body is validated and the job looked for.
CheckJob(c) ==
  LET ask == req[c].ask IN
  /\ Doing(c, "schedule")
  /\ \/ ~ValidSchedule(ask) /\ Refuse(c, "invalid")
     \/ ValidSchedule(ask) /\ DbError(c)
     \/ ValidSchedule(ask) /\ ~JobExistsInOrg(req[c].org, ask.job) /\ Refuse(c, "not found")
     \/ ValidSchedule(ask) /\ JobExistsInOrg(req[c].org, ask.job) /\ GoTo(c, "job found")
  /\ UNCHANGED <<now, users, was, login, token, rows, mails, calls>>

\* The candidate is looked for.
CheckCandidate(c) ==
  LET there == CandidateExistsInOrg(req[c].org, req[c].ask.cand) IN
  /\ req[c].pc = "job found"
  /\ \/ DbError(c)
     \/ ~there /\ Refuse(c, "not found")
     \/ there /\ GoTo(c, "both found")
  /\ UNCHANGED <<now, users, was, login, token, rows, mails, calls>>

\* UNIQUE (join_token): a link that is drawn twice is refused.
Used(link) == \E s \in SessIds : Stored(sessions, s) /\ sessions[s].link = link

\* InterviewRepo.Schedule with the token NewJoinToken drew.  The answer may be
\* lost after the row was stored.
InsertSession(c, s, link) ==
  LET ask == req[c].ask IN
  /\ req[c].pc = "both found"
  /\ \/ DbError(c) /\ UNCHANGED sessions
     \/ Used(link) /\ Refuse(c, "internal") /\ UNCHANGED sessions
     \/ /\ ~Used(link) /\ ~Stored(sessions, s)
        /\ sessions' = [sessions EXCEPT ![s] =
             [org |-> req[c].org, job |-> ask.job, cand |-> ask.cand, at |-> ask.at,
              minutes |-> Minutes(ask), link |-> link, by |-> <<c, calls[c]>>]]
        /\ \/ DbError(c)
           \/ req' = [req EXCEPT ![c].pc = "stored", ![c].sess = s]
  /\ UNCHANGED <<now, users, was, login, token, jobs, cands, mails, calls>>

\* Service.Schedule reads the detail back: the job's title of this moment.
Reload(c) ==
  /\ req[c].pc = "stored"
  /\ \/ DbError(c)
     \/ req' = [req EXCEPT ![c].pc = "loaded",
                           ![c].title = jobs[sessions[req[c].sess].job].title]
  /\ UNCHANGED <<now, users, was, login, token, rows, mails, calls>>

\* Seeded fault: an error of the mail server becomes the request's error.
ScheduledIfMailed(c) == DbError(c) \/ Answer(c, 201, {req[c].sess})

\* Schedule answers with what it reloaded, whatever became of the invitation.
Scheduled(c) == Answer(c, 201, {req[c].sess})

\* sendInvite looks the address up; if it cannot, there is no invitation.
LookUpCandidate(c) ==
  /\ req[c].pc = "loaded"
  /\ \/ DbMayFail /\ Scheduled(c)
     \/ req' = [req EXCEPT ![c].pc = "addressed", ![c].to = cands[req[c].ask.cand].email]
  /\ UNCHANGED <<now, users, was, login, token, rows, mails, calls>>

\* InviteEmail, with the join URL of the session just stored.
InviteEmail(c) ==
  [to |-> req[c].to, title |-> req[c].title, link |-> sessions[req[c].sess].link,
   at |-> req[c].ask.at]

\* sendInvite hands the invitation over; Send may fail, before or after the
\* mail server took the message, and its error is only logged.
SendInvite(c) ==
  /\ req[c].pc = "addressed"
  /\ mails' \in {mails, mails \cup {InviteEmail(c)}}
  /\ Scheduled(c)
  /\ UNCHANGED <<now, users, was, login, token, rows, calls>>

\* InterviewRepo.Get.
FindSession(o, s) == Stored(sessions, s) /\ sessions[s].org = o

\* GET /interviews/{id}.
GetInterview(c) ==
  LET s == req[c].ask.id IN
  /\ Doing(c, "get interview")
  /\ \/ DbError(c)
     \/ ~FindSession(req[c].org, s) /\ Refuse(c, "not found")
     \/ FindSession(req[c].org, s) /\ Answer(c, 200, {s})
  /\ UNCHANGED <<now, users, was, login, token, rows, mails, calls>>

\* InterviewRepo.List: the organization's sessions that pass the filter.
Listed(o, job) ==
  {s \in SessIds :
     Stored(sessions, s) /\ sessions[s].org = o /\ (job = Absent \/ sessions[s].job = job)}

\* GET /interviews.
ListInterviews(c) ==
  /\ Doing(c, "list interviews")
  /\ \/ DbError(c)
     \/ Answer(c, 200, Listed(req[c].org, req[c].ask.job))
  /\ UNCHANGED <<now, users, was, login, token, rows, mails, calls>>

-----------------------------------------------------------------------------
JobStep(c) == CreateJob(c) \/ UpdateJob(c) \/ GetJob(c) \/ ListJobs(c)

CandidateStep(c) ==
  CreateCandidate(c) \/ UpdateCandidate(c) \/ GetCandidate(c) \/ ListCandidates(c)

InterviewStep(c) ==
  \/ CheckJob(c) \/ CheckCandidate(c)
  \/ \E s \in SessIds, link \in Links : InsertSession(c, s, link)
  \/ Reload(c) \/ LookUpCandidate(c) \/ SendInvite(c)
  \/ GetInterview(c) \/ ListInterviews(c)

Next ==
  \/ Tick
  \/ \E u \in Users, o \in Orgs : Upsert(u, o)
  \/ \E c \in Clients : Issue(c) \/ \E u \in Users : FindByEmail(c, u)
  \/ \E c \in Clients, ask \in Asks : Request(c, ask)
  \/ \E c \in Clients : JobStep(c) \/ CandidateStep(c) \/ InterviewStep(c)

Spec == Init /\ [][Next]_vars
-----------------------------------------------------------------------------
Ids == JobIds \cup CandIds \cup SessIds
Statuses == {0, 200, 201, 400, 401, 403, 404, 409, 417, 500}

\* A request that was made, as far as it has got.
Req ==
  [pc : {"answered", "admitted", "job found", "both found", "stored", "loaded", "addressed"},
   ask : Asks, user : Users \cup {None}, org : Orgs \cup {None}, since : Nat,
   took : Nat, status : Statuses, shows : SUBSET Ids, sess : SessIds \cup {None},
   title : Texts \cup {None}, to : Addresses \cup {None}]

\* Types of the rows, tokens and requests: among them, that a stored interview
\* lasts 5 to 120 minutes and no malformed field was ever stored.
TypeOK ==
  /\ now \in Nat
  /\ users \in [Users -> User \cup {None}]
  /\ was \in [Users -> SUBSET [org : Orgs, until : Nat]]
  /\ login \in [Clients -> Credentials \cup {None}]
  /\ token \in [Clients -> Claims \cup {None}]
  /\ jobs \in [JobIds -> Job \cup {None}]
  /\ cands \in [CandIds -> Candidate \cup {None}]
  /\ sessions \in [SessIds -> Session \cup {None}]
  /\ mails \subseteq Mail
  /\ calls \in [Clients -> Nat]
  /\ req \in [Clients -> {[pc |-> "idle"]} \cup Req]

\* An interview, its job and its candidate are one organization's.  The foreign
\* keys of interview_sessions do not say so: Schedule looks at the two rows in
\* statements of their own, and only then inserts.
SessionIsOneOrgs ==
  \A s \in SessIds :
    Stored(sessions, s) =>
      /\ JobInOrg(sessions[s].org, sessions[s].job)
      /\ CandInOrg(sessions[s].org, sessions[s].cand)

\* Every invitation that went out leads its candidate to the call: the link
\* opens exactly one interview, which is the addressee's and at the time the
\* message states, however many requests and updates ran in between.
InviteLeadsToCall ==
  \A m \in mails :
    \E s \in SessIds :
      /\ Stored(sessions, s)
      /\ sessions[s].at = m.at
      /\ cands[sessions[s].cand].email = m.to
      /\ {x \in SessIds : Stored(sessions, x) /\ sessions[x].link = m.link} = {s}

\* The session the request of c stored.
StoredBy(c) == {s \in SessIds : Stored(sessions, s) /\ sessions[s].by = <<c, calls[c]>>}

\* What the answer to POST /interviews lets the recruiter conclude: 201 means
\* one new interview, the one shown; a refusal means none; after an internal
\* error there may be one, but its candidate was not invited.
AnswerMatchesEffects ==
  \A c \in Clients :
    req[c].pc = "answered" /\ req[c].ask.kind = "schedule" =>
      CASE req[c].status = 201 -> Cardinality(req[c].shows) = 1 /\ StoredBy(c) = req[c].shows
        [] req[c].status = 500 ->
             \A s \in StoredBy(c), m \in mails : m.link # sessions[s].link
        [] OTHER -> StoredBy(c) = {}

\* The rows an answer may show to an organization.
OwnRows(o, kind) ==
  CASE kind \in {"create job", "update job", "get job", "list jobs"} -> JobsByOrg(o)
    [] kind \in {"create candidate", "update candidate", "get candidate", "list candidates"}
         -> CandidatesByOrg(o)
    [] kind \in {"schedule", "get interview", "list interviews"} -> Listed(o, Absent)
    [] OTHER -> {}

\* Rows are shown to the organization that owns them, and to a user who is in
\* it, or who was when less than a token's lifetime before the request: a
\* re-seed that moves a user to another organization takes that long to bite,
\* and longer by what a login took that had read the row before.
ShownToMembers ==
  \A c \in Clients :
    req[c].pc = "answered" /\ req[c].shows # {} =>
      LET r == req[c] IN
      /\ r.shows \subseteq OwnRows(r.org, r.ask.kind)
      /\ \/ users[r.user].org = r.org
         \/ \E w \in was[r.user] : w.org = r.org /\ r.since < w.until + Ttl + r.took
=============================================================================
