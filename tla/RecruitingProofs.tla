-------------------------- MODULE RecruitingProofs --------------------------
(***************************************************************************)
(* Theorems about Recruiting, for any organizations, users, rows, requests *)
(* and times.                                                              *)
(*                                                                         *)
(* The inductive invariant IInv says what a request knows between its      *)
(* statements.  interviews.Schedule checks a job, then a candidate, and    *)
(* inserts later: what it has found out (Found) stays true because no      *)
(* statement of anyone removes a row or moves it to another organization   *)
(* (RowsKeep).  A token outlives its user's membership by at most its      *)
(* lifetime and the time its login took (LoginIsDated, TokenIsDated),      *)
(* which is what admits a request (Admitted).                              *)
(*                                                                         *)
(* The second part is about what POST /interviews leaves behind: what an   *)
(* invitation leads to, and what an answer says.  The inductive invariant  *)
(* LInv keeps a ledger per client.  A request that has not inserted has    *)
(* stored nothing, one that has inserted has stored one session, whose     *)
(* link is in no mail until its own invitation is sent (Ledger).  Links    *)
(* differ because the unique key refuses a second one (LinksDiffer), so    *)
(* that nobody else's mail carries the link either.                        *)
(***************************************************************************)
EXTENDS Recruiting, FiniteSetTheorems, TLAPS

\* What stays of a request while it is worked on.
SameRequest(r, new) ==
  /\ new \in Req
  /\ new.ask = r.ask /\ new.user = r.user /\ new.org = r.org /\ new.since = r.since
  /\ new.took = r.took

\* The requests of the other clients stay as they are.
OthersKept(c) ==
  /\ req' \in [Clients -> {[pc |-> "idle"]} \cup Req]
  /\ \A d \in Clients \ {c} : req'[d] = req[d]
-----------------------------------------------------------------------------
(* Requests *)

\* A client that is not idle has a request.
LEMMA Underway ==
  ASSUME TypeOK, NEW c \in Clients, req[c].pc # "idle"
  PROVE  req[c] \in Req
<1>1. req[c] \in {[pc |-> "idle"]} \cup Req
  BY DEF TypeOK
<1>2. req[c] # [pc |-> "idle"]
  OBVIOUS
<1> QED BY <1>1, <1>2

\* The fields of a request.
LEMMA ReqFields ==
  ASSUME NEW r \in Req
  PROVE  /\ r.ask \in Asks /\ r.user \in Users \cup {None} /\ r.org \in Orgs \cup {None}
         /\ r.since \in Nat /\ r.took \in Nat /\ r.status \in Statuses /\ r.shows \in SUBSET Ids
         /\ r.sess \in SessIds \cup {None} /\ r.title \in Texts \cup {None}
         /\ r.to \in Addresses \cup {None}
  BY DEF Req

\* The bodies by their kinds.
LEMMA AskFields ==
  ASSUME NEW ask \in Asks
  PROVE  /\ ask.kind = "create job" => ask.title \in Text
         /\ ask.kind = "update job" => ask.id \in JobIds /\ ask.title \in Text \cup {Absent}
         /\ ask.kind = "get job" => ask.id \in JobIds
         /\ ask.kind = "create candidate" =>
              ask.name \in Text /\ ask.email \in Addresses \cup {Malformed}
         /\ ask.kind = "update candidate" => ask.id \in CandIds /\ ask.name \in Text \cup {Absent}
         /\ ask.kind = "get candidate" => ask.id \in CandIds
         /\ ask.kind = "schedule" =>
              /\ ask.job \in JobIds \cup {Absent} /\ ask.cand \in CandIds \cup {Absent}
              /\ ask.at \in Nat /\ ask.minutes \in Int
         /\ ask.kind = "get interview" => ask.id \in SessIds
         /\ ask.kind = "list interviews" => ask.job \in JobIds \cup {Absent}
<1>1. CASE ask \in JobAsks
  BY <1>1 DEF JobAsks
<1>2. CASE ask \in CandidateAsks
  BY <1>2 DEF CandidateAsks
<1>3. CASE ask \in InterviewAsks
  BY <1>3 DEF InterviewAsks
<1>4. CASE ask \in PlainAsks
  BY <1>4 DEF PlainAsks
<1> QED BY <1>1, <1>2, <1>3, <1>4, AsksAssumption

\* An answer ends a request and leaves the rest of it.
LEMMA AnswerTyped ==
  ASSUME TypeOK, NEW c \in Clients, req[c] \in Req,
         NEW status \in Statuses, NEW shows \in SUBSET Ids, Answer(c, status, shows)
  PROVE  /\ OthersKept(c) /\ SameRequest(req[c], req'[c])
         /\ req'[c].pc = "answered" /\ req'[c].status = status /\ req'[c].shows = shows
<1> DEFINE r == [req[c] EXCEPT !.pc = "answered", !.status = status, !.shows = shows]
<1>1. req' = [req EXCEPT ![c] = r]
  BY DEF Answer, TypeOK
<1>2. r \in Req
  BY DEF Req
<1>3. /\ r.ask = req[c].ask /\ r.user = req[c].user /\ r.org = req[c].org
      /\ r.since = req[c].since /\ r.took = req[c].took
  BY DEF Req
<1>4. r.pc = "answered" /\ r.status = status /\ r.shows = shows
  BY DEF Req
<1> HIDE DEF r
<1>5. req'[c] = r /\ OthersKept(c)
  BY <1>1, <1>2 DEF OthersKept, TypeOK
<1> QED BY <1>2, <1>3, <1>4, <1>5 DEF SameRequest

\* So does a refusal, which shows nothing.
LEMMA RefuseTyped ==
  ASSUME TypeOK, NEW c \in Clients, req[c] \in Req, NEW kind, Refuse(c, kind)
  PROVE  /\ OthersKept(c) /\ SameRequest(req[c], req'[c])
         /\ req'[c].pc = "answered" /\ req'[c].status = RespondError(kind)
         /\ req'[c].shows = {}
         /\ RespondError(kind) \in Statuses \ {0, 200, 201}
<1>1. RespondError(kind) \in Statuses \ {0, 200, 201}
  BY DEF RespondError, Statuses
<1>2. {} \in SUBSET Ids
  OBVIOUS
<1> QED BY <1>1, <1>2, AnswerTyped DEF Refuse

\* An error of the database is a refusal.
LEMMA DbErrorTyped ==
  ASSUME TypeOK, NEW c \in Clients, req[c] \in Req, DbError(c)
  PROVE  /\ OthersKept(c) /\ SameRequest(req[c], req'[c])
         /\ req'[c].pc = "answered" /\ req'[c].status = 500 /\ req'[c].shows = {}
<1>1. Refuse(c, "internal")
  BY DEF DbError
<1>2. RespondError("internal") = 500
  BY DEF RespondError
<1> QED BY <1>1, <1>2, RefuseTyped

\* Where a request stands on its way.
Waypoints == {"admitted", "job found", "both found", "stored", "loaded", "addressed"}

\* A request goes on with what it knows.
LEMMA GoToTyped ==
  ASSUME TypeOK, NEW c \in Clients, req[c] \in Req, NEW pc \in Waypoints, GoTo(c, pc)
  PROVE  /\ OthersKept(c) /\ SameRequest(req[c], req'[c]) /\ req'[c].pc = pc
<1> DEFINE r == [req[c] EXCEPT !.pc = pc]
<1>1. req' = [req EXCEPT ![c] = r]
  BY DEF GoTo, TypeOK
<1>2. r \in Req
  BY DEF Req, Waypoints
<1>3. /\ r.ask = req[c].ask /\ r.user = req[c].user /\ r.org = req[c].org
      /\ r.since = req[c].since /\ r.took = req[c].took
  BY DEF Req
<1>4. r.pc = pc
  BY DEF Req
<1> HIDE DEF r
<1>5. req'[c] = r /\ OthersKept(c)
  BY <1>1, <1>2 DEF OthersKept, TypeOK
<1> QED BY <1>2, <1>3, <1>4, <1>5 DEF SameRequest

\* It remembers the session it stored.
LEMMA StoredTyped ==
  ASSUME TypeOK, NEW c \in Clients, req[c] \in Req, NEW s \in SessIds,
         req' = [req EXCEPT ![c].pc = "stored", ![c].sess = s]
  PROVE  /\ OthersKept(c) /\ SameRequest(req[c], req'[c])
         /\ req'[c].pc = "stored" /\ req'[c].sess = s
<1> DEFINE r == [req[c] EXCEPT !.pc = "stored", !.sess = s]
<1>1. req' = [req EXCEPT ![c] = r]
  BY DEF TypeOK
<1>2. r \in Req
  BY DEF Req
<1>3. /\ r.ask = req[c].ask /\ r.user = req[c].user /\ r.org = req[c].org
      /\ r.since = req[c].since /\ r.took = req[c].took
  BY DEF Req
<1>4. r.pc = "stored" /\ r.sess = s
  BY DEF Req
<1> HIDE DEF r
<1>5. req'[c] = r /\ OthersKept(c)
  BY <1>1, <1>2 DEF OthersKept, TypeOK
<1> QED BY <1>2, <1>3, <1>4, <1>5 DEF SameRequest

\* It remembers the job's title.
LEMMA LoadedTyped ==
  ASSUME TypeOK, NEW c \in Clients, req[c] \in Req, NEW title \in Texts,
         req' = [req EXCEPT ![c].pc = "loaded", ![c].title = title]
  PROVE  /\ OthersKept(c) /\ SameRequest(req[c], req'[c])
         /\ req'[c].pc = "loaded" /\ req'[c].title = title /\ req'[c].sess = req[c].sess
<1> DEFINE r == [req[c] EXCEPT !.pc = "loaded", !.title = title]
<1>1. req' = [req EXCEPT ![c] = r]
  BY DEF TypeOK
<1>2. r \in Req
  BY DEF Req
<1>3. /\ r.ask = req[c].ask /\ r.user = req[c].user /\ r.org = req[c].org
      /\ r.since = req[c].since /\ r.took = req[c].took
  BY DEF Req
<1>4. r.pc = "loaded" /\ r.title = title /\ r.sess = req[c].sess
  BY DEF Req
<1> HIDE DEF r
<1>5. req'[c] = r /\ OthersKept(c)
  BY <1>1, <1>2 DEF OthersKept, TypeOK
<1> QED BY <1>2, <1>3, <1>4, <1>5 DEF SameRequest

\* It remembers the candidate's address.
LEMMA AddressedTyped ==
  ASSUME TypeOK, NEW c \in Clients, req[c] \in Req, NEW to \in Addresses,
         req' = [req EXCEPT ![c].pc = "addressed", ![c].to = to]
  PROVE  /\ OthersKept(c) /\ SameRequest(req[c], req'[c])
         /\ req'[c].pc = "addressed" /\ req'[c].to = to
         /\ req'[c].sess = req[c].sess /\ req'[c].title = req[c].title
<1> DEFINE r == [req[c] EXCEPT !.pc = "addressed", !.to = to]
<1>1. req' = [req EXCEPT ![c] = r]
  BY DEF TypeOK
<1>2. r \in Req
  BY DEF Req
<1>3. /\ r.ask = req[c].ask /\ r.user = req[c].user /\ r.org = req[c].org
      /\ r.since = req[c].since /\ r.took = req[c].took
  BY DEF Req
<1>4. r.pc = "addressed" /\ r.to = to /\ r.sess = req[c].sess /\ r.title = req[c].title
  BY DEF Req
<1> HIDE DEF r
<1>5. req'[c] = r /\ OthersKept(c)
  BY <1>1, <1>2 DEF OthersKept, TypeOK
<1> QED BY <1>2, <1>3, <1>4, <1>5 DEF SameRequest
-----------------------------------------------------------------------------
(* The inductive invariant *)

\* What interviews.Schedule has found out when it has got so far.
Found(c) ==
  LET r == req[c] IN
  /\ r.pc \in Waypoints => r.user \in Users /\ r.org \in Orgs
  /\ r.pc \in Waypoints \ {"admitted"} =>
       /\ r.ask.kind = "schedule" /\ Minutes(r.ask) \in 5 .. 120
       /\ r.ask.job \in JobIds /\ JobInOrg(r.org, r.ask.job)
       /\ r.ask.cand \in CandIds
  /\ r.pc \in Waypoints \ {"admitted", "job found"} => CandInOrg(r.org, r.ask.cand)
  /\ r.pc \in {"stored", "loaded", "addressed"} =>
       /\ r.sess \in SessIds /\ Stored(sessions, r.sess)
       /\ sessions[r.sess].org = r.org
       /\ sessions[r.sess].job = r.ask.job /\ sessions[r.sess].cand = r.ask.cand
       /\ sessions[r.sess].at = r.ask.at /\ sessions[r.sess].by = <<c, calls[c]>>
  /\ r.pc \in {"loaded", "addressed"} => r.title \in Texts
  /\ r.pc = "addressed" => r.to = cands[r.ask.cand].email

\* An answer shows rows of the organization it was admitted for.
Shown(c) ==
  req[c].pc = "answered" => req[c].shows \subseteq OwnRows(req[c].org, req[c].ask.kind)

\* Rows stay, and stay their organization's; addresses and interviews stay as
\* they are.
RowsKeep ==
  /\ \A j \in JobIds : Stored(jobs, j) => Stored(jobs', j) /\ jobs'[j].org = jobs[j].org
  /\ \A d \in CandIds : Stored(cands, d) =>
       /\ Stored(cands', d)
       /\ cands'[d].org = cands[d].org /\ cands'[d].email = cands[d].email
  /\ \A s \in SessIds : Stored(sessions, s) => sessions'[s] = sessions[s]

\* TypeOK's part about the tables and the mails.
RowsTyped ==
  /\ jobs \in [JobIds -> Job \cup {None}]
  /\ cands \in [CandIds -> Candidate \cup {None}]
  /\ sessions \in [SessIds -> Session \cup {None}]
  /\ mails \subseteq Mail

\* What a step of c's request does.
Effect(c) ==
  /\ UNCHANGED <<now, users, was, login, token, calls>>
  /\ OthersKept(c) /\ SameRequest(req[c], req'[c])
  /\ RowsTyped' /\ RowsKeep
  /\ Found(c)' /\ Shown(c)'
  /\ SessionIsOneOrgs'
-----------------------------------------------------------------------------
(* Rows *)

\* None is no row.
LEMMA NoneIsNoRow ==
  /\ None \notin Job /\ None \notin Candidate /\ None \notin Session
  /\ None \notin User /\ None \notin Claims /\ None \notin Credentials
  BY NoneAssumption

\* Rows nobody touches stay.
LEMMA RowsStay == UNCHANGED rows => RowsKeep
  BY DEF rows, RowsKeep, Stored

\* What an organization may be shown only grows.
LEMMA OwnRowsGrow ==
  ASSUME RowsKeep, NEW o, NEW kind
  PROVE  OwnRows(o, kind) \subseteq OwnRows(o, kind)'
<1>1. JobsByOrg(o) \subseteq JobsByOrg(o)'
  BY DEF JobsByOrg, RowsKeep
<1>2. CandidatesByOrg(o) \subseteq CandidatesByOrg(o)'
  BY DEF CandidatesByOrg, RowsKeep
<1>3. Listed(o, Absent) \subseteq Listed(o, Absent)'
  BY DEF Listed, RowsKeep, Stored
<1> QED BY <1>1, <1>2, <1>3 DEF OwnRows

\* A new job, or a new title, keeps the jobs.
LEMMA JobWritten ==
  ASSUME TypeOK, NEW j \in JobIds, NEW new \in Job, jobs' = [jobs EXCEPT ![j] = new],
         Stored(jobs, j) => new.org = jobs[j].org, UNCHANGED <<cands, sessions, mails>>
  PROVE  /\ RowsTyped' /\ RowsKeep /\ JobInOrg(new.org, j)'
<1>1. RowsTyped'
  BY DEF TypeOK, RowsTyped
<1>2. new # None
  BY NoneIsNoRow
<1>3. \A i \in JobIds : jobs'[i] = IF i = j THEN new ELSE jobs[i]
  BY DEF TypeOK
<1>4. RowsKeep
  BY <1>2, <1>3 DEF RowsKeep, Stored
<1> QED BY <1>1, <1>2, <1>3, <1>4 DEF JobInOrg, Stored

\* A new candidate, or a new name, keeps the candidates.
LEMMA CandidateWritten ==
  ASSUME TypeOK, NEW d \in CandIds, NEW new \in Candidate, cands' = [cands EXCEPT ![d] = new],
         Stored(cands, d) => new.org = cands[d].org /\ new.email = cands[d].email,
         UNCHANGED <<jobs, sessions, mails>>
  PROVE  /\ RowsTyped' /\ RowsKeep /\ CandInOrg(new.org, d)'
<1>1. RowsTyped'
  BY DEF TypeOK, RowsTyped
<1>2. new # None
  BY NoneIsNoRow
<1>3. \A i \in CandIds : cands'[i] = IF i = d THEN new ELSE cands[i]
  BY DEF TypeOK
<1>4. RowsKeep
  BY <1>2, <1>3 DEF RowsKeep, Stored
<1> QED BY <1>1, <1>2, <1>3, <1>4 DEF CandInOrg, Stored

\* Rows that stay keep interviews within their organizations.
LEMMA OneOrgKept ==
  ASSUME TypeOK, SessionIsOneOrgs, RowsKeep, UNCHANGED sessions
  PROVE  SessionIsOneOrgs'
<1> SUFFICES ASSUME NEW s \in SessIds, Stored(sessions, s)
             PROVE  JobInOrg(sessions[s].org, sessions[s].job)' /\ CandInOrg(sessions[s].org, sessions[s].cand)'
  BY DEF SessionIsOneOrgs, Stored
<1>1. sessions[s].job \in JobIds /\ sessions[s].cand \in CandIds
  BY DEF TypeOK, Session, Stored
<1>2. JobInOrg(sessions[s].org, sessions[s].job) /\ CandInOrg(sessions[s].org, sessions[s].cand)
  BY DEF SessionIsOneOrgs
<1> QED BY <1>1, <1>2 DEF JobInOrg, CandInOrg, RowsKeep
-----------------------------------------------------------------------------
(* Steps of a request *)

\* A request's step logs nobody in and takes no time.
Quiet == UNCHANGED <<now, users, was, login, token, calls>>

\* A request that is answered with rows of its organization.
LEMMA AnswerEffect ==
  ASSUME TypeOK, NEW c \in Clients, req[c] \in Req, Quiet,
         RowsTyped', RowsKeep, SessionIsOneOrgs',
         NEW status \in Statuses, NEW shows \in SUBSET Ids, Answer(c, status, shows),
         NEW o, o = req[c].org, NEW kind, kind = req[c].ask.kind,
         shows \subseteq OwnRows(o, kind)'
  PROVE  Effect(c)
<1>1. /\ OthersKept(c) /\ SameRequest(req[c], req'[c])
      /\ req'[c].pc = "answered" /\ req'[c].shows = shows
  BY AnswerTyped
<1>2. Found(c)'
  BY <1>1 DEF Found, Waypoints
<1>3. Shown(c)'
  <2>1. req'[c].org = o /\ req'[c].ask.kind = kind
    BY <1>1 DEF SameRequest
  <2> QED BY <1>1, <2>1 DEF Shown
<1> QED BY <1>1, <1>2, <1>3 DEF Effect, Quiet

\* One that is refused, whatever it has written.
LEMMA RefusedEffect ==
  ASSUME TypeOK, NEW c \in Clients, req[c] \in Req, Quiet,
         RowsTyped', RowsKeep, SessionIsOneOrgs', NEW kind, Refuse(c, kind)
  PROVE  Effect(c)
<1>1. RespondError(kind) \in Statuses /\ {} \in SUBSET Ids
  BY RefuseTyped
<1> QED BY <1>1, AnswerEffect DEF Refuse

\* One that is refused and has left the sessions alone.
LEMMA RefuseEffect ==
  ASSUME TypeOK, SessionIsOneOrgs, NEW c \in Clients, req[c] \in Req, Quiet,
         RowsTyped', RowsKeep, UNCHANGED sessions, NEW kind, Refuse(c, kind)
  PROVE  Effect(c)
<1>1. SessionIsOneOrgs'
  BY OneOrgKept
<1> QED BY <1>1, RefusedEffect

\* A failing query writes nothing and answers 500.
LEMMA DbErrorEffect ==
  ASSUME TypeOK, SessionIsOneOrgs, NEW c \in Clients, req[c] \in Req, Quiet,
         RowsTyped', RowsKeep, UNCHANGED sessions, DbError(c)
  PROVE  Effect(c)
  BY RefuseEffect DEF DbError

\* What an organization's rows are.
LEMMA OwnRowsTyped ==
  ASSUME NEW o
  PROVE  /\ JobsByOrg(o) \in SUBSET Ids /\ CandidatesByOrg(o) \in SUBSET Ids
         /\ \A job : Listed(o, job) \in SUBSET Ids /\ Listed(o, job) \subseteq Listed(o, Absent)
  BY DEF JobsByOrg, CandidatesByOrg, Listed, Ids

\* Rows nobody writes are rows that stay.
LEMMA RowsUnwritten ==
  ASSUME TypeOK, SessionIsOneOrgs, UNCHANGED <<rows, mails>>
  PROVE  /\ RowsTyped' /\ RowsKeep /\ SessionIsOneOrgs'
         /\ UNCHANGED <<jobs, cands, sessions>>
<1>1. UNCHANGED <<jobs, cands, sessions>> /\ RowsKeep
  BY RowsStay DEF rows
<1>2. RowsTyped'
  BY <1>1 DEF RowsTyped, TypeOK
<1>3. SessionIsOneOrgs'
  BY <1>1, OneOrgKept
<1> QED BY <1>1, <1>2, <1>3

\* A request that only reads is refused, or shows what it found.
LEMMA ReadEffect ==
  ASSUME TypeOK, SessionIsOneOrgs, NEW c \in Clients, req[c] \in Req, Quiet,
         UNCHANGED <<rows, mails>>, NEW shows \in SUBSET Ids,
         shows \subseteq OwnRows(req[c].org, req[c].ask.kind),
         DbError(c) \/ Refuse(c, "not found") \/ Answer(c, 200, shows)
  PROVE  Effect(c)
<1>1. RowsTyped' /\ RowsKeep /\ SessionIsOneOrgs' /\ UNCHANGED sessions
  BY RowsUnwritten
<1>2. CASE DbError(c)
  BY <1>1, <1>2, DbErrorEffect
<1>3. CASE Refuse(c, "not found")
  BY <1>1, <1>3, RefuseEffect
<1>4. CASE Answer(c, 200, shows)
  <2>1. 200 \in Statuses
    BY DEF Statuses
  <2>2. PICK o, kind : o = req[c].org /\ kind = req[c].ask.kind
    OBVIOUS
  <2>3. shows \subseteq OwnRows(o, kind)'
    BY <1>1, <2>2, OwnRowsGrow
  <2> QED BY <1>1, <1>4, <2>1, <2>2, <2>3, AnswerEffect
<1> QED BY <1>2, <1>3, <1>4

\* POST /jobs and PATCH /jobs/{id}.
LEMMA JobWriteEffect ==
  ASSUME TypeOK, SessionIsOneOrgs, NEW c \in Clients, Found(c), CreateJob(c) \/ UpdateJob(c)
  PROVE  Effect(c)
<1>1. req[c].pc = "admitted" /\ req[c].ask.kind \in {"create job", "update job"}
  BY DEF CreateJob, UpdateJob, Doing
<1>2. req[c] \in Req /\ req[c].ask \in Asks /\ req[c].org \in Orgs
  BY <1>1, Underway, ReqFields DEF Found, Waypoints
<1>3. Quiet /\ UNCHANGED <<cands, sessions, mails>>
  BY DEF CreateJob, UpdateJob, Quiet
<1>4. CASE UNCHANGED jobs /\ \E kind : Refuse(c, kind)
  <2>1. UNCHANGED <<rows, mails>>
    BY <1>3, <1>4 DEF rows
  <2>2. RowsTyped' /\ RowsKeep /\ UNCHANGED sessions
    BY <2>1, RowsUnwritten
  <2> QED BY <1>2, <1>3, <1>4, <2>2, RefuseEffect
<1>5. ASSUME NEW j \in JobIds, NEW new \in Job, jobs' = [jobs EXCEPT ![j] = new],
             Stored(jobs, j) => new.org = jobs[j].org, new.org = req[c].org,
             DbError(c) \/ Answer(c, 200, {j}) \/ Answer(c, 201, {j})
      PROVE  Effect(c)
  <2>1. RowsTyped' /\ RowsKeep /\ JobInOrg(new.org, j)'
    BY <1>3, <1>5, JobWritten
  <2>2. SessionIsOneOrgs'
    BY <1>3, <2>1, OneOrgKept
  <2>3. CASE DbError(c)
    BY <1>2, <1>3, <2>1, <2>3, DbErrorEffect
  <2>4. CASE Answer(c, 200, {j}) \/ Answer(c, 201, {j})
    <3>1. PICK o, kind : o = req[c].org /\ kind = req[c].ask.kind
      OBVIOUS
    <3>2. {j} \subseteq OwnRows(o, kind)'
      BY <1>1, <1>5, <2>1, <3>1 DEF OwnRows, JobsByOrg, JobInOrg
    <3>3. {j} \in SUBSET Ids /\ 200 \in Statuses /\ 201 \in Statuses
      BY DEF Ids, Statuses
    <3> QED BY <1>2, <1>3, <2>1, <2>2, <2>4, <3>1, <3>2, <3>3, AnswerEffect
  <2> QED BY <1>5, <2>3, <2>4
<1>6. CASE CreateJob(c)
  <2>1. CASE \E j \in JobIds : ValidJob(req[c].ask) /\ InsertJob(c, j) /\ (DbError(c) \/ Answer(c, 201, {j}))
    <3>1. PICK j \in JobIds : ValidJob(req[c].ask) /\ InsertJob(c, j) /\ (DbError(c) \/ Answer(c, 201, {j}))
      BY <2>1
    <3> DEFINE new == [org |-> req[c].org, title |-> req[c].ask.title]
    <3>2. new \in Job /\ new.org = req[c].org
      BY <1>2, <3>1 DEF Job, ValidJob
    <3>3. jobs' = [jobs EXCEPT ![j] = new] /\ ~Stored(jobs, j)
      BY <3>1 DEF InsertJob
    <3> HIDE DEF new
    <3> QED BY <1>5, <3>1, <3>2, <3>3
  <2>2. CASE UNCHANGED jobs /\ (Refuse(c, "invalid") \/ DbError(c))
    BY <1>4, <2>2 DEF DbError
  <2> QED BY <1>6, <2>1, <2>2 DEF CreateJob
<1>7. CASE UpdateJob(c)
  <2>1. CASE /\ ValidJobChange(req[c].ask) /\ JobInOrg(req[c].org, req[c].ask.id)
             /\ UpdateJobRow(c) /\ (DbError(c) \/ Answer(c, 200, {req[c].ask.id}))
    <3> DEFINE j == req[c].ask.id
               new == [jobs[j] EXCEPT !.title = Coalesce(req[c].ask.title, @)]
    <3>0. req[c].ask.kind = "update job"
      BY <1>7 DEF UpdateJob, Doing
    <3>1. j \in JobIds /\ (req[c].ask.title = Absent \/ req[c].ask.title \in Texts)
      BY <1>2, <2>1, <3>0, AskFields DEF ValidJobChange, Text
    <3>2. jobs[j] \in Job /\ jobs[j].org = req[c].org
      BY <2>1, <3>1 DEF TypeOK, JobInOrg, Stored
    <3>3. new \in Job /\ new.org = jobs[j].org
      BY <3>1, <3>2 DEF Job, Coalesce
    <3>4. jobs' = [jobs EXCEPT ![j] = new]
      BY <2>1, <3>1 DEF UpdateJobRow, TypeOK
    <3>5. DbError(c) \/ Answer(c, 200, {j})
      BY <2>1
    <3> HIDE DEF new, j
    <3> QED BY <1>5, <3>1, <3>2, <3>3, <3>4, <3>5
  <2>2. CASE UNCHANGED jobs /\ (Refuse(c, "invalid") \/ Refuse(c, "not found") \/ DbError(c))
    BY <1>4, <2>2 DEF DbError
  <2> QED BY <1>7, <2>1, <2>2 DEF UpdateJob
<1> QED BY <1>6, <1>7

\* POST /candidates and PATCH /candidates/{id}.
LEMMA CandidateWriteEffect ==
  ASSUME TypeOK, SessionIsOneOrgs, NEW c \in Clients, Found(c),
         CreateCandidate(c) \/ UpdateCandidate(c)
  PROVE  Effect(c)
<1>1. req[c].pc = "admitted" /\ req[c].ask.kind \in {"create candidate", "update candidate"}
  BY DEF CreateCandidate, UpdateCandidate, Doing
<1>2. req[c] \in Req /\ req[c].ask \in Asks /\ req[c].org \in Orgs
  BY <1>1, Underway, ReqFields DEF Found, Waypoints
<1>3. Quiet /\ UNCHANGED <<jobs, sessions, mails>>
  BY DEF CreateCandidate, UpdateCandidate, Quiet
<1>4. CASE UNCHANGED cands /\ \E kind : Refuse(c, kind)
  <2>1. UNCHANGED <<rows, mails>>
    BY <1>3, <1>4 DEF rows
  <2>2. RowsTyped' /\ RowsKeep /\ UNCHANGED sessions
    BY <2>1, RowsUnwritten
  <2> QED BY <1>2, <1>3, <1>4, <2>2, RefuseEffect
<1>5. ASSUME NEW d \in CandIds, NEW new \in Candidate, cands' = [cands EXCEPT ![d] = new],
             Stored(cands, d) => new.org = cands[d].org /\ new.email = cands[d].email,
             new.org = req[c].org,
             DbError(c) \/ Answer(c, 200, {d}) \/ Answer(c, 201, {d})
      PROVE  Effect(c)
  <2>1. RowsTyped' /\ RowsKeep /\ CandInOrg(new.org, d)'
    BY <1>3, <1>5, CandidateWritten
  <2>2. SessionIsOneOrgs'
    BY <1>3, <2>1, OneOrgKept
  <2>3. CASE DbError(c)
    BY <1>2, <1>3, <2>1, <2>3, DbErrorEffect
  <2>4. CASE Answer(c, 200, {d}) \/ Answer(c, 201, {d})
    <3>1. PICK o, kind : o = req[c].org /\ kind = req[c].ask.kind
      OBVIOUS
    <3>2. {d} \subseteq OwnRows(o, kind)'
      BY <1>1, <1>5, <2>1, <3>1 DEF OwnRows, CandidatesByOrg, CandInOrg
    <3>3. {d} \in SUBSET Ids /\ 200 \in Statuses /\ 201 \in Statuses
      BY DEF Ids, Statuses
    <3> QED BY <1>2, <1>3, <2>1, <2>2, <2>4, <3>1, <3>2, <3>3, AnswerEffect
  <2> QED BY <1>5, <2>3, <2>4
<1>6. CASE CreateCandidate(c)
  <2>1. CASE \E d \in CandIds : /\ ValidCandidate(req[c].ask)
                                /\ InsertCandidate(c, d) /\ (DbError(c) \/ Answer(c, 201, {d}))
    <3>1. PICK d \in CandIds : /\ ValidCandidate(req[c].ask)
                               /\ InsertCandidate(c, d) /\ (DbError(c) \/ Answer(c, 201, {d}))
      BY <2>1
    <3> DEFINE new == [org |-> req[c].org, email |-> req[c].ask.email, name |-> req[c].ask.name]
    <3>2. new \in Candidate /\ new.org = req[c].org
      BY <1>2, <3>1 DEF Candidate, ValidCandidate
    <3>3. cands' = [cands EXCEPT ![d] = new] /\ ~Stored(cands, d)
      BY <3>1 DEF InsertCandidate
    <3> HIDE DEF new
    <3> QED BY <1>5, <3>1, <3>2, <3>3
  <2>2. CASE UNCHANGED cands /\ (Refuse(c, "invalid") \/ Refuse(c, "conflict") \/ DbError(c))
    BY <1>4, <2>2 DEF DbError
  <2> QED BY <1>6, <2>1, <2>2 DEF CreateCandidate
<1>7. CASE UpdateCandidate(c)
  <2>1. CASE /\ ValidCandidateChange(req[c].ask) /\ CandInOrg(req[c].org, req[c].ask.id)
             /\ UpdateCandidateRow(c) /\ (DbError(c) \/ Answer(c, 200, {req[c].ask.id}))
    <3> DEFINE d == req[c].ask.id
               new == [cands[d] EXCEPT !.name = Coalesce(req[c].ask.name, @)]
    <3>0. req[c].ask.kind = "update candidate"
      BY <1>7 DEF UpdateCandidate, Doing
    <3>1. d \in CandIds /\ (req[c].ask.name = Absent \/ req[c].ask.name \in Texts)
      BY <1>2, <2>1, <3>0, AskFields DEF ValidCandidateChange, Text
    <3>2. cands[d] \in Candidate /\ cands[d].org = req[c].org
      BY <2>1, <3>1 DEF TypeOK, CandInOrg, Stored
    <3>3. new \in Candidate /\ new.org = cands[d].org /\ new.email = cands[d].email
      BY <3>1, <3>2 DEF Candidate, Coalesce
    <3>4. cands' = [cands EXCEPT ![d] = new]
      BY <2>1, <3>1 DEF UpdateCandidateRow, TypeOK
    <3>5. DbError(c) \/ Answer(c, 200, {d})
      BY <2>1
    <3> HIDE DEF new, d
    <3> QED BY <1>5, <3>1, <3>2, <3>3, <3>4, <3>5
  <2>2. CASE UNCHANGED cands /\ (Refuse(c, "invalid") \/ Refuse(c, "not found") \/ DbError(c))
    BY <1>4, <2>2 DEF DbError
  <2> QED BY <1>7, <2>1, <2>2 DEF UpdateCandidate
<1> QED BY <1>6, <1>7

\* The requests that read rows and write none.
Reads(c) ==
  GetJob(c) \/ ListJobs(c) \/ GetCandidate(c) \/ ListCandidates(c) \/ GetInterview(c)
    \/ ListInterviews(c)

\* The requests that only read.
LEMMA ReadsEffect ==
  ASSUME TypeOK, SessionIsOneOrgs, NEW c \in Clients, Reads(c)
  PROVE  Effect(c)
<1>1. req[c].pc = "admitted"
  BY DEF Reads, GetJob, ListJobs, GetCandidate, ListCandidates, GetInterview, ListInterviews, Doing
<1>2. req[c] \in Req /\ req[c].ask \in Asks
  BY <1>1, Underway, ReqFields
<1>3. Quiet /\ UNCHANGED <<rows, mails>>
  BY DEF Reads, GetJob, ListJobs, GetCandidate, ListCandidates, GetInterview, ListInterviews, Quiet
<1>4. PICK shows \in SUBSET Ids :
        /\ shows \subseteq OwnRows(req[c].org, req[c].ask.kind)
        /\ DbError(c) \/ Refuse(c, "not found") \/ Answer(c, 200, shows)
  <2> DEFINE o == req[c].org
             ask == req[c].ask
  <2>0. {} \in SUBSET Ids
    OBVIOUS
  <2>1. CASE DbError(c) \/ Refuse(c, "not found")
    BY <2>0, <2>1
  <2>2. CASE GetJob(c) /\ JobInOrg(o, ask.id) /\ Answer(c, 200, {ask.id})
    <3>1. ask.kind = "get job"
      BY <2>2 DEF GetJob, Doing
    <3>2. {ask.id} \in SUBSET Ids /\ {ask.id} \subseteq OwnRows(o, ask.kind)
      BY <1>2, <2>2, <3>1, AskFields DEF Ids, OwnRows, JobsByOrg, JobInOrg
    <3> QED BY <2>2, <3>2
  <2>3. CASE ListJobs(c) /\ Answer(c, 200, JobsByOrg(o))
    <3>1. ask.kind = "list jobs"
      BY <2>3 DEF ListJobs, Doing
    <3> QED BY <2>3, <3>1, OwnRowsTyped DEF OwnRows
  <2>4. CASE GetCandidate(c) /\ CandInOrg(o, ask.id) /\ Answer(c, 200, {ask.id})
    <3>1. ask.kind = "get candidate"
      BY <2>4 DEF GetCandidate, Doing
    <3>2. {ask.id} \in SUBSET Ids /\ {ask.id} \subseteq OwnRows(o, ask.kind)
      BY <1>2, <2>4, <3>1, AskFields DEF Ids, OwnRows, CandidatesByOrg, CandInOrg
    <3> QED BY <2>4, <3>2
  <2>5. CASE ListCandidates(c) /\ Answer(c, 200, CandidatesByOrg(o))
    <3>1. ask.kind = "list candidates"
      BY <2>5 DEF ListCandidates, Doing
    <3> QED BY <2>5, <3>1, OwnRowsTyped DEF OwnRows
  <2>6. CASE GetInterview(c) /\ FindSession(o, ask.id) /\ Answer(c, 200, {ask.id})
    <3>1. ask.kind = "get interview"
      BY <2>6 DEF GetInterview, Doing
    <3>2. {ask.id} \in SUBSET Ids /\ {ask.id} \subseteq OwnRows(o, ask.kind)
      BY <1>2, <2>6, <3>1, AskFields DEF Ids, OwnRows, Listed, FindSession
    <3> QED BY <2>6, <3>2
  <2>7. CASE ListInterviews(c) /\ Answer(c, 200, Listed(o, ask.job))
    <3>1. ask.kind = "list interviews"
      BY <2>7 DEF ListInterviews, Doing
    <3> QED BY <2>7, <3>1, OwnRowsTyped DEF OwnRows
  <2> QED BY <2>1, <2>2, <2>3, <2>4, <2>5, <2>6, <2>7
       DEF Reads, GetJob, ListJobs, GetCandidate, ListCandidates, GetInterview, ListInterviews
<1> QED BY <1>2, <1>3, <1>4, ReadEffect

\* The session a request has stored is its organization's.
LEMMA OwnSession ==
  ASSUME TypeOK, NEW c \in Clients, Found(c), req[c].pc \in {"stored", "loaded", "addressed"}
  PROVE  /\ req[c] \in Req /\ req[c].ask.kind = "schedule"
         /\ {req[c].sess} \in SUBSET Ids
         /\ {req[c].sess} \subseteq OwnRows(req[c].org, req[c].ask.kind)
<1>1. req[c] \in Req
  BY Underway
<1>2. /\ req[c].ask.kind = "schedule"
      /\ req[c].sess \in SessIds /\ Stored(sessions, req[c].sess)
      /\ sessions[req[c].sess].org = req[c].org
  BY DEF Found, Waypoints
<1> QED BY <1>1, <1>2 DEF Ids, OwnRows, Listed

\* A request of interviews.Schedule whose look-ups go well, or end it.
LEMMA CheckEffect ==
  ASSUME TypeOK, SessionIsOneOrgs, NEW c \in Clients, Found(c),
         CheckJob(c) \/ CheckCandidate(c)
  PROVE  Effect(c)
<1>1. req[c] \in Req /\ req[c].ask \in Asks /\ req[c].pc \in Waypoints
  <2>1. req[c].pc \in {"admitted", "job found"}
    BY DEF CheckJob, CheckCandidate, Doing
  <2> QED BY <2>1, Underway, ReqFields DEF Waypoints
<1>2. Quiet /\ UNCHANGED <<rows, mails>>
  BY DEF CheckJob, CheckCandidate, Quiet
<1>3. RowsTyped' /\ RowsKeep /\ SessionIsOneOrgs' /\ UNCHANGED <<jobs, cands, sessions>>
  BY <1>2, RowsUnwritten
<1>4. CASE DbError(c) \/ \E kind : Refuse(c, kind)
  BY <1>1, <1>2, <1>3, <1>4, RefuseEffect, DbErrorEffect
<1>5. ASSUME NEW pc \in {"job found", "both found"}, GoTo(c, pc),
             req[c].ask.kind = "schedule", Minutes(req[c].ask) \in 5 .. 120,
             req[c].ask.job \in JobIds, JobInOrg(req[c].org, req[c].ask.job),
             req[c].ask.cand \in CandIds,
             pc = "both found" => CandInOrg(req[c].org, req[c].ask.cand)
      PROVE  Effect(c)
  <2>1. /\ OthersKept(c) /\ SameRequest(req[c], req'[c]) /\ req'[c].pc = pc
    BY <1>1, <1>5, GoToTyped DEF Waypoints
  <2>2. req'[c].ask = req[c].ask /\ req'[c].org = req[c].org /\ req'[c].user = req[c].user
    BY <2>1 DEF SameRequest
  <2>3. req[c].user \in Users /\ req[c].org \in Orgs
    BY <1>1 DEF Found
  <2>4. JobInOrg(req[c].org, req[c].ask.job)' <=> JobInOrg(req[c].org, req[c].ask.job)
    BY <1>3, <2>2 DEF JobInOrg, Stored
  <2>5. CandInOrg(req[c].org, req[c].ask.cand)' <=> CandInOrg(req[c].org, req[c].ask.cand)
    BY <1>3, <2>2 DEF CandInOrg, Stored
  <2>6. Minutes(req[c].ask)' = Minutes(req[c].ask)
    BY <2>2 DEF Minutes
  <2>7. Found(c)'
    BY <1>5, <2>1, <2>2, <2>3, <2>4, <2>5, <2>6 DEF Found, Waypoints
  <2>8. Shown(c)'
    BY <1>5, <2>1 DEF Shown
  <2> QED BY <1>2, <1>3, <2>1, <2>7, <2>8 DEF Effect, Quiet
<1>6. CASE CheckJob(c)
  <2>1. CASE /\ ValidSchedule(req[c].ask) /\ JobExistsInOrg(req[c].org, req[c].ask.job)
             /\ GoTo(c, "job found")
    <3>1. req[c].ask.kind = "schedule"
      BY <1>6 DEF CheckJob, Doing
    <3>2. req[c].ask.job \in JobIds /\ req[c].ask.cand \in CandIds
      BY <1>1, <2>1, <3>1, AskFields DEF ValidSchedule
    <3> QED BY <1>5, <2>1, <3>1, <3>2 DEF ValidSchedule, JobExistsInOrg, JobInOrg
  <2> QED BY <1>4, <1>6, <2>1 DEF CheckJob
<1>7. CASE CheckCandidate(c)
  <2>1. CASE CandidateExistsInOrg(req[c].org, req[c].ask.cand) /\ GoTo(c, "both found")
    <3>1. req[c].pc = "job found"
      BY <1>7 DEF CheckCandidate
    <3>2. /\ req[c].ask.kind = "schedule" /\ Minutes(req[c].ask) \in 5 .. 120
          /\ req[c].ask.job \in JobIds /\ JobInOrg(req[c].org, req[c].ask.job)
          /\ req[c].ask.cand \in CandIds
      BY <3>1 DEF Found, Waypoints
    <3> QED BY <1>5, <2>1, <3>2 DEF CandidateExistsInOrg, CandInOrg
  <2> QED BY <1>4, <1>7, <2>1 DEF CheckCandidate
<1> QED BY <1>6, <1>7

\* The row InterviewRepo.Schedule inserts.
NewSession(c, link) ==
  [org |-> req[c].org, job |-> req[c].ask.job, cand |-> req[c].ask.cand, at |-> req[c].ask.at,
   minutes |-> Minutes(req[c].ask), link |-> link, by |-> <<c, calls[c]>>]

\* A new session keeps the rows and is one organization's.
LEMMA SessionWritten ==
  ASSUME TypeOK, SessionIsOneOrgs, NEW c \in Clients, Found(c), req[c].pc = "both found",
         NEW s \in SessIds, ~Stored(sessions, s), NEW link \in Links,
         sessions' = [sessions EXCEPT ![s] = NewSession(c, link)],
         UNCHANGED <<jobs, cands, mails>>
  PROVE  /\ RowsTyped' /\ RowsKeep /\ SessionIsOneOrgs'
         /\ Stored(sessions', s) /\ sessions'[s] = NewSession(c, link)
<1> DEFINE new == NewSession(c, link)
<1>1. /\ req[c].ask \in Asks /\ req[c].ask.kind = "schedule"
      /\ Minutes(req[c].ask) \in 5 .. 120
      /\ req[c].org \in Orgs /\ req[c].ask.job \in JobIds /\ req[c].ask.cand \in CandIds
      /\ JobInOrg(req[c].org, req[c].ask.job) /\ CandInOrg(req[c].org, req[c].ask.cand)
  BY Underway, ReqFields DEF Found, Waypoints
<1>2. req[c].ask.at \in Nat
  BY <1>1, AskFields
<1>3. <<c, calls[c]>> \in Clients \X Nat
  BY DEF TypeOK
<1>4. new \in Session
  BY <1>1, <1>2, <1>3 DEF NewSession, Session
<1>5. new.org = req[c].org /\ new.job = req[c].ask.job /\ new.cand = req[c].ask.cand
  BY DEF NewSession
<1> HIDE DEF new
<1>6. new # None
  BY <1>4, NoneIsNoRow
<1>7. \A t \in SessIds : sessions'[t] = IF t = s THEN new ELSE sessions[t]
  BY DEF TypeOK, new
<1>8. sessions' \in [SessIds -> Session \cup {None}]
  BY <1>4 DEF TypeOK, new
<1>9. RowsTyped'
  BY <1>8 DEF TypeOK, RowsTyped
<1>10. RowsKeep
  BY <1>7 DEF RowsKeep, Stored
<1>11. SessionIsOneOrgs'
  <2> SUFFICES ASSUME NEW t \in SessIds, Stored(sessions', t)
               PROVE  /\ JobInOrg(sessions'[t].org, sessions'[t].job)
                      /\ CandInOrg(sessions'[t].org, sessions'[t].cand)
    BY DEF SessionIsOneOrgs, JobInOrg, CandInOrg, Stored
  <2>1. CASE t = s
    BY <1>1, <1>5, <1>7, <2>1
  <2>2. CASE t # s
    BY <1>7, <2>2 DEF SessionIsOneOrgs, Stored
  <2> QED BY <2>1, <2>2
<1> QED BY <1>6, <1>7, <1>9, <1>10, <1>11 DEF Stored, new

\* InterviewRepo.Schedule.
LEMMA InsertEffect ==
  ASSUME TypeOK, SessionIsOneOrgs, NEW c \in Clients, Found(c),
         NEW s \in SessIds, NEW link \in Links, InsertSession(c, s, link)
  PROVE  Effect(c)
<1>1. req[c].pc = "both found" /\ req[c] \in Req /\ Quiet /\ UNCHANGED <<jobs, cands, mails>>
  BY Underway DEF InsertSession, Quiet
<1>2. CASE UNCHANGED sessions /\ (DbError(c) \/ Refuse(c, "internal"))
  <2>1. UNCHANGED <<rows, mails>>
    BY <1>1, <1>2 DEF rows
  <2>2. RowsTyped' /\ RowsKeep
    BY <2>1, RowsUnwritten
  <2> QED BY <1>1, <1>2, <2>2, RefuseEffect, DbErrorEffect
<1>3. CASE ~Stored(sessions, s) /\ sessions' = [sessions EXCEPT ![s] = NewSession(c, link)]
  <2>1. /\ RowsTyped' /\ RowsKeep /\ SessionIsOneOrgs'
        /\ Stored(sessions', s) /\ sessions'[s] = NewSession(c, link)
    BY <1>1, <1>3, SessionWritten
  <2>2. CASE DbError(c)
    <3>1. Refuse(c, "internal")
      BY <2>2 DEF DbError
    <3> QED BY <1>1, <2>1, <3>1, RefusedEffect
  <2>3. CASE req' = [req EXCEPT ![c].pc = "stored", ![c].sess = s]
    <3>1. /\ OthersKept(c) /\ SameRequest(req[c], req'[c])
          /\ req'[c].pc = "stored" /\ req'[c].sess = s
      BY <1>1, <2>3, StoredTyped
    <3>2. req'[c].ask = req[c].ask /\ req'[c].org = req[c].org /\ req'[c].user = req[c].user
      BY <3>1 DEF SameRequest
    <3>3. /\ sessions'[s].org = req[c].org /\ sessions'[s].job = req[c].ask.job
          /\ sessions'[s].cand = req[c].ask.cand /\ sessions'[s].at = req[c].ask.at
          /\ sessions'[s].by = <<c, calls[c]>>
      BY <2>1 DEF NewSession
    <3>4. /\ req[c].user \in Users /\ req[c].org \in Orgs
          /\ req[c].ask.kind = "schedule" /\ Minutes(req[c].ask) \in 5 .. 120
          /\ req[c].ask.job \in JobIds /\ JobInOrg(req[c].org, req[c].ask.job)
          /\ req[c].ask.cand \in CandIds /\ CandInOrg(req[c].org, req[c].ask.cand)
      BY <1>1 DEF Found, Waypoints
    <3>5. JobInOrg(req[c].org, req[c].ask.job)' <=> JobInOrg(req[c].org, req[c].ask.job)
      BY <1>1, <3>2 DEF JobInOrg, Stored
    <3>6. CandInOrg(req[c].org, req[c].ask.cand)' <=> CandInOrg(req[c].org, req[c].ask.cand)
      BY <1>1, <3>2 DEF CandInOrg, Stored
    <3>7. Minutes(req[c].ask)' = Minutes(req[c].ask)
      BY <3>2 DEF Minutes
    <3>8. calls'[c] = calls[c]
      BY <1>1 DEF Quiet
    <3>9. Found(c)'
      BY <2>1, <3>1, <3>2, <3>3, <3>4, <3>5, <3>6, <3>7, <3>8 DEF Found, Waypoints
    <3>10. Shown(c)'
      BY <3>1 DEF Shown
    <3> QED BY <1>1, <2>1, <3>1, <3>9, <3>10 DEF Effect, Quiet
  <2> QED BY <1>2, <2>2, <2>3 DEF InsertSession
<1> QED BY <1>2, <1>3 DEF InsertSession, NewSession

\* Reading the session back, looking up the address and sending the invitation.
LEMMA InviteEffect ==
  ASSUME TypeOK, SessionIsOneOrgs, NEW c \in Clients, Found(c),
         Reload(c) \/ LookUpCandidate(c) \/ SendInvite(c)
  PROVE  Effect(c)
<1>1. req[c].pc \in {"stored", "loaded", "addressed"}
  BY DEF Reload, LookUpCandidate, SendInvite
<1>2. /\ req[c] \in Req /\ req[c].ask.kind = "schedule"
      /\ {req[c].sess} \in SUBSET Ids
      /\ {req[c].sess} \subseteq OwnRows(req[c].org, req[c].ask.kind)
  BY <1>1, OwnSession
<1>3. /\ req[c].user \in Users /\ req[c].org \in Orgs /\ Minutes(req[c].ask) \in 5 .. 120
      /\ req[c].ask.job \in JobIds /\ JobInOrg(req[c].org, req[c].ask.job)
      /\ req[c].ask.cand \in CandIds /\ CandInOrg(req[c].org, req[c].ask.cand)
      /\ req[c].sess \in SessIds /\ Stored(sessions, req[c].sess)
      /\ sessions[req[c].sess].org = req[c].org
      /\ sessions[req[c].sess].job = req[c].ask.job
      /\ sessions[req[c].sess].cand = req[c].ask.cand
      /\ sessions[req[c].sess].at = req[c].ask.at
      /\ sessions[req[c].sess].by = <<c, calls[c]>>
  BY <1>1 DEF Found, Waypoints
<1>4. /\ jobs[req[c].ask.job] \in Job /\ cands[req[c].ask.cand] \in Candidate
      /\ sessions[req[c].sess] \in Session
  BY <1>3 DEF TypeOK, JobInOrg, CandInOrg, Stored
<1>5. Quiet /\ UNCHANGED rows
  BY DEF Reload, LookUpCandidate, SendInvite, Quiet
<1>6. UNCHANGED <<jobs, cands, sessions>> /\ RowsKeep /\ SessionIsOneOrgs'
  BY <1>5, RowsStay, OneOrgKept DEF rows
<1>7. RowsTyped'
  <2>1. CASE UNCHANGED mails
    BY <1>6, <2>1 DEF TypeOK, RowsTyped
  <2>2. CASE SendInvite(c)
    <3>1. req[c].title \in Texts /\ req[c].to = cands[req[c].ask.cand].email
      BY <2>2 DEF SendInvite, Found
    <3>2. req[c].to \in Addresses /\ sessions[req[c].sess].link \in Links
      BY <1>4, <3>1 DEF Candidate, Session
    <3>3. req[c].ask.at \in Nat
      BY <1>2, ReqFields, AskFields
    <3>4. InviteEmail(c) \in Mail
      BY <3>1, <3>2, <3>3 DEF InviteEmail, Mail
    <3> QED BY <1>6, <2>2, <3>4 DEF SendInvite, TypeOK, RowsTyped
  <2> QED BY <2>1, <2>2 DEF Reload, LookUpCandidate
<1>8. CASE Scheduled(c)
  <2>1. PICK o, kind : o = req[c].org /\ kind = req[c].ask.kind
    OBVIOUS
  <2>2. {req[c].sess} \subseteq OwnRows(o, kind)'
    BY <1>2, <1>6, <2>1, OwnRowsGrow
  <2>3. 201 \in Statuses
    BY DEF Statuses
  <2> QED BY <1>2, <1>5, <1>6, <1>7, <1>8, <2>1, <2>2, <2>3, AnswerEffect DEF Scheduled
<1>9. CASE DbError(c)
  BY <1>2, <1>5, <1>6, <1>7, <1>9, DbErrorEffect
<1>10. ASSUME OthersKept(c), SameRequest(req[c], req'[c]), req'[c].sess = req[c].sess,
              req'[c].pc \in {"loaded", "addressed"}, req'[c].title \in Texts,
              req'[c].pc = "addressed" => req'[c].to = cands[req[c].ask.cand].email
       PROVE  Effect(c)
  <2>1. req'[c].ask = req[c].ask /\ req'[c].org = req[c].org /\ req'[c].user = req[c].user
    BY <1>10 DEF SameRequest
  <2>2. JobInOrg(req[c].org, req[c].ask.job)' <=> JobInOrg(req[c].org, req[c].ask.job)
    BY <1>6, <2>1 DEF JobInOrg, Stored
  <2>3. CandInOrg(req[c].org, req[c].ask.cand)' <=> CandInOrg(req[c].org, req[c].ask.cand)
    BY <1>6, <2>1 DEF CandInOrg, Stored
  <2>4. Minutes(req[c].ask)' = Minutes(req[c].ask)
    BY <2>1 DEF Minutes
  <2>5. calls'[c] = calls[c]
    BY <1>5 DEF Quiet
  <2>6. Found(c)'
    <3>1. /\ req'[c].sess \in SessIds /\ Stored(sessions, req[c].sess)'
          /\ sessions'[req'[c].sess] = sessions[req[c].sess]
      BY <1>3, <1>6, <1>10 DEF Stored
    <3>2. /\ sessions'[req'[c].sess].org = req'[c].org
          /\ sessions'[req'[c].sess].job = req'[c].ask.job
          /\ sessions'[req'[c].sess].cand = req'[c].ask.cand
          /\ sessions'[req'[c].sess].at = req'[c].ask.at
          /\ sessions'[req'[c].sess].by = <<c, calls'[c]>>
      BY <1>3, <2>1, <2>5, <3>1
    <3>3. /\ req'[c].user \in Users /\ req'[c].org \in Orgs /\ req'[c].ask.kind = "schedule"
          /\ Minutes(req[c].ask)' \in 5 .. 120
          /\ req'[c].ask.job \in JobIds /\ JobInOrg(req[c].org, req[c].ask.job)'
          /\ req'[c].ask.cand \in CandIds /\ CandInOrg(req[c].org, req[c].ask.cand)'
      BY <1>2, <1>3, <2>1, <2>2, <2>3, <2>4
    <3>4. req'[c].pc = "addressed" => req'[c].to = cands'[req'[c].ask.cand].email
      BY <1>6, <1>10, <2>1
    <3> QED BY <1>10, <3>1, <3>2, <3>3, <3>4 DEF Found
  <2>7. Shown(c)'
    BY <1>10 DEF Shown
  <2> QED BY <1>5, <1>6, <1>7, <1>10, <2>6, <2>7 DEF Effect, Quiet
<1>11. CASE Reload(c)
  <2> DEFINE title == jobs[sessions[req[c].sess].job].title
  <2>1. title \in Texts
    BY <1>3, <1>4 DEF Job
  <2>2. DbError(c) \/ req' = [req EXCEPT ![c].pc = "loaded", ![c].title = title]
    BY <1>11 DEF Reload
  <2> HIDE DEF title
  <2>3. CASE req' = [req EXCEPT ![c].pc = "loaded", ![c].title = title]
    BY <1>2, <1>10, <2>1, <2>3, LoadedTyped
  <2> QED BY <1>9, <2>2, <2>3
<1>12. CASE LookUpCandidate(c)
  <2> DEFINE to == cands[req[c].ask.cand].email
  <2>1. to \in Addresses
    BY <1>4 DEF Candidate
  <2>2. Scheduled(c) \/ req' = [req EXCEPT ![c].pc = "addressed", ![c].to = to]
    BY <1>12 DEF LookUpCandidate
  <2>3. req[c].title \in Texts
    BY <1>12 DEF LookUpCandidate, Found
  <2> HIDE DEF to
  <2>4. CASE req' = [req EXCEPT ![c].pc = "addressed", ![c].to = to]
    BY <1>2, <1>10, <2>1, <2>3, <2>4, AddressedTyped DEF to
  <2> QED BY <1>8, <2>2, <2>4
<1> QED BY <1>8, <1>11, <1>12 DEF SendInvite

\* What every step of a request does.
LEMMA StepEffect ==
  ASSUME TypeOK, SessionIsOneOrgs, NEW c \in Clients, Found(c),
         JobStep(c) \/ CandidateStep(c) \/ InterviewStep(c)
  PROVE  Effect(c)
  BY JobWriteEffect, CandidateWriteEffect, ReadsEffect, CheckEffect, InsertEffect, InviteEffect
     DEF JobStep, CandidateStep, InterviewStep, Reads
-----------------------------------------------------------------------------
(* Who may see what *)

\* A user is, or was when a token could still hold, in an organization.
Member(u, o, at, took) ==
  users[u].org = o \/ \E w \in was[u] : w.org = o /\ at < w.until + Ttl + took

\* A login under way read an organization its user is in, or left since.
LoginIsDated(c) ==
  LET l == login[c] IN
  l # None =>
    /\ l.at <= now /\ Stored(users, l.sub)
    /\ users[l.sub].org = l.org \/ \E w \in was[l.sub] : w.org = l.org /\ l.at <= w.until

\* A token names an organization its user is in, or left when what was left of
\* its login and its lifetime were yet to come; it was not issued in the future.
TokenIsDated(c) ==
  LET t == token[c] IN
  t # None =>
    /\ t.exp <= now + Ttl /\ Stored(users, t.sub)
    /\ users[t.sub].org = t.org
         \/ \E w \in was[t.sub] : w.org = t.org /\ t.exp <= w.until + Ttl + t.took

\* A request was made when its user was a member, and Ttl is no void lifetime.
Admitted(c) ==
  LET r == req[c] IN
  r.pc \in Waypoints \/ (r.pc = "answered" /\ r.shows # {}) =>
    /\ r.user \in Users /\ Stored(users, r.user) /\ r.since <= now /\ Ttl > 0
    /\ Member(r.user, r.org, r.since, r.took)

\* The inductive invariant.
IInv ==
  /\ TypeOK
  /\ SessionIsOneOrgs
  /\ \A c \in Clients :
       Found(c) /\ Shown(c) /\ LoginIsDated(c) /\ TokenIsDated(c) /\ Admitted(c)

\* The requests of others are as they were.
LEMMA OthersSame ==
  ASSUME IInv, NEW c \in Clients, Effect(c), NEW d \in Clients, d # c
  PROVE  Found(d)' /\ Shown(d)' /\ Admitted(d)'
<1>1. /\ req'[d] = req[d] /\ calls' = calls /\ now' = now /\ users' = users /\ was' = was
      /\ RowsKeep /\ Found(d) /\ Shown(d) /\ Admitted(d)
  BY DEF Effect, OthersKept, IInv
<1>2. Admitted(d)'
  BY <1>1 DEF Admitted, Member, Stored
<1>3. Shown(d)'
  <2> SUFFICES ASSUME req[d].pc = "answered"
               PROVE  req'[d].shows \subseteq OwnRows(req[d].org, req[d].ask.kind)'
    BY <1>1 DEF Shown
  <2>1. PICK o, kind : o = req[d].org /\ kind = req[d].ask.kind
    OBVIOUS
  <2>2. req[d].shows \subseteq OwnRows(o, kind)
    BY <1>1, <2>1 DEF Shown
  <2>3. req[d].shows \subseteq OwnRows(o, kind)'
    BY <1>1, <2>2, OwnRowsGrow
  <2>4. OwnRows(req[d].org, req[d].ask.kind)' = OwnRows(o, kind)'
    BY <1>1, <2>1 DEF OwnRows
  <2> QED BY <1>1, <2>3, <2>4
<1>4. Found(d)'
  <2>1. /\ req'[d].pc = req[d].pc /\ req'[d].user = req[d].user /\ req'[d].org = req[d].org
        /\ req'[d].ask = req[d].ask /\ req'[d].sess = req[d].sess /\ req'[d].title = req[d].title
        /\ req'[d].to = req[d].to
    BY <1>1
  <2>2. CASE req[d].pc \notin Waypoints
    BY <2>1, <2>2 DEF Found, Waypoints
  <2>3. CASE req[d].pc = "admitted"
    BY <1>1, <2>1, <2>3 DEF Found, Waypoints
  <2>4. CASE req[d].pc \in Waypoints \ {"admitted"}
    <3>1. /\ req[d].user \in Users /\ req[d].org \in Orgs
          /\ req[d].ask.kind = "schedule" /\ Minutes(req[d].ask) \in 5 .. 120
          /\ req[d].ask.job \in JobIds /\ JobInOrg(req[d].org, req[d].ask.job)
          /\ req[d].ask.cand \in CandIds
          /\ req[d].pc # "job found" => CandInOrg(req[d].org, req[d].ask.cand)
      BY <1>1, <2>4 DEF Found, Waypoints
    <3>2. JobInOrg(req[d].org, req[d].ask.job)'
      BY <1>1, <2>1, <3>1 DEF JobInOrg, RowsKeep
    <3>3. req[d].pc # "job found" =>
            /\ CandInOrg(req[d].org, req[d].ask.cand)'
            /\ cands'[req[d].ask.cand].email = cands[req[d].ask.cand].email
      BY <1>1, <2>1, <3>1 DEF CandInOrg, RowsKeep
    <3>4. Minutes(req[d].ask)' \in 5 .. 120
      BY <2>1, <3>1 DEF Minutes
    <3>5. req[d].pc \in {"stored", "loaded", "addressed"} =>
            /\ req[d].sess \in SessIds /\ Stored(sessions, req[d].sess)'
            /\ sessions'[req[d].sess] = sessions[req[d].sess]
      BY <1>1, <2>1 DEF Found, RowsKeep, Stored
    <3> QED BY <1>1, <2>1, <2>4, <3>1, <3>2, <3>3, <3>4, <3>5 DEF Found, Waypoints
  <2> QED BY <2>2, <2>3, <2>4
<1> QED BY <1>2, <1>3, <1>4

\* Steps of requests keep the invariant.
LEMMA StepKeepsIInv ==
  ASSUME IInv, NEW c \in Clients, JobStep(c) \/ CandidateStep(c) \/ InterviewStep(c)
  PROVE  IInv'
<1>1. req[c].pc \in Waypoints
  BY DEF JobStep, CandidateStep, InterviewStep, CreateJob, UpdateJob, GetJob, ListJobs,
         CreateCandidate, UpdateCandidate, GetCandidate, ListCandidates, CheckJob,
         CheckCandidate, InsertSession, Reload, LookUpCandidate, SendInvite, GetInterview,
         ListInterviews, Doing, Waypoints
<1>2. Effect(c)
  BY StepEffect DEF IInv
<1>3. TypeOK'
  BY <1>2 DEF Effect, OthersKept, RowsTyped, IInv, TypeOK
<1>4. Admitted(c)'
  <2>1. /\ req'[c].user = req[c].user /\ req'[c].org = req[c].org
        /\ req'[c].since = req[c].since /\ req'[c].took = req[c].took
        /\ UNCHANGED <<now, users, was>>
    BY <1>2 DEF Effect, SameRequest
  <2>2. /\ req[c].user \in Users /\ Stored(users, req[c].user) /\ req[c].since <= now /\ Ttl > 0
        /\ Member(req[c].user, req[c].org, req[c].since, req[c].took)
    BY <1>1 DEF IInv, Admitted
  <2> QED BY <2>1, <2>2 DEF Admitted, Member, Stored
<1>5. \A d \in Clients : Found(d)' /\ Shown(d)' /\ Admitted(d)'
  BY <1>2, <1>4, OthersSame DEF Effect
<1>6. \A d \in Clients : LoginIsDated(d)' /\ TokenIsDated(d)'
  BY <1>2 DEF Effect, IInv, LoginIsDated, TokenIsDated, Stored
<1>7. SessionIsOneOrgs'
  BY <1>2 DEF Effect
<1> QED BY <1>3, <1>5, <1>6, <1>7 DEF IInv

\* A request begins with nothing found out and nothing to show.
LEMMA BegunTyped ==
  ASSUME TypeOK, NEW pc \in {"answered", "admitted"}, NEW ask \in Asks,
         NEW claims, claims.sub \in Users \cup {None}, claims.org \in Orgs \cup {None},
         claims.took \in Nat, NEW status \in Statuses
  PROVE  LET b == Begun(pc, ask, claims, status) IN
         /\ b \in Req
         /\ b.pc = pc /\ b.ask = ask /\ b.user = claims.sub /\ b.org = claims.org
         /\ b.since = now /\ b.took = claims.took /\ b.status = status /\ b.shows = {}
<1>1. now \in Nat /\ {} \in SUBSET Ids
  BY DEF TypeOK
<1> QED BY <1>1 DEF Begun, Req

\* A request that arrives.
LEMMA RequestKeepsIInv ==
  ASSUME IInv, NEW c \in Clients, NEW ask \in Asks, Request(c, ask)
  PROVE  IInv'
<1>1. TypeOK /\ now \in Nat /\ Ttl \in Nat
  BY ClockAssumption DEF IInv, TypeOK
<1>2. UNCHANGED <<now, users, was, login, token, jobs, cands, sessions, mails>>
  BY DEF Request, rows
<1>3. calls' \in [Clients -> Nat] /\ \A d \in Clients \ {c} : calls'[d] = calls[d]
  BY <1>1 DEF Request, TypeOK
<1>4. PICK b \in Req :
        /\ req' = [req EXCEPT ![c] = b]
        /\ b.pc \in {"answered", "admitted"} /\ b.since = now /\ b.shows = {}
        /\ b.pc = "admitted" =>
             /\ Parse(token[c]) /\ token[c] \in Claims
             /\ b.user = token[c].sub /\ b.org = token[c].org /\ b.took = token[c].took
  <2>1. CASE req' = [req EXCEPT ![c] = Begun("answered", ask, Nobody, RespondError("unauthorized"))]
    <3>1. /\ Nobody.sub \in Users \cup {None} /\ Nobody.org \in Orgs \cup {None}
          /\ Nobody.took \in Nat
      BY DEF Nobody
    <3>2. RespondError("unauthorized") \in Statuses
      BY DEF RespondError, Statuses
    <3> DEFINE b == Begun("answered", ask, Nobody, RespondError("unauthorized"))
    <3>3. b \in Req /\ b.pc = "answered" /\ b.since = now /\ b.shows = {}
      BY <1>1, <3>1, <3>2, BegunTyped
    <3> HIDE DEF b
    <3> QED BY <2>1, <3>3 DEF b
  <2>2. ASSUME Parse(token[c]), NEW pc \in {"answered", "admitted"}, NEW status \in Statuses,
               req' = [req EXCEPT ![c] = Begun(pc, ask, token[c], status)]
        PROVE  \E b \in Req :
                 /\ req' = [req EXCEPT ![c] = b]
                 /\ b.pc \in {"answered", "admitted"} /\ b.since = now /\ b.shows = {}
                 /\ b.pc = "admitted" =>
                      /\ Parse(token[c]) /\ token[c] \in Claims
                      /\ b.user = token[c].sub /\ b.org = token[c].org
                      /\ b.took = token[c].took
    <3>1. token[c] \in Claims
      BY <1>1, <2>2 DEF Parse, TypeOK
    <3>2. /\ token[c].sub \in Users \cup {None} /\ token[c].org \in Orgs \cup {None}
          /\ token[c].took \in Nat
      BY <3>1 DEF Claims
    <3> DEFINE b == Begun(pc, ask, token[c], status)
    <3>3. /\ b \in Req /\ b.pc = pc /\ b.since = now /\ b.shows = {}
          /\ b.user = token[c].sub /\ b.org = token[c].org /\ b.took = token[c].took
      BY <1>1, <3>2, BegunTyped
    <3> HIDE DEF b
    <3> QED BY <2>2, <3>1, <3>3 DEF b
  <2>3. 200 \in Statuses /\ 0 \in Statuses /\ RespondError("forbidden") \in Statuses
    BY DEF RespondError, Statuses
  <2> QED BY <2>1, <2>2, <2>3 DEF Request
<1>5. /\ req' \in [Clients -> {[pc |-> "idle"]} \cup Req]
      /\ req'[c] = b /\ \A d \in Clients \ {c} : req'[d] = req[d]
  BY <1>1, <1>4 DEF TypeOK
<1>6. TypeOK'
  BY <1>2, <1>3, <1>5 DEF IInv, TypeOK
<1>7. SessionIsOneOrgs'
  BY <1>2 DEF IInv, SessionIsOneOrgs, JobInOrg, CandInOrg, Stored
<1>8. \A d \in Clients : LoginIsDated(d)' /\ TokenIsDated(d)'
  BY <1>2 DEF IInv, LoginIsDated, TokenIsDated, Stored
<1>9. Found(c)' /\ Shown(c)'
  <2>1. b.pc = "admitted" => b.user \in Users /\ b.org \in Orgs
    BY <1>4 DEF Claims
  <2> QED BY <1>4, <1>5, <2>1 DEF Found, Shown, Waypoints
<1>10. Admitted(c)'
  <2> SUFFICES ASSUME b.pc = "admitted"
               PROVE  /\ b.user \in Users /\ Stored(users, b.user) /\ b.since <= now /\ Ttl > 0
                      /\ Member(b.user, b.org, b.since, b.took)
    BY <1>2, <1>4, <1>5 DEF Admitted, Member, Stored, Waypoints
  <2> DEFINE t == token[c]
  <2>1. /\ t # None /\ t \in Claims /\ now < t.exp
        /\ b.user = t.sub /\ b.org = t.org /\ b.took = t.took /\ b.since = now
    BY <1>4 DEF Parse
  <2>2. t.sub \in Users /\ t.exp \in Nat /\ t.took \in Nat
    BY <2>1 DEF Claims
  <2>3. /\ t.exp <= now + Ttl /\ Stored(users, t.sub)
        /\ users[t.sub].org = t.org
             \/ \E w \in was[t.sub] : w.org = t.org /\ t.exp <= w.until + Ttl + t.took
    BY <2>1 DEF IInv, TokenIsDated
  <2>4. Ttl > 0
    BY <1>1, <2>1, <2>2, <2>3
  <2>5. ASSUME NEW w \in was[t.sub], t.exp <= w.until + Ttl + t.took
        PROVE  now < w.until + Ttl + t.took
    <3>1. w.until \in Nat
      BY <1>1, <2>2, <2>5 DEF TypeOK
    <3> QED BY <1>1, <2>1, <2>2, <2>5, <3>1
  <2> HIDE DEF t
  <2> QED BY <1>1, <2>1, <2>2, <2>3, <2>4, <2>5 DEF Member
<1>11. ASSUME NEW d \in Clients, d # c PROVE Found(d)' /\ Shown(d)' /\ Admitted(d)'
  <2>1. /\ req'[d] = req[d] /\ calls'[d] = calls[d]
        /\ Found(d) /\ Shown(d) /\ Admitted(d)
    BY <1>3, <1>5, <1>11 DEF IInv
  <2>2. Admitted(d)'
    BY <1>2, <2>1 DEF Admitted, Member, Stored
  <2>3. Shown(d)'
    BY <1>2, <2>1 DEF Shown, OwnRows, JobsByOrg, CandidatesByOrg, Listed, Stored
  <2>4. Found(d)'
    BY <1>2, <2>1 DEF Found, Waypoints, JobInOrg, CandInOrg, Stored, Minutes
  <2> QED BY <2>2, <2>3, <2>4
<1> QED BY <1>6, <1>7, <1>8, <1>9, <1>10, <1>11 DEF IInv

\* The rows, the requests and what they have found stay.
RestStays == UNCHANGED <<jobs, cands, sessions, mails, calls, req>>

\* What does not concern users, tokens or time.
LEMMA RestKept ==
  ASSUME IInv, RestStays
  PROVE  SessionIsOneOrgs' /\ \A c \in Clients : Found(c)' /\ Shown(c)'
<1>1. SessionIsOneOrgs'
  BY DEF RestStays, IInv, SessionIsOneOrgs, JobInOrg, CandInOrg, Stored
<1>2. ASSUME NEW c \in Clients PROVE Shown(c)'
  <2>1. Shown(c)
    BY DEF IInv
  <2>2. \A o, kind : OwnRows(o, kind)' = OwnRows(o, kind)
    BY DEF RestStays, OwnRows, JobsByOrg, CandidatesByOrg, Listed, Stored
  <2>3. req' = req
    BY DEF RestStays
  <2> QED BY <2>1, <2>2, <2>3 DEF Shown
<1>3. ASSUME NEW c \in Clients PROVE Found(c)'
  BY DEF RestStays, IInv, Found, Waypoints, JobInOrg, CandInOrg, Stored, Minutes
<1> QED BY <1>1, <1>2, <1>3

\* Time passing.
LEMMA TickKeepsIInv ==
  ASSUME IInv, Tick
  PROVE  IInv'
<1>1. now' = now + 1 /\ now \in Nat /\ Ttl \in Nat /\ UNCHANGED <<users, was, login, token>> /\ RestStays
  BY ClockAssumption DEF Tick, rows, RestStays, IInv, TypeOK
<1>2. TypeOK'
  BY <1>1 DEF RestStays, IInv, TypeOK
<1>3. ASSUME NEW c \in Clients PROVE TokenIsDated(c)'
  <2> SUFFICES ASSUME token[c] # None PROVE TokenIsDated(c)'
    BY <1>1 DEF TokenIsDated
  <2>1. token[c].exp \in Nat
    BY DEF IInv, TypeOK, Claims
  <2>2. token[c].exp <= now + Ttl
    BY DEF IInv, TokenIsDated
  <2>3. token'[c].exp <= now' + Ttl
    BY <1>1, <2>1, <2>2
  <2> QED BY <1>1, <2>3 DEF IInv, TokenIsDated, Stored
<1>4. ASSUME NEW c \in Clients PROVE LoginIsDated(c)'
  <2> SUFFICES ASSUME login[c] # None PROVE LoginIsDated(c)'
    BY <1>1 DEF LoginIsDated
  <2>1. login[c].at \in Nat
    BY DEF IInv, TypeOK, Credentials
  <2>2. login[c].at <= now
    BY DEF IInv, LoginIsDated
  <2>3. login'[c].at <= now'
    BY <1>1, <2>1, <2>2
  <2> QED BY <1>1, <2>3 DEF IInv, LoginIsDated, Stored
<1>5. ASSUME NEW c \in Clients PROVE Admitted(c)'
  <2> SUFFICES ASSUME req[c].pc \in Waypoints \/ (req[c].pc = "answered" /\ req[c].shows # {})
               PROVE  Admitted(c)'
    BY <1>1 DEF Admitted, RestStays
  <2>1. req[c].since \in Nat
    BY Underway, ReqFields DEF IInv, Waypoints
  <2>2. req[c].since <= now
    BY DEF IInv, Admitted
  <2>3. req'[c].since <= now'
    BY <1>1, <2>1, <2>2 DEF RestStays
  <2> QED BY <1>1, <2>3 DEF IInv, Admitted, Member, Stored, RestStays
<1> QED BY <1>1, <1>2, <1>3, <1>4, <1>5, RestKept DEF IInv

\* POST /auth/login has read the row.
LEMMA FindByEmailKeepsIInv ==
  ASSUME IInv, NEW c \in Clients, NEW u \in Users, FindByEmail(c, u)
  PROVE  IInv'
<1> DEFINE l == [sub |-> u, org |-> users[u].org, role |-> users[u].role, at |-> now]
<1>1. UNCHANGED <<now, users, was, token>> /\ RestStays /\ Stored(users, u)
  BY DEF FindByEmail, rows, RestStays
<1>2. now \in Nat /\ users[u] \in User
  BY <1>1 DEF IInv, TypeOK, Stored
<1>3. l \in Credentials /\ l.sub = u /\ l.org = users[u].org /\ l.at = now
  BY <1>2 DEF Credentials, User
<1>4. login' = [login EXCEPT ![c] = l]
  BY DEF FindByEmail
<1> HIDE DEF l
<1>5. /\ login' \in [Clients -> Credentials \cup {None}]
      /\ login'[c] = l /\ \A d \in Clients \ {c} : login'[d] = login[d]
  BY <1>3, <1>4 DEF IInv, TypeOK
<1>6. TypeOK'
  BY <1>1, <1>5 DEF RestStays, IInv, TypeOK
<1>7. LoginIsDated(c)'
  BY <1>1, <1>2, <1>3, <1>5 DEF LoginIsDated, Stored
<1>8. ASSUME NEW d \in Clients, d # c PROVE LoginIsDated(d)'
  BY <1>1, <1>5, <1>8 DEF IInv, LoginIsDated, Stored
<1>9. ASSUME NEW d \in Clients PROVE TokenIsDated(d)' /\ Admitted(d)'
  BY <1>1 DEF IInv, TokenIsDated, Admitted, Member, Stored, RestStays
<1> QED BY <1>1, <1>6, <1>7, <1>8, <1>9, RestKept DEF IInv

\* It issues the token, of what it read then.
LEMMA IssueKeepsIInv ==
  ASSUME IInv, NEW c \in Clients, Issue(c)
  PROVE  IInv'
<1> DEFINE l == login[c]
           t == Claim(l)
<1>1. UNCHANGED <<now, users, was>> /\ RestStays /\ l # None
  BY DEF Issue, rows, RestStays
<1>2. /\ now \in Nat /\ Ttl \in Nat /\ l \in Credentials
      /\ l.at <= now /\ Stored(users, l.sub)
      /\ users[l.sub].org = l.org \/ \E w \in was[l.sub] : w.org = l.org /\ l.at <= w.until
  BY <1>1, ClockAssumption DEF IInv, TypeOK, LoginIsDated
<1>3. /\ l.at \in Nat /\ l.sub \in Users /\ l.org \in Orgs /\ l.role \in {"scheduler", "candidate"}
  BY <1>2 DEF Credentials
<1>4. login' = [login EXCEPT ![c] = None] /\ token' = [token EXCEPT ![c] = t]
  BY DEF Issue
<1> HIDE DEF l
<1>5. /\ t.sub = l.sub /\ t.org = l.org /\ t.exp = now + Ttl /\ t.took = now - l.at
      /\ t \in Claims
  <2>1. now + Ttl \in Nat /\ now - l.at \in Nat
    BY <1>2, <1>3
  <2> QED BY <1>3, <2>1 DEF Claim, Claims
<1> HIDE DEF t
<1>6. /\ login' \in [Clients -> Credentials \cup {None}]
      /\ token' \in [Clients -> Claims \cup {None}]
      /\ login'[c] = None /\ token'[c] = t
      /\ \A d \in Clients \ {c} : login'[d] = login[d] /\ token'[d] = token[d]
  BY <1>4, <1>5 DEF IInv, TypeOK
<1>7. TypeOK'
  BY <1>1, <1>6 DEF RestStays, IInv, TypeOK
<1>8. TokenIsDated(c)'
  <2>1. ASSUME NEW w \in was[l.sub], l.at <= w.until
        PROVE  t.exp <= w.until + Ttl + t.took
    <3>1. w.until \in Nat
      BY <1>3 DEF IInv, TypeOK
    <3> QED BY <1>2, <1>3, <1>5, <2>1, <3>1
  <2>2. t.exp <= now + Ttl
    BY <1>2, <1>5
  <2>3. users[t.sub].org = t.org
          \/ \E w \in was[t.sub] : w.org = t.org /\ t.exp <= w.until + Ttl + t.took
    <3>1. CASE users[l.sub].org = l.org
      BY <1>5, <3>1
    <3>2. CASE \E w \in was[l.sub] : w.org = l.org /\ l.at <= w.until
      <4>1. PICK w \in was[l.sub] : w.org = l.org /\ l.at <= w.until
        BY <3>2
      <4>2. t.exp <= w.until + Ttl + t.took
        BY <2>1, <4>1
      <4>3. t.sub = l.sub /\ t.org = l.org
        BY <1>5
      <4> QED BY <4>1, <4>2, <4>3
    <3> QED BY <1>2, <3>1, <3>2
  <2>4. Stored(users, t.sub)
    BY <1>2, <1>5
  <2> QED BY <1>1, <1>6, <2>2, <2>3, <2>4 DEF TokenIsDated, Stored
<1>9. ASSUME NEW d \in Clients, d # c PROVE LoginIsDated(d)' /\ TokenIsDated(d)'
  BY <1>1, <1>6, <1>9 DEF IInv, LoginIsDated, TokenIsDated, Stored
<1>10. LoginIsDated(c)' /\ \A d \in Clients : Admitted(d)'
  BY <1>1, <1>6 DEF IInv, LoginIsDated, Admitted, Member, Stored, RestStays
<1> QED BY <1>1, <1>7, <1>8, <1>9, <1>10, RestKept DEF IInv

\* A seed that moves a user leaves a trace of the organization the user was in,
\* which covers the tokens and requests that are under way.
LEMMA UpsertKeepsIInv ==
  ASSUME IInv, NEW u \in Users, NEW o \in Orgs, Upsert(u, o)
  PROVE  IInv'
<1> DEFINE row == [org |-> o, role |-> "scheduler"]
<1>1. UNCHANGED <<now, login, token>> /\ RestStays /\ users' = [users EXCEPT ![u] = row]
  BY DEF Upsert, rows, RestStays
<1>2. now \in Nat /\ Ttl \in Nat /\ users[u] \in User \cup {None}
  BY ClockAssumption DEF IInv, TypeOK
<1>3. row \in User /\ row.org = o
  BY DEF User
<1> HIDE DEF row
<1>4. /\ users' \in [Users -> User \cup {None}]
      /\ \A v \in Users : users'[v] = IF v = u THEN row ELSE users[v]
      /\ row # None
  BY <1>1, <1>3, NoneIsNoRow DEF IInv, TypeOK
<1>5. /\ was' \in [Users -> SUBSET [org : Orgs, until : Nat]]
      /\ \A v \in Users : was[v] \subseteq was'[v]
      /\ Stored(users, u) /\ users[u].org # o =>
           \E w \in was'[u] : w.org = users[u].org /\ w.until = now
  <2>1. CASE Stored(users, u) /\ users[u].org # o
    <3> DEFINE w == [org |-> users[u].org, until |-> now]
    <3>1. users[u] \in User
      BY <1>2, <2>1 DEF Stored
    <3>2. w \in [org : Orgs, until : Nat] /\ w.org = users[u].org /\ w.until = now
      BY <1>2, <3>1 DEF User
    <3>3. was' = [was EXCEPT ![u] = @ \cup {w}]
      BY <2>1 DEF Upsert
    <3> HIDE DEF w
    <3>4. was \in [Users -> SUBSET [org : Orgs, until : Nat]]
      BY DEF IInv, TypeOK
    <3>5. was'[u] = was[u] \cup {w} /\ \A v \in Users \ {u} : was'[v] = was[v]
      BY <3>3, <3>4
    <3>6. was' \in [Users -> SUBSET [org : Orgs, until : Nat]]
      BY <3>2, <3>3, <3>4
    <3> QED BY <3>2, <3>5, <3>6
  <2>2. CASE ~(Stored(users, u) /\ users[u].org # o)
    BY <2>2 DEF Upsert, IInv, TypeOK
  <2> QED BY <2>1, <2>2
<1>6. TypeOK'
  BY <1>1, <1>4, <1>5 DEF RestStays, IInv, TypeOK
<1>7. ASSUME NEW v \in Users, NEW org, Stored(users, v), users[v].org = org
      PROVE  users'[v].org = org \/ \E w \in was'[v] : w.org = org /\ w.until = now
  BY <1>3, <1>4, <1>5, <1>7
<1>8. ASSUME NEW c \in Clients PROVE TokenIsDated(c)'
  <2> SUFFICES ASSUME token[c] # None PROVE TokenIsDated(c)'
    BY <1>1 DEF TokenIsDated
  <2>1. token[c].sub \in Users /\ token[c].exp \in Nat /\ token[c].took \in Nat
    BY DEF IInv, TypeOK, Claims
  <2>2. /\ token[c].exp <= now + Ttl /\ Stored(users, token[c].sub)
        /\ users[token[c].sub].org = token[c].org
           \/ \E w \in was[token[c].sub] :
                w.org = token[c].org /\ token[c].exp <= w.until + Ttl + token[c].took
    BY DEF IInv, TokenIsDated
  <2>3. token[c].exp <= now + Ttl + token[c].took
    BY <1>2, <2>1, <2>2
  <2>4. users'[token[c].sub].org = token[c].org
        \/ \E w \in was'[token[c].sub] :
             w.org = token[c].org /\ token[c].exp <= w.until + Ttl + token[c].took
    BY <1>5, <1>7, <2>1, <2>2, <2>3
  <2> QED BY <1>1, <1>4, <2>1, <2>2, <2>4 DEF TokenIsDated, Stored
<1>9. ASSUME NEW c \in Clients PROVE Admitted(c)'
  <2> SUFFICES ASSUME req[c].pc \in Waypoints \/ (req[c].pc = "answered" /\ req[c].shows # {})
               PROVE  Admitted(c)'
    BY <1>1 DEF Admitted, RestStays
  <2>1. req[c].since \in Nat /\ req[c].took \in Nat
    BY Underway, ReqFields DEF IInv, Waypoints
  <2>2. /\ req[c].user \in Users /\ Stored(users, req[c].user) /\ req[c].since <= now /\ Ttl > 0
        /\ Member(req[c].user, req[c].org, req[c].since, req[c].took)
    BY DEF IInv, Admitted
  <2>3. req[c].since < now + Ttl + req[c].took
    BY <1>2, <2>1, <2>2
  <2>4. users'[req[c].user].org = req[c].org
        \/ \E w \in was'[req[c].user] :
             w.org = req[c].org /\ req[c].since < w.until + Ttl + req[c].took
    BY <1>5, <1>7, <2>2, <2>3 DEF Member
  <2> QED BY <1>1, <1>4, <2>2, <2>4 DEF Admitted, Member, Stored, RestStays
<1>10. ASSUME NEW c \in Clients PROVE LoginIsDated(c)'
  <2> SUFFICES ASSUME login[c] # None PROVE LoginIsDated(c)'
    BY <1>1 DEF LoginIsDated
  <2>1. login[c].sub \in Users
    BY DEF IInv, TypeOK, Credentials
  <2>2. /\ login[c].at <= now /\ Stored(users, login[c].sub)
        /\ users[login[c].sub].org = login[c].org
           \/ \E w \in was[login[c].sub] : w.org = login[c].org /\ login[c].at <= w.until
    BY DEF IInv, LoginIsDated
  <2>3. users'[login[c].sub].org = login[c].org
        \/ \E w \in was'[login[c].sub] : w.org = login[c].org /\ login[c].at <= w.until
    BY <1>5, <1>7, <2>1, <2>2
  <2> QED BY <1>1, <1>4, <2>1, <2>2, <2>3 DEF LoginIsDated, Stored
<1> QED BY <1>1, <1>6, <1>8, <1>9, <1>10, RestKept DEF IInv
-----------------------------------------------------------------------------
(* Theorems *)

\* The invariant holds at first ...
LEMMA InitIsIInv == Init => IInv
<1> SUFFICES ASSUME Init PROVE IInv
  OBVIOUS
<1>1. /\ now = 0 /\ users = Registered /\ was = [u \in Users |-> {}]
      /\ login = [c \in Clients |-> None] /\ token = [c \in Clients |-> None] /\ jobs = FirstJobs /\ cands = FirstCands
      /\ sessions = [s \in SessIds |-> None] /\ mails = {}
      /\ calls = [c \in Clients |-> 0] /\ req = [c \in Clients |-> [pc |-> "idle"]]
  BY DEF Init
<1>2. TypeOK
  BY <1>1, RowsAssumption DEF TypeOK
<1>3. SessionIsOneOrgs
  BY <1>1 DEF SessionIsOneOrgs, Stored
<1>4. ASSUME NEW c \in Clients
      PROVE  Found(c) /\ Shown(c) /\ LoginIsDated(c) /\ TokenIsDated(c) /\ Admitted(c)
  <2>1. req[c].pc = "idle" /\ login[c] = None /\ token[c] = None
    BY <1>1
  <2> QED BY <2>1 DEF Found, Shown, LoginIsDated, TokenIsDated, Admitted, Waypoints
<1> QED BY <1>2, <1>3, <1>4 DEF IInv

\* ... and every step keeps it.
LEMMA IInvHolds == Spec => []IInv
<1>1. IInv /\ UNCHANGED vars => IInv'
  <2> SUFFICES ASSUME IInv, UNCHANGED vars PROVE IInv'
    OBVIOUS
  <2>1. UNCHANGED <<now, users, was, login, token>> /\ RestStays
    BY DEF vars, rows, RestStays
  <2>2. TypeOK'
    BY <2>1 DEF RestStays, IInv, TypeOK
  <2>3. ASSUME NEW c \in Clients PROVE LoginIsDated(c)' /\ TokenIsDated(c)' /\ Admitted(c)'
    BY <2>1 DEF IInv, LoginIsDated, TokenIsDated, Admitted, Member, Stored, RestStays
  <2> QED BY <2>1, <2>2, <2>3, RestKept DEF IInv
<1>2. IInv /\ Next => IInv'
  BY TickKeepsIInv, UpsertKeepsIInv, FindByEmailKeepsIInv, IssueKeepsIInv, RequestKeepsIInv,
     StepKeepsIInv DEF Next
<1> QED BY <1>1, <1>2, InitIsIInv, PTL DEF Spec

\* Rows, tokens and requests keep their types: what validation refuses is never
\* stored, and an interview lasts 5 to 120 minutes.
THEOREM RecruitingTypeCorrect == Spec => []TypeOK
<1>1. IInv => TypeOK
  BY DEF IInv
<1> QED BY <1>1, IInvHolds, PTL

\* An interview, its job and its candidate are one organization's, however many
\* requests create, check and insert rows between each other's statements.
THEOREM SessionIsOneOrgsHolds == Spec => []SessionIsOneOrgs
<1>1. IInv => SessionIsOneOrgs
  BY DEF IInv
<1> QED BY <1>1, IInvHolds, PTL

\* Rows are shown to the organization that owns them, and to a user who was in it
\* less than a token's lifetime, and what the login took, before the request.
THEOREM ShownToMembersHolds == Spec => []ShownToMembers
<1>1. IInv => ShownToMembers
  <2> SUFFICES ASSUME IInv, NEW c \in Clients, req[c].pc = "answered", req[c].shows # {}
               PROVE  /\ req[c].shows \subseteq OwnRows(req[c].org, req[c].ask.kind)
                      /\ Member(req[c].user, req[c].org, req[c].since, req[c].took)
    BY DEF ShownToMembers, Member
  <2>1. req[c].shows \subseteq OwnRows(req[c].org, req[c].ask.kind)
    BY DEF IInv, Shown
  <2>2. Member(req[c].user, req[c].org, req[c].since, req[c].took)
    BY DEF IInv, Admitted
  <2> QED BY <2>1, <2>2
<1> QED BY <1>1, IInvHolds, PTL
-----------------------------------------------------------------------------
(* What POST /interviews leaves behind *)

\* Before and after the insert of POST /interviews.
Early == {"admitted", "job found", "both found"}
Late == {"stored", "loaded", "addressed"}

\* No mail has the link of what c's request stored.
Uninvited(c) == \A s \in StoredBy(c), m \in mails : m.link # sessions[s].link

\* What c's request has stored, by how far it has got.
Ledger(c) ==
  /\ req[c].pc \in Early => StoredBy(c) = {}
  /\ req[c].pc \in Late => StoredBy(c) = {req[c].sess} /\ Uninvited(c)
  /\ req[c].pc = "answered" /\ req[c].ask.kind = "schedule" =>
       /\ req[c].status = 201 => \E s \in SessIds : req[c].shows = {s} /\ StoredBy(c) = {s}
       /\ req[c].status = 500 => Uninvited(c)
       /\ req[c].status \notin {201, 500} => StoredBy(c) = {}

\* UNIQUE (join_token).
LinksDiffer ==
  \A s, t \in SessIds :
    Stored(sessions, s) /\ Stored(sessions, t) /\ sessions[s].link = sessions[t].link => s = t

\* A mail speaks of a session and reaches its candidate.
MailsLead ==
  \A m \in mails :
    \E s \in SessIds :
      /\ Stored(sessions, s)
      /\ sessions[s].at = m.at /\ sessions[s].link = m.link
      /\ cands[sessions[s].cand].email = m.to

\* No session was stored by a request that is yet to come.
CallsCounted ==
  \A s \in SessIds :
    Stored(sessions, s) => sessions[s].by[2] <= calls[sessions[s].by[1]]

\* The inductive invariant, beside IInv.
LInv == LinksDiffer /\ MailsLead /\ CallsCounted /\ \A c \in Clients : Ledger(c)
-----------------------------------------------------------------------------
(* What stays *)

\* A ledger nobody touches.
LEMMA LedgerStays ==
  ASSUME NEW c \in Clients, Ledger(c), req'[c] = req[c], StoredBy(c)' = StoredBy(c),
         \A s \in StoredBy(c) : sessions'[s].link = sessions[s].link,
         \A m \in mails' \ mails, s \in StoredBy(c) : m.link # sessions[s].link
  PROVE  Ledger(c)'
<1>1. Uninvited(c) => Uninvited(c)'
  BY DEF Uninvited
<1> QED BY <1>1 DEF Ledger

\* The links and mails that are there stay good while rows stay.
LEMMA MailsStay ==
  ASSUME IInv, LInv, RowsKeep, UNCHANGED <<sessions, mails>>
  PROVE  LinksDiffer' /\ MailsLead'
<1>1. LinksDiffer'
  BY DEF LInv, LinksDiffer, Stored
<1>2. ASSUME NEW m \in mails
      PROVE  \E s \in SessIds : /\ Stored(sessions, s)
                                /\ sessions[s].at = m.at /\ sessions[s].link = m.link
                                /\ cands'[sessions[s].cand].email = m.to
  <2>1. PICK s \in SessIds : /\ Stored(sessions, s)
                             /\ sessions[s].at = m.at /\ sessions[s].link = m.link
                             /\ cands[sessions[s].cand].email = m.to
    BY DEF LInv, MailsLead
  <2>2. sessions[s].cand \in CandIds
    BY <2>1 DEF IInv, TypeOK, Session, Stored
  <2>3. Stored(cands, sessions[s].cand)
    BY <2>1 DEF IInv, SessionIsOneOrgs, CandInOrg
  <2>4. cands'[sessions[s].cand].email = cands[sessions[s].cand].email
    BY <2>2, <2>3 DEF RowsKeep
  <2> QED BY <2>1, <2>4
<1>3. MailsLead'
  BY <1>2 DEF MailsLead, Stored
<1> QED BY <1>1, <1>3

\* What was stored by a request, while sessions and counters stay.
LEMMA StoredByStays ==
  ASSUME NEW c \in Clients, sessions' = sessions, calls'[c] = calls[c]
  PROVE  StoredBy(c)' = StoredBy(c)
  BY DEF StoredBy, Stored

\* The other clients' ledgers in a step of c's that writes no session and no mail.
LEMMA OthersStay ==
  ASSUME LInv, NEW c \in Clients, NEW d \in Clients, d # c,
         UNCHANGED <<sessions, mails>>, req'[d] = req[d], calls'[d] = calls[d]
  PROVE  Ledger(d)'
<1>1. StoredBy(d)' = StoredBy(d)
  BY StoredByStays
<1> QED BY <1>1, LedgerStays DEF LInv

\* A step of c's that writes no session and no mail leaves its own ledger to show.
LEMMA OwnLedger ==
  ASSUME IInv, LInv, NEW c \in Clients, Effect(c), UNCHANGED <<sessions, mails>>, Ledger(c)'
  PROVE  LInv'
<1>1. RowsKeep /\ calls' = calls
  BY DEF Effect
<1>2. LinksDiffer' /\ MailsLead'
  BY <1>1, MailsStay
<1>3. CallsCounted'
  BY <1>1 DEF LInv, CallsCounted, Stored
<1>4. ASSUME NEW d \in Clients, d # c PROVE Ledger(d)'
  <2>1. req'[d] = req[d]
    BY <1>4 DEF Effect, OthersKept
  <2> QED BY <1>1, <1>4, <2>1, OthersStay
<1> QED BY <1>2, <1>3, <1>4 DEF LInv
-----------------------------------------------------------------------------
(* Steps that store no session *)

\* Handlers of jobs and candidates, and of reading interviews.
Elsewhere(c) ==
  JobStep(c) \/ CandidateStep(c) \/ GetInterview(c) \/ ListInterviews(c)

\* None of them stores an interview or sends a mail.
LEMMA ElsewhereKeepsLInv ==
  ASSUME IInv, LInv, NEW c \in Clients, Effect(c), Elsewhere(c)
  PROVE  LInv'
<1>1. UNCHANGED <<sessions, mails>>
  BY DEF Elsewhere, JobStep, CreateJob, UpdateJob, GetJob, ListJobs, CandidateStep,
         CreateCandidate, UpdateCandidate, GetCandidate, ListCandidates, GetInterview,
         ListInterviews, rows
<1>2. req[c].pc = "admitted" /\ req[c].ask.kind # "schedule"
  BY DEF Elsewhere, JobStep, CreateJob, UpdateJob, GetJob, ListJobs, CandidateStep,
         CreateCandidate, UpdateCandidate, GetCandidate, ListCandidates, GetInterview,
         ListInterviews, Doing
<1>3. req[c] \in Req /\ req \in [Clients -> {[pc |-> "idle"]} \cup Req]
  BY <1>2, Underway DEF IInv, TypeOK
<1>4. \E status, shows : Answer(c, status, shows)
  <2>1. CASE \E kind : Refuse(c, kind)
    BY <2>1 DEF Refuse
  <2>2. DbError(c) => \E kind : Refuse(c, kind)
    BY DEF DbError
  <2>3. CASE JobStep(c)
    BY <2>1, <2>2, <2>3 DEF JobStep, CreateJob, UpdateJob, GetJob, ListJobs
  <2>4. CASE CandidateStep(c)
    BY <2>1, <2>2, <2>4 DEF CandidateStep, CreateCandidate, UpdateCandidate, GetCandidate,
                            ListCandidates
  <2>5. CASE GetInterview(c) \/ ListInterviews(c)
    BY <2>1, <2>2, <2>5 DEF GetInterview, ListInterviews
  <2> QED BY <2>3, <2>4, <2>5 DEF Elsewhere
<1>5. req'[c].pc = "answered"
  BY <1>3, <1>4 DEF Answer, Req
<1>6. req'[c].ask.kind # "schedule"
  BY <1>2 DEF Effect, SameRequest
<1>7. Ledger(c)'
  BY <1>5, <1>6 DEF Ledger, Early, Late
<1> QED BY <1>1, <1>7, OwnLedger

\* The job and the candidate are looked for: nothing is stored yet.
LEMMA CheckKeepsLInv ==
  ASSUME IInv, LInv, NEW c \in Clients, Effect(c), CheckJob(c) \/ CheckCandidate(c)
  PROVE  LInv'
<1>1. UNCHANGED <<sessions, mails, calls>> /\ req[c].pc \in {"admitted", "job found"}
  BY DEF CheckJob, CheckCandidate, rows, Doing
<1>2. req[c] \in Req /\ TypeOK
  BY <1>1, Underway DEF IInv
<1>3. StoredBy(c)' = {}
  <2>1. StoredBy(c) = {}
    BY <1>1 DEF LInv, Ledger, Early
  <2> QED BY <1>1, <2>1, StoredByStays
<1>4. CASE \E kind : Refuse(c, kind)
  <2>1. req'[c].pc = "answered" /\ req'[c].status # 201
    BY <1>2, <1>4, RefuseTyped
  <2> QED BY <1>1, <1>3, <2>1, OwnLedger DEF Ledger, Uninvited, Early, Late
<1>5. CASE \E pc \in Early : GoTo(c, pc)
  <2>1. req'[c].pc \in Early
    BY <1>2, <1>5, GoToTyped DEF Early, Waypoints
  <2> QED BY <1>1, <1>3, <2>1, OwnLedger DEF Ledger, Early, Late
<1> QED BY <1>4, <1>5 DEF CheckJob, CheckCandidate, DbError, Early

\* The session is read back and the address looked up: no mail is out yet.
LEMMA ReloadKeepsLInv ==
  ASSUME IInv, LInv, NEW c \in Clients, Effect(c), Reload(c) \/ LookUpCandidate(c)
  PROVE  LInv'
<1>1. UNCHANGED <<sessions, mails, calls>> /\ req[c].pc \in {"stored", "loaded"}
  BY DEF Reload, LookUpCandidate, rows
<1>2. req[c] \in Req /\ req \in [Clients -> {[pc |-> "idle"]} \cup Req]
  BY <1>1, Underway DEF IInv, TypeOK
<1>3. /\ StoredBy(c)' = {req[c].sess} /\ Uninvited(c)'
      /\ req[c].sess \in SessIds
  <2>1. StoredBy(c) = {req[c].sess} /\ Uninvited(c)
    BY <1>1 DEF LInv, Ledger, Late
  <2>2. req[c].sess \in SessIds
    BY <1>1 DEF IInv, Found
  <2> QED BY <1>1, <2>1, <2>2, StoredByStays DEF Uninvited
<1>4. CASE req'[c].pc \in Late /\ req'[c].sess = req[c].sess
  BY <1>1, <1>3, <1>4, OwnLedger DEF Ledger, Early, Late
<1>5. CASE DbError(c)
  <2>1. req'[c].pc = "answered" /\ req'[c].status = 500
    BY <1>2, <1>5, DbErrorTyped DEF IInv
  <2>2. Ledger(c)'
    BY <1>3, <2>1 DEF Ledger, Early, Late
  <2> QED BY <1>1, <2>2, OwnLedger
<1>6. CASE Scheduled(c)
  <2>1. /\ req'[c].pc = "answered" /\ req'[c].status = 201
        /\ req'[c].shows = {req[c].sess}
    BY <1>2, <1>6 DEF Scheduled, Answer, Req
  <2> QED BY <1>1, <1>3, <2>1, OwnLedger DEF Ledger, Early, Late
<1>7. CASE Reload(c) /\ ~DbError(c)
  <2>1. req' = [req EXCEPT ![c].pc = "loaded",
                           ![c].title = jobs[sessions[req[c].sess].job].title]
    BY <1>7 DEF Reload
  <2>2. req'[c].pc = "loaded" /\ req'[c].sess = req[c].sess
    BY <1>2, <2>1 DEF Req
  <2> QED BY <1>4, <2>2 DEF Late
<1>8. CASE LookUpCandidate(c) /\ ~Scheduled(c)
  <2>1. req' = [req EXCEPT ![c].pc = "addressed", ![c].to = cands[req[c].ask.cand].email]
    BY <1>8 DEF LookUpCandidate
  <2>2. req'[c].pc = "addressed" /\ req'[c].sess = req[c].sess
    BY <1>2, <2>1 DEF Req
  <2> QED BY <1>4, <2>2 DEF Late
<1> QED BY <1>5, <1>6, <1>7, <1>8
-----------------------------------------------------------------------------
(* The insert *)

\* A new session has a link of its own, so no mail leads to it yet.
LEMMA NewSessionUninvited ==
  ASSUME IInv, LInv, NEW c \in Clients, NEW s \in SessIds, NEW link \in Links,
         RowsKeep, req[c].pc \in Early, ~Used(link), ~Stored(sessions, s),
         Stored(sessions', s), sessions' = [sessions EXCEPT ![s] = NewSession(c, link)],
         UNCHANGED <<cands, mails, calls>>
  PROVE  /\ LinksDiffer' /\ MailsLead' /\ CallsCounted'
         /\ StoredBy(c)' = {s} /\ Uninvited(c)'
         /\ \A d \in Clients \ {c} : StoredBy(d)' = StoredBy(d)
<1> DEFINE new == NewSession(c, link)
<1>1. new.link = link /\ new.by = <<c, calls[c]>> /\ calls[c] \in Nat
  BY DEF NewSession, IInv, TypeOK
<1> HIDE DEF new
<1>2. \A t \in SessIds : sessions'[t] = IF t = s THEN new ELSE sessions[t]
  BY DEF IInv, TypeOK, new
<1>3. \A t \in SessIds : Stored(sessions', t) <=> t = s \/ Stored(sessions, t)
  BY <1>2 DEF Stored
<1>4. \A t \in SessIds : Stored(sessions, t) => t # s /\ sessions'[t] = sessions[t]
  BY <1>2
<1>5. \A t \in SessIds : Stored(sessions, t) => sessions[t].link # link
  BY DEF Used
<1>6. LinksDiffer'
  BY <1>1, <1>2, <1>3, <1>4, <1>5 DEF LInv, LinksDiffer, Stored
<1>7. MailsLead'
  BY <1>3, <1>4 DEF LInv, MailsLead, Stored
<1>8. CallsCounted'
  BY <1>1, <1>2, <1>3, <1>4 DEF LInv, CallsCounted, Stored
<1>9. StoredBy(c) = {}
  BY DEF LInv, Ledger
<1>10. StoredBy(c)' = {s}
  BY <1>1, <1>2, <1>3, <1>4, <1>9 DEF StoredBy
<1>11. Uninvited(c)'
  <2>1. \A m \in mails : m.link # link
    BY <1>5 DEF LInv, MailsLead
  <2> QED BY <1>1, <1>2, <1>10, <2>1 DEF Uninvited
<1>12. ASSUME NEW d \in Clients \ {c} PROVE StoredBy(d)' = StoredBy(d)
  <2>1. calls'[d] = calls[d] /\ new.by # <<d, calls[d]>>
    BY <1>1
  <2> QED BY <1>2, <1>3, <1>4, <2>1 DEF StoredBy
<1> QED BY <1>6, <1>7, <1>8, <1>10, <1>11, <1>12

\* InterviewRepo.Schedule.
LEMMA InsertKeepsLInv ==
  ASSUME IInv, LInv, NEW c \in Clients, NEW s \in SessIds, NEW link \in Links,
         Effect(c), InsertSession(c, s, link)
  PROVE  LInv'
<1>1. UNCHANGED <<cands, mails, calls>> /\ req[c].pc = "both found" /\ req[c].pc \in Early
  BY DEF InsertSession, Early
<1>2. req[c] \in Req /\ TypeOK
  BY <1>1, Underway DEF IInv
<1>3. CASE UNCHANGED sessions /\ \E kind : Refuse(c, kind)
  <2>1. req'[c].pc = "answered" /\ req'[c].status # 201
    BY <1>2, <1>3, RefuseTyped
  <2>2. StoredBy(c) = {}
    BY <1>1 DEF LInv, Ledger
  <2>3. StoredBy(c)' = {}
    BY <1>1, <1>3, <2>2, StoredByStays
  <2>4. Ledger(c)'
    BY <2>1, <2>3 DEF Ledger, Uninvited, Early, Late
  <2> QED BY <1>1, <1>3, <2>4, OwnLedger
<1>4. CASE /\ ~Used(link) /\ ~Stored(sessions, s)
           /\ sessions' = [sessions EXCEPT ![s] = NewSession(c, link)]
           /\ DbError(c) \/ req' = [req EXCEPT ![c].pc = "stored", ![c].sess = s]
  <2>1. RowsKeep /\ Stored(sessions', s)
    <3>1. UNCHANGED <<jobs, cands, mails>>
      BY DEF InsertSession
    <3> QED BY <1>1, <1>4, <3>1, SessionWritten DEF IInv
  <2>2. /\ LinksDiffer' /\ MailsLead' /\ CallsCounted'
        /\ StoredBy(c)' = {s} /\ Uninvited(c)'
        /\ \A d \in Clients \ {c} : StoredBy(d)' = StoredBy(d)
    BY <1>1, <1>4, <2>1, NewSessionUninvited
  <2>3. \/ req'[c].pc = "answered" /\ req'[c].status = 500
        \/ req'[c].pc = "stored" /\ req'[c].sess = s
    BY <1>2, <1>4, DbErrorTyped, StoredTyped
  <2>4. Ledger(c)'
    <3>1. CASE req'[c].pc = "answered" /\ req'[c].status = 500
      BY <2>2, <3>1 DEF Ledger, Early, Late
    <3>2. CASE req'[c].pc = "stored" /\ req'[c].sess = s
      BY <2>2, <3>2 DEF Ledger, Early, Late
    <3> QED BY <2>3, <3>1, <3>2
  <2>5. ASSUME NEW d \in Clients, d # c PROVE Ledger(d)'
    <3>1. req'[d] = req[d] /\ StoredBy(d)' = StoredBy(d) /\ mails' = mails
      BY <1>1, <2>2, <2>5 DEF Effect, OthersKept
    <3>2. \A t \in StoredBy(d) : sessions'[t].link = sessions[t].link
      BY <2>1 DEF StoredBy, RowsKeep
    <3> QED BY <3>1, <3>2, LedgerStays DEF LInv
  <2> QED BY <2>2, <2>4, <2>5 DEF LInv
<1> QED BY <1>3, <1>4 DEF InsertSession, NewSession, DbError
-----------------------------------------------------------------------------
(* The invitation *)

\* sendInvite: the mail has the link of the session that was stored.
LEMMA SendKeepsLInv ==
  ASSUME IInv, LInv, NEW c \in Clients, Effect(c), SendInvite(c)
  PROVE  LInv'
<1> DEFINE s == req[c].sess
<1>1. /\ UNCHANGED <<cands, sessions, calls>> /\ req[c].pc = "addressed"
      /\ mails' \in {mails, mails \cup {InviteEmail(c)}} /\ Scheduled(c)
  BY DEF SendInvite, rows
<1>2. req[c] \in Req /\ req \in [Clients -> {[pc |-> "idle"]} \cup Req]
  BY <1>1, Underway DEF IInv, TypeOK
<1>3. /\ s \in SessIds /\ Stored(sessions, s) /\ sessions[s].by = <<c, calls[c]>>
      /\ sessions[s].at = req[c].ask.at /\ sessions[s].cand = req[c].ask.cand
      /\ req[c].to = cands[req[c].ask.cand].email
  BY <1>1 DEF IInv, Found
<1>4. StoredBy(c)' = {s}
  <2>1. StoredBy(c) = {s}
    BY <1>1 DEF LInv, Ledger, Late
  <2> QED BY <1>1, <2>1, StoredByStays
<1>5. req'[c].pc = "answered" /\ req'[c].status = 201 /\ req'[c].shows = {s}
  BY <1>1, <1>2 DEF Scheduled, Answer, Req
<1> HIDE DEF s
<1>6. Ledger(c)'
  BY <1>3, <1>4, <1>5 DEF Ledger, Early, Late
<1>7. LinksDiffer' /\ CallsCounted'
  BY <1>1 DEF LInv, LinksDiffer, CallsCounted, Stored
<1>8. /\ InviteEmail(c).link = sessions[s].link /\ InviteEmail(c).at = sessions[s].at
      /\ InviteEmail(c).to = cands[sessions[s].cand].email
  BY <1>3 DEF InviteEmail, s
<1>9. MailsLead'
  <2>1. ASSUME NEW m \in mails', m \notin mails
        PROVE  /\ sessions[s].at = m.at /\ sessions[s].link = m.link
               /\ cands[sessions[s].cand].email = m.to
    BY <1>1, <1>8, <2>1
  <2> QED BY <1>1, <1>3, <2>1 DEF LInv, MailsLead, Stored
<1>10. ASSUME NEW d \in Clients, d # c PROVE Ledger(d)'
  <2>1. req'[d] = req[d] /\ StoredBy(d)' = StoredBy(d)
    BY <1>1, <1>10, StoredByStays DEF Effect, OthersKept
  <2>2. ASSUME NEW t \in StoredBy(d) PROVE InviteEmail(c).link # sessions[t].link
    <3>1. t \in SessIds /\ Stored(sessions, t) /\ t # s
      BY <1>3, <1>10 DEF StoredBy
    <3> QED BY <1>3, <1>8, <3>1 DEF LInv, LinksDiffer
  <2> QED BY <1>1, <2>1, <2>2, LedgerStays DEF LInv
<1> QED BY <1>6, <1>7, <1>9, <1>10 DEF LInv
-----------------------------------------------------------------------------
(* Everything else *)

\* A request that begins has stored nothing.
LEMMA RequestKeepsLInv ==
  ASSUME IInv, LInv, NEW c \in Clients, NEW ask \in Asks, Request(c, ask)
  PROVE  LInv'
<1>1. /\ UNCHANGED <<sessions, mails, cands>> /\ RowsKeep
      /\ calls' = [calls EXCEPT ![c] = @ + 1]
  BY RowsStay DEF Request, rows
<1>2. /\ calls \in [Clients -> Nat]
      /\ req \in [Clients -> {[pc |-> "idle"]} \cup Req]
  BY DEF IInv, TypeOK
<1>3. /\ req'[c].pc \in {"answered", "admitted"} /\ req'[c].status # 201
      /\ \A d \in Clients \ {c} : req'[d] = req[d]
  BY <1>2 DEF Request, Begun, RespondError
<1>4. LinksDiffer' /\ MailsLead'
  BY <1>1, MailsStay
<1>5. ASSUME NEW s \in SessIds, Stored(sessions, s)
      PROVE  /\ sessions[s].by \in Clients \X Nat
             /\ sessions[s].by[2] <= calls[sessions[s].by[1]]
  BY <1>5 DEF IInv, TypeOK, Session, Stored, LInv, CallsCounted
<1>6. CallsCounted'
  BY <1>1, <1>2, <1>5 DEF CallsCounted, Stored
<1>7. StoredBy(c)' = {}
  <2>1. ASSUME NEW s \in SessIds, Stored(sessions, s), sessions[s].by = <<c, calls[c] + 1>>
        PROVE  FALSE
    BY <1>2, <1>5, <2>1
  <2> QED BY <1>1, <1>2, <2>1 DEF StoredBy, Stored
<1>8. Ledger(c)'
  BY <1>3, <1>7 DEF Ledger, Uninvited, Early, Late
<1>9. ASSUME NEW d \in Clients, d # c PROVE Ledger(d)'
  <2>1. req'[d] = req[d] /\ calls'[d] = calls[d]
    BY <1>1, <1>2, <1>3, <1>9
  <2> QED BY <1>1, <1>9, <2>1, OthersStay
<1> QED BY <1>4, <1>6, <1>8, <1>9 DEF LInv

\* Steps of nobody's request.
LEMMA RestKeepsLInv ==
  ASSUME IInv, LInv, UNCHANGED <<rows, mails, calls, req>>
  PROVE  LInv'
<1>1. UNCHANGED <<sessions, mails, calls, req>> /\ RowsKeep
  BY RowsStay DEF rows
<1>2. LinksDiffer' /\ MailsLead'
  BY <1>1, MailsStay
<1>3. CallsCounted'
  BY <1>1 DEF LInv, CallsCounted, Stored
<1>4. ASSUME NEW c \in Clients PROVE Ledger(c)'
  <2>1. StoredBy(c)' = StoredBy(c)
    BY <1>1, StoredByStays
  <2> QED BY <1>1, <2>1, LedgerStays DEF LInv
<1> QED BY <1>2, <1>3, <1>4 DEF LInv

\* Each step keeps the invariant.
LEMMA NextKeepsLInv ==
  ASSUME IInv, LInv, Next
  PROVE  LInv'
<1>1. CASE Tick
  BY <1>1, RestKeepsLInv DEF Tick
<1>2. CASE \E u \in Users, o \in Orgs : Upsert(u, o)
  BY <1>2, RestKeepsLInv DEF Upsert
<1>3. CASE \E c \in Clients : Issue(c) \/ \E u \in Users : FindByEmail(c, u)
  BY <1>3, RestKeepsLInv DEF Issue, FindByEmail
<1>4. CASE \E c \in Clients, ask \in Asks : Request(c, ask)
  BY <1>4, RequestKeepsLInv
<1>5. ASSUME NEW c \in Clients, JobStep(c) \/ CandidateStep(c) \/ InterviewStep(c)
      PROVE  LInv'
  <2>1. Effect(c)
    BY <1>5, StepEffect DEF IInv
  <2>2. CASE Elsewhere(c)
    BY <2>1, <2>2, ElsewhereKeepsLInv
  <2>3. CASE CheckJob(c) \/ CheckCandidate(c)
    BY <2>1, <2>3, CheckKeepsLInv
  <2>4. CASE \E s \in SessIds, link \in Links : InsertSession(c, s, link)
    BY <2>1, <2>4, InsertKeepsLInv
  <2>5. CASE Reload(c) \/ LookUpCandidate(c)
    BY <2>1, <2>5, ReloadKeepsLInv
  <2>6. CASE SendInvite(c)
    BY <2>1, <2>6, SendKeepsLInv
  <2> QED BY <1>5, <2>2, <2>3, <2>4, <2>5, <2>6 DEF InterviewStep, Elsewhere
<1> QED BY <1>1, <1>2, <1>3, <1>4, <1>5 DEF Next

\* The invariant holds at first ...
LEMMA InitIsLInv == Init => LInv
<1> SUFFICES ASSUME Init PROVE LInv
  OBVIOUS
<1>1. /\ sessions = [s \in SessIds |-> None] /\ mails = {}
      /\ req = [c \in Clients |-> [pc |-> "idle"]]
  BY DEF Init
<1>2. \A s \in SessIds : ~Stored(sessions, s)
  BY <1>1 DEF Stored
<1>3. LinksDiffer /\ MailsLead /\ CallsCounted
  BY <1>1, <1>2 DEF LinksDiffer, MailsLead, CallsCounted
<1>4. ASSUME NEW c \in Clients PROVE Ledger(c)
  <2>1. req[c].pc = "idle"
    BY <1>1
  <2> QED BY <2>1 DEF Ledger, Early, Late
<1> QED BY <1>3, <1>4 DEF LInv

\* ... and every step keeps it.
LEMMA LInvHolds == Spec => []LInv
<1>1. IInv /\ LInv /\ UNCHANGED vars => LInv'
  <2> SUFFICES ASSUME IInv, LInv, UNCHANGED vars PROVE LInv'
    OBVIOUS
  <2>1. UNCHANGED <<rows, mails, calls, req>>
    BY DEF vars, rows
  <2> QED BY <2>1, RestKeepsLInv
<1>2. IInv /\ LInv /\ Next => LInv'
  BY NextKeepsLInv
<1> QED BY <1>1, <1>2, InitIsLInv, IInvHolds, PTL DEF Spec
-----------------------------------------------------------------------------
(* Theorems *)

\* Every invitation that went out leads its candidate to the one interview with
\* its link, at the time it states, whatever requests and updates ran in between.
THEOREM InviteLeadsToCallHolds == Spec => []InviteLeadsToCall
<1>1. LInv => InviteLeadsToCall
  <2> SUFFICES ASSUME LInv, NEW m \in mails
               PROVE  \E s \in SessIds :
                        /\ Stored(sessions, s)
                        /\ sessions[s].at = m.at
                        /\ cands[sessions[s].cand].email = m.to
                        /\ {x \in SessIds : Stored(sessions, x) /\ sessions[x].link = m.link} = {s}
    BY DEF InviteLeadsToCall
  <2>1. PICK s \in SessIds : /\ Stored(sessions, s)
                             /\ sessions[s].at = m.at /\ sessions[s].link = m.link
                             /\ cands[sessions[s].cand].email = m.to
    BY DEF LInv, MailsLead
  <2>2. {x \in SessIds : Stored(sessions, x) /\ sessions[x].link = m.link} = {s}
    BY <2>1 DEF LInv, LinksDiffer
  <2> QED BY <2>1, <2>2
<1> QED BY <1>1, LInvHolds, PTL

\* 201 means one new interview, the one shown; a refusal means none; after an
\* internal error there may be one, but nobody was invited to it.
THEOREM AnswerMatchesEffectsHolds == Spec => []AnswerMatchesEffects
<1>1. LInv => AnswerMatchesEffects
  <2> SUFFICES ASSUME LInv, NEW c \in Clients,
                      req[c].pc = "answered", req[c].ask.kind = "schedule"
               PROVE  CASE req[c].status = 201 ->
                             Cardinality(req[c].shows) = 1 /\ StoredBy(c) = req[c].shows
                        [] req[c].status = 500 ->
                             \A s \in StoredBy(c), m \in mails : m.link # sessions[s].link
                        [] OTHER -> StoredBy(c) = {}
    BY DEF AnswerMatchesEffects
  <2>1. /\ req[c].status = 201 => \E s \in SessIds : req[c].shows = {s} /\ StoredBy(c) = {s}
        /\ req[c].status = 500 => Uninvited(c)
        /\ req[c].status \notin {201, 500} => StoredBy(c) = {}
    BY DEF LInv, Ledger
  <2>2. \A s : Cardinality({s}) = 1
    BY FS_Singleton
  <2>3. req[c].status = 201 => Cardinality(req[c].shows) = 1 /\ StoredBy(c) = req[c].shows
    BY <2>1, <2>2
  <2> QED BY <2>1, <2>3 DEF Uninvited
<1> QED BY <1>1, LInvHolds, PTL
=============================================================================
