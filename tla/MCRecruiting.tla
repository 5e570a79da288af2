---------------------------- MODULE MCRecruiting ----------------------------
\* A scheduler of one organization, with a job and a candidate, whom a seed may
\* move to another organization; room for one more job and one more candidate.
EXTENDS Recruiting, TLC

CONSTANTS j1, d1

MCRegistered == [u \in Users |-> [org |-> "acme", role |-> "candidate"]]
MCFirstJobs ==
  [j \in JobIds |-> IF j = j1 THEN [org |-> "acme", title |-> "title"] ELSE None]
MCFirstCands ==
  [d \in CandIds |->
     IF d = d1 THEN [org |-> "acme", email |-> "mail1", name |-> "title"] ELSE None]

MCAsks ==
  [kind : {"create job"}, title : Texts]
  \cup [kind : {"update job"}, id : {j1}, title : Text \cup {Absent}, rest : {Absent}]
  \cup [kind : {"get job"}, id : {j1}]
  \cup [kind : {"create candidate"}, name : {"title"}, email : Addresses]
  \cup [kind : {"update candidate"}, id : {d1}, name : {Absent}, rest : {"fits", Malformed}]
  \cup [kind : {"get candidate"}, id : {d1}]
  \cup [kind : {"schedule"}, job : {j1}, cand : CandIds, at : {1}, minutes : {0}]
  \cup [kind : {"schedule"}, job : {j1}, cand : {d1}, at : {1}, minutes : {3}]
  \cup [kind : {"get interview"}, id : SessIds]
  \cup [kind : {"me", "list jobs", "list candidates"}]
  \cup [kind : {"list interviews"}, job : {Absent}]

MCSymmetry ==
  Permutations(Clients) \cup Permutations(SessIds) \cup Permutations(Links)
=============================================================================
