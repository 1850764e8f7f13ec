---- MODULE Interview ----
(***************************************************************************)
(* Consent-based outreach and the founder interview: app/outreach.py and   *)
(* app/interview.py behind the handlers of app/api.py.                     *)
(*                                                                         *)
(* The server runs one handler at a time: every handler is a coroutine     *)
(* that never awaits once it has read the request body.  A handler is a    *)
(* chain of calls to the mailer, the store, the model and the rescorer.    *)
(* Each call is one step of this module (step, tok), so that other         *)
(* processes run between two of them and any of them may fail: Fail        *)
(* abandons the rest of the handler, as an exception does, and Restart     *)
(* also loses what the process holds in memory.  A write whose answer is   *)
(* lost is the write followed by Fail.  The store is taken at its word     *)
(* (app/store.py, DataStore): a merge that returned is there for good, as  *)
(* in the warehouse; with fixtures a restart empties the tables as well.   *)
(*                                                                         *)
(* A link is its token: a row of gold.outreach is found by the hash of the *)
(* token, so tokens stand for rows.  The statuses no code ever writes      *)
(* (draft, approved, bounced, replied, interview_scheduled, closed,        *)
(* expired) do not occur.                                                  *)
(***************************************************************************)
EXTENDS Naturals, Sequences, FiniteSets

CONSTANTS
  Persons,       \* persons of silver.person
  Ventures,      \* rows of gold.venture
  Team,          \* per venture, its members: founders first, then by weight
  Tokens,        \* interview tokens that may be minted
  NoToken,       \* no handler is running
  Sessions,      \* device sessions
  Nobody,        \* no session is bound
  MaxInterviews  \* bound: rows of gold.interview

ASSUME TeamAssumption == Team \in [Ventures -> Seq(Persons)]

ASSUME SentinelAssumption == NoToken \notin Tokens /\ Nobody \notin Sessions

ASSUME BoundAssumption == MaxInterviews \in Nat

VARIABLES
  \* gold.outreach and the mail that carries the link
  status,       \* status of the row of a token, "none" while there is no row
  consentAt,    \* the row has its consent_at
  mail,         \* the rendered mail of a token: to, about, delivered
  \* InterviewEngine._active, the memory of the process
  session,      \* session a token is bound to, or Nobody
  consented,    \* consent_confirmed
  transcript,   \* the chat so far
  \* gold.interview
  interviews,   \* its rows in the order they were written
  \* the handler that runs
  step,         \* its next call
  tok,          \* the token it works on
  \* what the clock decides
  expired,      \* tokens older than TOKEN_TTL_DAYS
  \* what founders have been told
  optOutShown   \* tokens whose opt-out page said "You have been opted out"

rowVars == <<status, consentAt, mail>>
activeVars == <<session, consented, transcript>>
callVars == <<step, tok>>
vars == <<rowVars, activeVars, interviews, callVars, expired, optOutShown>>

Statuses == {"sent", "consented", "declined", "interview_started", "interviewed", "opted_out"}

\* Mutant: a completed interview does not consume its link.
OpenStatusesAndDone ==
  {"sent", "replied", "consented", "interview_scheduled", "interview_started", "interviewed"}

OpenStatuses == {"sent", "replied", "consented", "interview_scheduled", "interview_started"}

Steps ==
  {"idle", "deliver", "persistOutreach", "writeDeclined", "writeConsented",
   "writeStarted", "askFirst", "acknowledge", "persistInterview",
   "writeInterviewed", "rescore", "attachScore", "release", "writeOptOut", "forget"}

Mail == [to : Persons, about : Ventures, delivered : BOOLEAN]
NoMail == [delivered |-> FALSE]

\* What is told apart of a transcript: the founder has agreed in it, something
\* but the consent prompt was said before that, and the sessions that spoke.
Transcript == [agreed : BOOLEAN, early : BOOLEAN, voices : SUBSET Sessions]
NoTranscript == [agreed |-> FALSE, early |-> FALSE, voices |-> {}]

InterviewRow == [tok : Tokens, transcript : Transcript, scored : BOOLEAN]

Init ==
  /\ status = [t \in Tokens |-> "none"]
  /\ consentAt = [t \in Tokens |-> FALSE]
  /\ mail = [t \in Tokens |-> NoMail]
  /\ session = [t \in Tokens |-> Nobody]
  /\ consented = [t \in Tokens |-> FALSE]
  /\ transcript = [t \in Tokens |-> NoTranscript]
  /\ interviews = <<>>
  /\ step = "idle"
  /\ tok = NoToken
  /\ expired = {}
  /\ optOutShown = {}

----
(* The handler in progress. *)

Begin(t, first) ==
  /\ step = "idle"
  /\ step' = first
  /\ tok' = t

Proceed(from, to) ==
  /\ step = from
  /\ step' = to
  /\ UNCHANGED tok

Return(from) ==
  /\ step = from
  /\ step' = "idle"
  /\ tok' = NoToken

\* A handler that runs in one go.
Atomic ==
  /\ step = "idle"
  /\ UNCHANGED callVars

----
(* send_outreach *)

\* contactable: the active persons with an email address, and suppressed: those
\* with an active identity in ops.erasure_suppression, are tables that other
\* processes write.  The handler reads them as they are at that moment.

\* The first member of the team that has an address.
PicksFounder(v, contactable, p) ==
  \E i \in DOMAIN Team[v] :
    /\ p = Team[v][i]
    /\ p \in contactable
    /\ \A j \in 1..(i - 1) : Team[v][j] \notin contactable

\* Mutant: only the erasure list is consulted.
IsErased(p, suppressed) == p \in suppressed

IsSuppressed(p, suppressed) ==
  \/ p \in suppressed
  \/ \E t \in Tokens : status[t] = "opted_out" /\ mail[t].to = p

\* Picks the founder, checks the suppression and renders the mail around a
\* fresh token.
RenderMail(v, t, contactable, suppressed) ==
  \E founder \in Persons :
    /\ mail[t] = NoMail
    /\ PicksFounder(v, contactable, founder)
    /\ ~IsSuppressed(founder, suppressed)
    /\ mail' = [mail EXCEPT ![t] = [to |-> founder, about |-> v, delivered |-> FALSE]]
    /\ Begin(t, "deliver")
    /\ UNCHANGED <<status, consentAt, activeVars, interviews, expired, optOutShown>>

DeliverMail ==
  /\ Proceed("deliver", "persistOutreach")
  /\ mail' = [mail EXCEPT ![tok].delivered = TRUE]
  /\ UNCHANGED <<status, consentAt, activeVars, interviews, expired, optOutShown>>

\* Mutant: the row keeps the first status of its history.
PersistDraft ==
  /\ Return("persistOutreach")
  /\ status' = [status EXCEPT ![tok] = "draft"]
  /\ UNCHANGED <<consentAt, mail, activeVars, interviews, expired, optOutShown>>

\* The row is built and written only after the mail has gone out.
PersistOutreach ==
  /\ Return("persistOutreach")
  /\ status' = [status EXCEPT ![tok] = "sent"]
  /\ UNCHANGED <<consentAt, mail, activeVars, interviews, expired, optOutShown>>

----
(* InterviewEngine: token and session checks *)

\* Mutant: the status of the row is not looked at.
Known(t) == status[t] # "none" /\ t \notin expired

\* _claims: the token is known, its row open, its validity not over.
Usable(t) == status[t] \in OpenStatuses /\ t \notin expired

\* Mutant: any device may go on.
AnyDevice(t, s) == session[t] \in Sessions \cup {Nobody}

\* _state: the first session that comes binds the token.
BoundTo(t, s) == session[t] \in {Nobody, s}

BeforeConsent(t, s) == Usable(t) /\ BoundTo(t, s) /\ ~consented[t]

\* Mutant: consent is not asked for.
WithoutConsent(t, s) == Usable(t) /\ BoundTo(t, s)

AfterConsent(t, s) == Usable(t) /\ BoundTo(t, s) /\ consented[t]

Bind(t, s) == session' = [session EXCEPT ![t] = s]

Forget(t) ==
  /\ session' = [session EXCEPT ![t] = Nobody]
  /\ consented' = [consented EXCEPT ![t] = FALSE]
  /\ transcript' = [transcript EXCEPT ![t] = NoTranscript]

\* The transcript of t goes on with "yes" or "no", each with the consent prompt
\* it answers, with an "answer" to a question, or with a "reply" that puts the
\* next question or wraps the interview up.
Say(t, s, kind) ==
  transcript' =
    [transcript EXCEPT ![t] =
       [agreed |-> @.agreed \/ kind = "yes",
        early |-> @.early \/ (kind \in {"answer", "reply"} /\ ~@.agreed),
        voices |-> @.voices \cup {s}]]

Open(t, s) ==
  /\ Atomic
  /\ Usable(t)
  /\ BoundTo(t, s)
  /\ Bind(t, s)
  /\ UNCHANGED <<rowVars, consented, transcript, interviews, expired, optOutShown>>

----
(* InterviewEngine.message before consent: _record_consent *)

AnswerNo(t, s) ==
  /\ BeforeConsent(t, s)
  /\ Bind(t, s)
  /\ Say(t, s, "no")
  /\ Begin(t, "writeDeclined")
  /\ UNCHANGED <<rowVars, consented, interviews, expired, optOutShown>>

WriteDeclined ==
  /\ Return("writeDeclined")
  /\ status' = [status EXCEPT ![tok] = "declined"]
  /\ UNCHANGED <<consentAt, mail, activeVars, interviews, expired, optOutShown>>

\* Memory holds the consent before the store does.
AnswerYes(t, s) ==
  /\ BeforeConsent(t, s)
  /\ Bind(t, s)
  /\ Say(t, s, "yes")
  /\ consented' = [consented EXCEPT ![t] = TRUE]
  /\ Begin(t, "writeConsented")
  /\ UNCHANGED <<rowVars, interviews, expired, optOutShown>>

WriteConsented ==
  /\ Proceed("writeConsented", "writeStarted")
  /\ status' = [status EXCEPT ![tok] = "consented"]
  /\ consentAt' = [consentAt EXCEPT ![tok] = TRUE]
  /\ UNCHANGED <<mail, activeVars, interviews, expired, optOutShown>>

WriteStarted ==
  /\ Proceed("writeStarted", "askFirst")
  /\ status' = [status EXCEPT ![tok] = "interview_started"]
  /\ UNCHANGED <<consentAt, mail, activeVars, interviews, expired, optOutShown>>

AskFirst ==
  /\ Return("askFirst")
  /\ Say(tok, session[tok], "reply")
  /\ UNCHANGED <<rowVars, session, consented, interviews, expired, optOutShown>>

----
(* InterviewEngine.message after consent *)

Answer(t, s) ==
  /\ AfterConsent(t, s)
  /\ Say(t, s, "answer")
  /\ Begin(t, "acknowledge")
  /\ UNCHANGED <<rowVars, session, consented, interviews, expired, optOutShown>>

\* The model's acknowledgement.  Fail leaves the answer in the transcript and
\* the question unanswered.
Acknowledge ==
  /\ Return("acknowledge")
  /\ Say(tok, session[tok], "reply")
  /\ UNCHANGED <<rowVars, session, consented, interviews, expired, optOutShown>>

\* "skip" needs no model.
Skip(t, s) ==
  /\ Atomic
  /\ AfterConsent(t, s)
  /\ Say(t, s, "answer")
  /\ UNCHANGED <<rowVars, session, consented, interviews, expired, optOutShown>>

----
(* InterviewEngine.complete *)

\* Without consent the call is refused, but it has bound the token.
CompleteTooEarly(t, s) ==
  /\ Atomic
  /\ BeforeConsent(t, s)
  /\ Bind(t, s)
  /\ UNCHANGED <<rowVars, consented, transcript, interviews, expired, optOutShown>>

\* The extraction by the model changes nothing: if it fails, so does the call.
Complete(t, s) ==
  /\ AfterConsent(t, s)
  /\ Len(interviews) < MaxInterviews
  /\ Begin(t, "persistInterview")
  /\ UNCHANGED <<rowVars, activeVars, interviews, expired, optOutShown>>

PersistInterview ==
  /\ Proceed("persistInterview", "writeInterviewed")
  /\ interviews' =
       Append(interviews, [tok |-> tok, transcript |-> transcript[tok], scored |-> FALSE])
  /\ UNCHANGED <<rowVars, activeVars, expired, optOutShown>>

WriteInterviewed ==
  /\ Proceed("writeInterviewed", "rescore")
  /\ status' = [status EXCEPT ![tok] = "interviewed"]
  /\ UNCHANGED <<consentAt, mail, activeVars, interviews, expired, optOutShown>>

\* The targeted rescore (module ScoreLedger) has written its score.
Rescore ==
  /\ Proceed("rescore", "attachScore")
  /\ UNCHANGED <<rowVars, activeVars, interviews, expired, optOutShown>>

\* The second write of the interview row, now with its rescore_score_id.
AttachScore ==
  /\ Proceed("attachScore", "release")
  /\ interviews' = [interviews EXCEPT ![Len(interviews)].scored = TRUE]
  /\ UNCHANGED <<rowVars, activeVars, expired, optOutShown>>

Release ==
  /\ Return("release")
  /\ Forget(tok)
  /\ UNCHANGED <<rowVars, interviews, expired, optOutShown>>

----
(* InterviewEngine.opt_out: the link of the mail, in any state of the row *)

OptOut(t) ==
  /\ mail[t].delivered
  /\ status[t] # "none"
  /\ Begin(t, "writeOptOut")
  /\ UNCHANGED <<rowVars, activeVars, interviews, expired, optOutShown>>

WriteOptOut ==
  /\ Proceed("writeOptOut", "forget")
  /\ status' = [status EXCEPT ![tok] = "opted_out"]
  /\ UNCHANGED <<consentAt, mail, activeVars, interviews, expired, optOutShown>>

ForgetInterview ==
  /\ Return("forget")
  /\ Forget(tok)
  /\ optOutShown' = optOutShown \cup {tok}
  /\ UNCHANGED <<rowVars, interviews, expired>>

\* The page is the same for a link no row knows.
OptOutUnknown(t) ==
  /\ Atomic
  /\ mail[t].delivered
  /\ status[t] = "none"
  /\ optOutShown' = optOutShown \cup {t}
  /\ UNCHANGED <<rowVars, activeVars, interviews, expired>>

----
(* Failures, other processes and time *)

Fail ==
  /\ step # "idle"
  /\ Return(step)
  /\ UNCHANGED <<rowVars, activeVars, interviews, expired, optOutShown>>

Restart ==
  /\ session' = [t \in Tokens |-> Nobody]
  /\ consented' = [t \in Tokens |-> FALSE]
  /\ transcript' = [t \in Tokens |-> NoTranscript]
  /\ step' = "idle"
  /\ tok' = NoToken
  /\ UNCHANGED <<rowVars, interviews, expired, optOutShown>>

\* TOKEN_TTL_DAYS have passed since the row was written.
Expire(t) ==
  /\ status[t] # "none"
  /\ t \notin expired
  /\ expired' = expired \cup {t}
  /\ UNCHANGED <<rowVars, activeVars, interviews, callVars, optOutShown>>

----

Sending ==
  \/ \E v \in Ventures, t \in Tokens, contactable, suppressed \in SUBSET Persons :
       RenderMail(v, t, contactable, suppressed)
  \/ DeliverMail
  \/ PersistOutreach

Chatting ==
  \/ \E t \in Tokens, s \in Sessions :
       \/ Open(t, s)
       \/ AnswerNo(t, s)
       \/ AnswerYes(t, s)
       \/ Answer(t, s)
       \/ Skip(t, s)
  \/ WriteDeclined
  \/ WriteConsented
  \/ WriteStarted
  \/ AskFirst
  \/ Acknowledge

Completing ==
  \/ \E t \in Tokens, s \in Sessions : CompleteTooEarly(t, s) \/ Complete(t, s)
  \/ PersistInterview
  \/ WriteInterviewed
  \/ Rescore
  \/ AttachScore
  \/ Release

OptingOut ==
  \/ \E t \in Tokens : OptOut(t) \/ OptOutUnknown(t)
  \/ WriteOptOut
  \/ ForgetInterview

Environment ==
  \/ Fail
  \/ Restart
  \/ \E t \in Tokens : Expire(t)

Next == Sending \/ Chatting \/ Completing \/ OptingOut \/ Environment

Spec == Init /\ [][Next]_vars

----
(* Properties *)

TypeOK ==
  /\ status \in [Tokens -> Statuses \cup {"none"}]
  /\ consentAt \in [Tokens -> BOOLEAN]
  /\ mail \in [Tokens -> Mail \cup {NoMail}]
  /\ session \in [Tokens -> Sessions \cup {Nobody}]
  /\ consented \in [Tokens -> BOOLEAN]
  /\ transcript \in [Tokens -> Transcript]
  /\ interviews \in Seq(InterviewRow)
  /\ step \in Steps
  /\ tok \in Tokens \cup {NoToken}
  /\ expired \subseteq Tokens
  /\ optOutShown \subseteq Tokens

\* Consent is recorded in the transcript before any substantive question or
\* answer, in the running chats and in the stored interviews, through failed
\* writes, restarts and repeated consent prompts.
ConsentFirst ==
  /\ \A t \in Tokens : ~transcript[t].early
  /\ \A n \in DOMAIN interviews :
       interviews[n].transcript.agreed /\ ~interviews[n].transcript.early

\* Whatever a stored interview says was said in one session: a second device
\* never contributes to it, not even after a restart has unbound the token.
OneVoice ==
  \A n \in DOMAIN interviews :
    \A a, b \in interviews[n].transcript.voices : a = b

\* A retried completion may store the interview again, but at most one of the
\* rows of a link carries a score.
ScoredOnce ==
  \A m, n \in DOMAIN interviews :
    /\ interviews[m].scored
    /\ interviews[n].scored
    /\ interviews[m].tok = interviews[n].tok
    => m = n

Delivers(t) == ~mail[t].delivered /\ mail'[t].delivered

\* Once a row of a person is opted out, no further mail reaches the person,
\* about whichever venture.
NoContactAfterOptOut ==
  [][\A t, u \in Tokens :
       status[t] = "opted_out" /\ Delivers(u) => mail'[u].to # mail[t].to]_vars

Phase(t) ==
  CASE status[t] = "none" -> "unsent"
    [] status[t] = "opted_out" -> "withdrawn"
    [] status[t] = "declined" -> "refused"
    [] status[t] = "interviewed" -> "done"
    [] OTHER -> IF consented[t] THEN "agreed" ELSE "invited"

Kept == {t \in Tokens : \E n \in DOMAIN interviews : interviews[n].tok = t}

Attached ==
  {t \in Tokens : \E n \in DOMAIN interviews : interviews[n].tok = t /\ interviews[n].scored}

Promise ==
  INSTANCE OutreachPromise
    WITH phase <- [t \in Tokens |-> Phase(t)], kept <- Kept, attached <- Attached

\* Through failures and restarts the engine keeps its promise: interviews are
\* kept only of founders who agreed, declined and opted-out links stay so, a
\* score is attached only to a finished interview.
PromiseKept == Promise!Spec

----
(* What the documents say, and failures break. *)

\* The page of the opt-out link says "You have been opted out. We will not
\* contact you again" (app/api.py, opt_out).
OptOutPageIsTrue ==
  [][\A t \in optOutShown, u \in Tokens : Delivers(u) => mail'[u].to # mail[t].to]_vars

\* gold.outreach.consent_at is "REQUIRED before any interview row".
ConsentAtBeforeInterview ==
  \A n \in DOMAIN interviews : consentAt[interviews[n].tok]

====
