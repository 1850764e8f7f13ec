---- MODULE Interview_proofs ----
(***************************************************************************)
(* Proofs about the module Interview: its invariants, and that it          *)
(* implements OutreachPromise.                                             *)
(***************************************************************************)
EXTENDS Interview, TLAPS

(***************************************************************************)
(* The inductive invariant, in four parts.                                 *)
(***************************************************************************)

\* Only a row that was written has a chat, and every row has its mail.
RowInv ==
  \A t \in Tokens :
    /\ status[t] = "none" => ~consented[t] /\ session[t] = Nobody
    /\ status[t] # "none" => mail[t] \in Mail

\* Consent in memory is consent in the transcript, and only the bound session
\* has spoken.
ChatInv ==
  \A t \in Tokens :
    /\ consented[t] => transcript[t].agreed /\ session[t] # Nobody
    /\ ~transcript[t].early
    /\ transcript[t].voices \subseteq {session[t]}

\* What a handler knows between two of its calls.
StepInv ==
  /\ step = "idle" <=> tok = NoToken
  /\ step = "deliver" =>
       \A t \in Tokens : status[t] = "opted_out" => mail[t].to # mail[tok].to
  /\ step \in {"deliver", "persistOutreach"} => status[tok] = "none" /\ mail[tok] \in Mail
  /\ step = "writeDeclined" => ~consented[tok]
  /\ step \in {"writeConsented", "writeStarted", "askFirst", "acknowledge",
               "persistInterview", "writeInterviewed"} => consented[tok]
  /\ step \in {"writeDeclined", "writeConsented", "writeStarted", "askFirst",
               "acknowledge", "persistInterview", "writeInterviewed"} =>
       status[tok] \in OpenStatuses
  /\ step \in {"writeInterviewed", "rescore", "attachScore"} =>
       interviews # <<>> /\ interviews[Len(interviews)].tok = tok
  /\ step \in {"rescore", "attachScore"} =>
       \A n \in DOMAIN interviews : interviews[n].tok = tok => ~interviews[n].scored
  /\ step \in {"rescore", "attachScore", "release"} => status[tok] = "interviewed"
  /\ step = "writeOptOut" => status[tok] # "none"
  /\ step = "forget" => status[tok] = "opted_out"

\* Only interviews of links that are used up carry a score.
ScoreInv ==
  \A n \in DOMAIN interviews :
    interviews[n].scored => status[interviews[n].tok] \in {"interviewed", "opted_out"}

Inv ==
  /\ TypeOK
  /\ RowInv
  /\ ChatInv
  /\ StepInv
  /\ ConsentFirst
  /\ OneVoice
  /\ ScoreInv
  /\ ScoredOnce

(***************************************************************************)
(* Facts about single definitions.                                         *)
(***************************************************************************)

\* A rendered mail is not the placeholder: RenderMail never reuses a token.
LEMMA MailIsNotNoMail == NoMail \notin Mail
BY DEF NoMail, Mail

\* What Say does to the chat of its token, and that it does nothing to others.
LEMMA SayExtends ==
  ASSUME TypeOK, NEW t \in Tokens, NEW s \in Sessions, NEW kind, Say(t, s, kind)
  PROVE  /\ transcript' \in [Tokens -> Transcript]
         /\ transcript'[t].agreed = (transcript[t].agreed \/ kind = "yes")
         /\ transcript'[t].early =
              (transcript[t].early \/ (kind \in {"answer", "reply"} /\ ~transcript[t].agreed))
         /\ transcript'[t].voices = transcript[t].voices \cup {s}
         /\ \A u \in Tokens \ {t} : transcript'[u] = transcript[u]
<1> transcript[t] \in Transcript /\ transcript \in [Tokens -> Transcript]
  BY DEF TypeOK
<1> DEFINE new == [agreed |-> transcript[t].agreed \/ kind = "yes",
                   early |-> transcript[t].early
                               \/ (kind \in {"answer", "reply"} /\ ~transcript[t].agreed),
                   voices |-> transcript[t].voices \cup {s}]
<1>1. transcript' = [transcript EXCEPT ![t] = new]
  BY DEF Say
<1>2. new \in Transcript
  BY DEF Transcript
<1>3. QED
  BY <1>1, <1>2

\* Init.
LEMMA InitInv == Init => Inv
<1> SUFFICES ASSUME Init PROVE Inv
  OBVIOUS
<1> USE DEF Init
<1>1. TypeOK
  BY DEF TypeOK, Steps, NoMail, Mail, Transcript, NoTranscript, Statuses
<1>2. RowInv /\ ChatInv
  BY DEF RowInv, ChatInv, NoTranscript
<1>3. StepInv
  BY DEF StepInv
<1>4. ConsentFirst /\ OneVoice /\ ScoreInv /\ ScoredOnce
  BY DEF ConsentFirst, OneVoice, ScoreInv, ScoredOnce, NoTranscript
<1>5. QED
  BY <1>1, <1>2, <1>3, <1>4 DEF Inv

(***************************************************************************)
(* The steps.  One lemma per group of actions; in each, one step per       *)
(* action, and under it one per part of the invariant that it disturbs.    *)
(***************************************************************************)

\* send_outreach keeps the invariant.
LEMMA SendingInv == Inv /\ Sending => Inv'
<1> SUFFICES ASSUME Inv, Sending PROVE Inv'
  OBVIOUS
<1> USE DEF Inv
<1>1. ASSUME NEW v \in Ventures, NEW t \in Tokens,
             NEW contactable \in SUBSET Persons, NEW suppressed \in SUBSET Persons,
             RenderMail(v, t, contactable, suppressed)
      PROVE  Inv'
  <2>1. PICK founder \in Persons :
          /\ mail[t] = NoMail
          /\ ~IsSuppressed(founder, suppressed)
          /\ mail' = [mail EXCEPT ![t] = [to |-> founder, about |-> v, delivered |-> FALSE]]
    BY <1>1 DEF RenderMail
  <2>2. /\ step = "idle" /\ step' = "deliver" /\ tok' = t
        /\ UNCHANGED <<status, consentAt, session, consented, transcript,
                       interviews, expired, optOutShown>>
    BY <1>1 DEF RenderMail, Begin, activeVars
  <2>3. status[t] = "none"
    BY <2>1, MailIsNotNoMail DEF RowInv
  <2>4. mail'[t] \in Mail /\ mail'[t].to = founder
    BY <2>1 DEF Mail, TypeOK
  <2>5. TypeOK'
    BY <2>1, <2>2, <2>4 DEF TypeOK, Steps
  <2>6. RowInv' /\ ChatInv'
    BY <2>1, <2>2, <2>4 DEF RowInv, ChatInv, TypeOK
  <2>7. StepInv'
    <3>1. \A u \in Tokens : status[u] = "opted_out" => mail'[u].to # mail'[t].to
      BY <2>1, <2>3, <2>4 DEF IsSuppressed, TypeOK
    <3>2. t # NoToken
      BY SentinelAssumption
    <3>3. QED
      BY <2>2, <2>3, <2>4, <3>1, <3>2 DEF StepInv
  <2>8. (ConsentFirst /\ OneVoice /\ ScoreInv /\ ScoredOnce)'
    BY <2>2 DEF ConsentFirst, OneVoice, ScoreInv, ScoredOnce
  <2>9. QED
    BY <2>5, <2>6, <2>7, <2>8
<1>2. ASSUME DeliverMail PROVE Inv'
  <2>1. /\ step = "deliver" /\ step' = "persistOutreach" /\ tok' = tok
        /\ mail' = [mail EXCEPT ![tok].delivered = TRUE]
        /\ UNCHANGED <<status, consentAt, session, consented, transcript,
                       interviews, expired, optOutShown>>
    BY <1>2 DEF DeliverMail, Proceed, activeVars
  <2>2. tok \in Tokens /\ mail[tok] \in Mail /\ status[tok] = "none"
    BY <2>1 DEF StepInv, TypeOK
  <2>3. mail'[tok] \in Mail /\ \A u \in Tokens \ {tok} : mail'[u] = mail[u]
    BY <2>1, <2>2 DEF TypeOK, Mail
  <2>4. mail' \in [Tokens -> Mail \cup {NoMail}]
    BY <2>1, <2>2, <2>3 DEF TypeOK
  <2>5. TypeOK'
    BY <2>1, <2>4 DEF TypeOK, Steps
  <2>6. RowInv' /\ ChatInv'
    BY <2>1, <2>2, <2>3 DEF RowInv, ChatInv
  <2>7. StepInv'
    BY <2>1, <2>2, <2>3 DEF StepInv
  <2>8. (ConsentFirst /\ OneVoice /\ ScoreInv /\ ScoredOnce)'
    BY <2>1 DEF ConsentFirst, OneVoice, ScoreInv, ScoredOnce
  <2>9. QED
    BY <2>5, <2>6, <2>7, <2>8
<1>3. ASSUME PersistOutreach PROVE Inv'
  <2>1. /\ step = "persistOutreach" /\ step' = "idle" /\ tok' = NoToken
        /\ status' = [status EXCEPT ![tok] = "sent"]
        /\ UNCHANGED <<consentAt, mail, session, consented, transcript,
                       interviews, expired, optOutShown>>
    BY <1>3 DEF PersistOutreach, Return, activeVars
  <2>2. tok \in Tokens /\ mail[tok] \in Mail /\ status[tok] = "none"
    BY <2>1 DEF StepInv, TypeOK
  <2>3. TypeOK'
    BY <2>1 DEF TypeOK, Steps, Statuses
  <2>4. RowInv' /\ ChatInv'
    BY <2>1, <2>2 DEF RowInv, ChatInv, TypeOK
  <2>5. StepInv'
    BY <2>1 DEF StepInv
  <2>6. (ConsentFirst /\ OneVoice /\ ScoredOnce)'
    BY <2>1 DEF ConsentFirst, OneVoice, ScoredOnce
  <2>7. ScoreInv'
    BY <2>1, <2>2 DEF ScoreInv, TypeOK
  <2>8. QED
    BY <2>3, <2>4, <2>5, <2>6, <2>7
<1>4. QED
  BY <1>1, <1>2, <1>3 DEF Sending

\* The chat, before and after consent, keeps the invariant.
LEMMA ChattingInv == Inv /\ Chatting => Inv'
<1> SUFFICES ASSUME Inv, Chatting PROVE Inv'
  OBVIOUS
<1> USE DEF Inv
<1>1. ASSUME NEW t \in Tokens, NEW s \in Sessions, Open(t, s) PROVE Inv'
  <2>1. /\ step = "idle" /\ UNCHANGED <<step, tok>>
        /\ status[t] \in OpenStatuses
        /\ session[t] \in {Nobody, s}
        /\ session' = [session EXCEPT ![t] = s]
        /\ UNCHANGED <<status, consentAt, mail, consented, transcript,
                       interviews, expired, optOutShown>>
    BY <1>1 DEF Open, Atomic, Usable, BoundTo, Bind, rowVars, callVars
  <2>2. TypeOK'
    BY <2>1 DEF TypeOK
  <2>3. RowInv'
    BY <2>1 DEF RowInv, TypeOK, OpenStatuses
  <2>4. ChatInv'
    BY <2>1, SentinelAssumption DEF ChatInv, TypeOK, Transcript
  <2>5. StepInv'
    BY <2>1 DEF StepInv
  <2>6. (ConsentFirst /\ OneVoice /\ ScoreInv /\ ScoredOnce)'
    BY <2>1 DEF ConsentFirst, OneVoice, ScoreInv, ScoredOnce
  <2>7. QED
    BY <2>2, <2>3, <2>4, <2>5, <2>6
<1>2. ASSUME NEW t \in Tokens, NEW s \in Sessions, AnswerNo(t, s) PROVE Inv'
  <2>1. /\ step = "idle" /\ step' = "writeDeclined" /\ tok' = t
        /\ status[t] \in OpenStatuses
        /\ session[t] \in {Nobody, s}
        /\ ~consented[t]
        /\ session' = [session EXCEPT ![t] = s]
        /\ UNCHANGED <<status, consentAt, mail, consented,
                       interviews, expired, optOutShown>>
    BY <1>2 DEF AnswerNo, Begin, BeforeConsent, Usable, BoundTo, Bind, rowVars
  <2>2. /\ transcript' \in [Tokens -> Transcript]
        /\ ~transcript'[t].early
        /\ transcript'[t].voices = transcript[t].voices \cup {s}
        /\ \A u \in Tokens \ {t} : transcript'[u] = transcript[u]
    <3>1. Say(t, s, "no") /\ "no" \notin {"answer", "reply"}
      BY <1>2 DEF AnswerNo
    <3>2. QED
      BY <3>1, SayExtends DEF ChatInv
  <2>3. TypeOK'
    BY <2>1, <2>2 DEF TypeOK, Steps
  <2>4. RowInv'
    BY <2>1 DEF RowInv, TypeOK, OpenStatuses
  <2>5. ChatInv'
    BY <2>1, <2>2, SentinelAssumption DEF ChatInv, TypeOK, Transcript
  <2>6. StepInv'
    BY <2>1, SentinelAssumption DEF StepInv
  <2>7. (ConsentFirst /\ OneVoice /\ ScoreInv /\ ScoredOnce)'
    BY <2>1, <2>5 DEF ChatInv, ConsentFirst, OneVoice, ScoreInv, ScoredOnce
  <2>8. QED
    BY <2>3, <2>4, <2>5, <2>6, <2>7
<1>3. ASSUME NEW t \in Tokens, NEW s \in Sessions, AnswerYes(t, s) PROVE Inv'
  <2>1. /\ step = "idle" /\ step' = "writeConsented" /\ tok' = t
        /\ status[t] \in OpenStatuses
        /\ session[t] \in {Nobody, s}
        /\ session' = [session EXCEPT ![t] = s]
        /\ consented' = [consented EXCEPT ![t] = TRUE]
        /\ UNCHANGED <<status, consentAt, mail, interviews, expired, optOutShown>>
    BY <1>3 DEF AnswerYes, Begin, BeforeConsent, Usable, BoundTo, Bind, rowVars
  <2>2. /\ transcript' \in [Tokens -> Transcript]
        /\ transcript'[t].agreed
        /\ ~transcript'[t].early
        /\ transcript'[t].voices = transcript[t].voices \cup {s}
        /\ \A u \in Tokens \ {t} : transcript'[u] = transcript[u]
    BY <1>3, SayExtends DEF AnswerYes, ChatInv
  <2>3. TypeOK'
    BY <2>1, <2>2 DEF TypeOK, Steps
  <2>4. RowInv'
    BY <2>1 DEF RowInv, TypeOK, OpenStatuses
  <2>5. ChatInv'
    BY <2>1, <2>2, SentinelAssumption DEF ChatInv, TypeOK, Transcript
  <2>6. StepInv'
    BY <2>1, SentinelAssumption DEF StepInv, TypeOK
  <2>7. (ConsentFirst /\ OneVoice /\ ScoreInv /\ ScoredOnce)'
    BY <2>1, <2>5 DEF ChatInv, ConsentFirst, OneVoice, ScoreInv, ScoredOnce
  <2>8. QED
    BY <2>3, <2>4, <2>5, <2>6, <2>7
<1>4. ASSUME NEW t \in Tokens, NEW s \in Sessions, Answer(t, s) \/ Skip(t, s) PROVE Inv'
  <2>1. /\ step = "idle"
        /\ \/ step' = "idle" /\ tok' = tok
           \/ step' = "acknowledge" /\ tok' = t
        /\ status[t] \in OpenStatuses
        /\ consented[t]
        /\ session[t] \in {Nobody, s}
        /\ UNCHANGED <<status, consentAt, mail, session, consented,
                       interviews, expired, optOutShown>>
    BY <1>4 DEF Answer, Skip, Begin, Atomic, AfterConsent, Usable, BoundTo, rowVars, callVars
  <2>2. session[t] = s /\ transcript[t].agreed
    BY <2>1 DEF ChatInv
  <2>3. /\ transcript' \in [Tokens -> Transcript]
        /\ transcript'[t].agreed
        /\ ~transcript'[t].early
        /\ transcript'[t].voices = transcript[t].voices \cup {s}
        /\ \A u \in Tokens \ {t} : transcript'[u] = transcript[u]
    BY <1>4, <2>2, SayExtends DEF Answer, Skip, ChatInv, TypeOK, Transcript
  <2>4. TypeOK'
    BY <2>1, <2>3 DEF TypeOK, Steps
  <2>5. RowInv'
    BY <2>1 DEF RowInv
  <2>6. ChatInv'
    BY <2>1, <2>2, <2>3 DEF ChatInv
  <2>7. StepInv'
    BY <2>1, SentinelAssumption DEF StepInv
  <2>8. (ConsentFirst /\ OneVoice /\ ScoreInv /\ ScoredOnce)'
    BY <2>1, <2>6 DEF ChatInv, ConsentFirst, OneVoice, ScoreInv, ScoredOnce
  <2>9. QED
    BY <2>4, <2>5, <2>6, <2>7, <2>8
<1>5. ASSUME WriteDeclined \/ WriteConsented \/ WriteStarted PROVE Inv'
  <2>1. PICK new \in {"declined", "consented", "interview_started"} :
          /\ status' = [status EXCEPT ![tok] = new]
          /\ step' # "idle" => new \in OpenStatuses
    BY <1>5 DEF WriteDeclined, WriteConsented, WriteStarted, Return, Proceed, OpenStatuses
  <2>2. /\ tok \in Tokens
        /\ status[tok] \in OpenStatuses
        /\ step' \in {"writeStarted", "askFirst"} => consented[tok] /\ tok' = tok
        /\ step' \in {"idle", "writeStarted", "askFirst"}
        /\ step' = "idle" => tok' = NoToken
        /\ step' # "idle" => tok' = tok
        /\ consentAt' \in [Tokens -> BOOLEAN]
        /\ UNCHANGED <<mail, session, consented, transcript,
                       interviews, expired, optOutShown>>
    BY <1>5 DEF WriteDeclined, WriteConsented, WriteStarted, Return, Proceed,
                activeVars, StepInv, TypeOK
  <2>3. TypeOK'
    BY <2>1, <2>2 DEF TypeOK, Steps, Statuses
  <2>4. RowInv'
    BY <2>1, <2>2 DEF RowInv, TypeOK, OpenStatuses
  <2>5. ChatInv'
    BY <2>2 DEF ChatInv
  <2>6. StepInv'
    BY <2>1, <2>2, SentinelAssumption DEF StepInv, TypeOK
  <2>7. (ConsentFirst /\ OneVoice /\ ScoredOnce)'
    BY <2>2, <2>5 DEF ChatInv, ConsentFirst, OneVoice, ScoredOnce
  <2>8. ScoreInv'
    BY <2>1, <2>2 DEF ScoreInv, TypeOK, InterviewRow, OpenStatuses
  <2>9. QED
    BY <2>3, <2>4, <2>5, <2>6, <2>7, <2>8
<1>6. ASSUME AskFirst \/ Acknowledge PROVE Inv'
  <2>1. /\ tok \in Tokens
        /\ consented[tok]
        /\ step' = "idle" /\ tok' = NoToken
        /\ Say(tok, session[tok], "reply")
        /\ UNCHANGED <<status, consentAt, mail, session, consented,
                       interviews, expired, optOutShown>>
    BY <1>6 DEF AskFirst, Acknowledge, Return, rowVars, StepInv, TypeOK
  <2>2. session[tok] \in Sessions /\ transcript[tok].agreed
    BY <2>1 DEF ChatInv, TypeOK
  <2>3. /\ transcript' \in [Tokens -> Transcript]
        /\ transcript'[tok].agreed
        /\ ~transcript'[tok].early
        /\ transcript'[tok].voices = transcript[tok].voices \cup {session[tok]}
        /\ \A u \in Tokens \ {tok} : transcript'[u] = transcript[u]
    BY <2>1, <2>2, SayExtends DEF ChatInv, TypeOK, Transcript
  <2>4. TypeOK'
    BY <2>1, <2>3 DEF TypeOK, Steps
  <2>5. RowInv'
    BY <2>1 DEF RowInv
  <2>6. ChatInv'
    BY <2>1, <2>2, <2>3 DEF ChatInv
  <2>7. StepInv'
    BY <2>1 DEF StepInv
  <2>8. (ConsentFirst /\ OneVoice /\ ScoreInv /\ ScoredOnce)'
    BY <2>1, <2>6 DEF ChatInv, ConsentFirst, OneVoice, ScoreInv, ScoredOnce
  <2>9. QED
    BY <2>4, <2>5, <2>6, <2>7, <2>8
<1>7. QED
  BY <1>1, <1>2, <1>3, <1>4, <1>5, <1>6 DEF Chatting

\* A handler that ends by forgetting the chat of its token keeps the invariant.
LEMMA ForgottenInv ==
  ASSUME Inv,
         step' = "idle", tok' = NoToken,
         session' = [session EXCEPT ![tok] = Nobody],
         consented' = [consented EXCEPT ![tok] = FALSE],
         transcript' = [transcript EXCEPT ![tok] = NoTranscript],
         UNCHANGED <<status, consentAt, mail, interviews, expired>>,
         optOutShown' \subseteq Tokens
  PROVE  Inv'
<1> USE DEF Inv
<1>1. TypeOK'
  BY DEF TypeOK, Steps, NoTranscript, Transcript
<1>2. RowInv' /\ StepInv'
  BY DEF RowInv, StepInv, TypeOK
<1>3. ChatInv'
  BY DEF ChatInv, TypeOK, NoTranscript
<1>4. (ConsentFirst /\ OneVoice /\ ScoreInv /\ ScoredOnce)'
  BY <1>3 DEF ChatInv, ConsentFirst, OneVoice, ScoreInv, ScoredOnce
<1>5. QED
  BY <1>1, <1>2, <1>3, <1>4

\* Completing an interview, call by call, keeps the invariant.
LEMMA CompletingInv == Inv /\ Completing => Inv'
<1> SUFFICES ASSUME Inv, Completing PROVE Inv'
  OBVIOUS
<1> USE DEF Inv
<1>1. ASSUME NEW t \in Tokens, NEW s \in Sessions, CompleteTooEarly(t, s) PROVE Inv'
  <2>1. /\ step = "idle" /\ UNCHANGED <<step, tok>>
        /\ status[t] \in OpenStatuses
        /\ session[t] \in {Nobody, s}
        /\ session' = [session EXCEPT ![t] = s]
        /\ UNCHANGED <<status, consentAt, mail, consented, transcript,
                       interviews, expired, optOutShown>>
    BY <1>1 DEF CompleteTooEarly, Atomic, BeforeConsent, Usable, BoundTo, Bind, rowVars, callVars
  <2>2. TypeOK'
    BY <2>1 DEF TypeOK
  <2>3. RowInv'
    BY <2>1 DEF RowInv, TypeOK, OpenStatuses
  <2>4. ChatInv'
    BY <2>1, SentinelAssumption DEF ChatInv, TypeOK, Transcript
  <2>5. StepInv'
    BY <2>1 DEF StepInv
  <2>6. (ConsentFirst /\ OneVoice /\ ScoreInv /\ ScoredOnce)'
    BY <2>1 DEF ConsentFirst, OneVoice, ScoreInv, ScoredOnce
  <2>7. QED
    BY <2>2, <2>3, <2>4, <2>5, <2>6
<1>2. ASSUME NEW t \in Tokens, NEW s \in Sessions, Complete(t, s) PROVE Inv'
  <2>1. /\ step = "idle" /\ step' = "persistInterview" /\ tok' = t
        /\ status[t] \in OpenStatuses
        /\ consented[t]
        /\ UNCHANGED <<status, consentAt, mail, session, consented, transcript,
                       interviews, expired, optOutShown>>
    BY <1>2 DEF Complete, Begin, AfterConsent, Usable, rowVars, activeVars
  <2>2. TypeOK'
    BY <2>1 DEF TypeOK, Steps
  <2>3. RowInv' /\ ChatInv'
    BY <2>1 DEF RowInv, ChatInv
  <2>4. StepInv'
    BY <2>1, SentinelAssumption DEF StepInv
  <2>5. (ConsentFirst /\ OneVoice /\ ScoreInv /\ ScoredOnce)'
    BY <2>1 DEF ConsentFirst, OneVoice, ScoreInv, ScoredOnce
  <2>6. QED
    BY <2>2, <2>3, <2>4, <2>5
<1>3. ASSUME PersistInterview PROVE Inv'
  <2> DEFINE row == [tok |-> tok, transcript |-> transcript[tok], scored |-> FALSE]
  <2>1. /\ step = "persistInterview" /\ step' = "writeInterviewed" /\ tok' = tok
        /\ interviews' = Append(interviews, row)
        /\ UNCHANGED <<status, consentAt, mail, session, consented, transcript,
                       expired, optOutShown>>
    BY <1>3 DEF PersistInterview, Proceed, rowVars, activeVars
  <2>2. tok \in Tokens /\ status[tok] \in OpenStatuses /\ consented[tok]
    BY <2>1 DEF StepInv, TypeOK
  <2>3. row \in InterviewRow
    BY <2>2 DEF InterviewRow, TypeOK
  <2>4. interviews \in Seq(InterviewRow) /\ interviews' \in Seq(InterviewRow)
    BY <2>1, <2>3 DEF TypeOK
  <2>5. /\ Len(interviews') = Len(interviews) + 1
        /\ \A n \in DOMAIN interviews : interviews'[n] = interviews[n]
        /\ interviews'[Len(interviews')] = row
        /\ DOMAIN interviews' = DOMAIN interviews \cup {Len(interviews')}
    BY <2>1, <2>3, <2>4
  <2>6. TypeOK'
    BY <2>1, <2>4 DEF TypeOK, Steps
  <2>7. RowInv' /\ ChatInv'
    BY <2>1 DEF RowInv, ChatInv
  <2>8. StepInv'
    <3>1. interviews' # <<>>
      BY <2>1, <2>3, <2>4
    <3>2. QED
      BY <2>1, <2>2, <2>5, <3>1 DEF StepInv
  <2>9. ConsentFirst' /\ OneVoice'
    <3>1. transcript[tok].agreed /\ ~transcript[tok].early
      BY <2>2 DEF ChatInv
    <3>2. \A a, b \in transcript[tok].voices : a = b
      BY <2>2 DEF ChatInv
    <3>3. QED
      BY <2>1, <2>5, <3>1, <3>2 DEF ConsentFirst, OneVoice
  <2>10. ScoreInv' /\ ScoredOnce'
    BY <2>1, <2>5 DEF ScoreInv, ScoredOnce
  <2>11. QED
    BY <2>6, <2>7, <2>8, <2>9, <2>10
<1>4. ASSUME WriteInterviewed PROVE Inv'
  <2>1. /\ step = "writeInterviewed" /\ step' = "rescore" /\ tok' = tok
        /\ status' = [status EXCEPT ![tok] = "interviewed"]
        /\ UNCHANGED <<consentAt, mail, session, consented, transcript,
                       interviews, expired, optOutShown>>
    BY <1>4 DEF WriteInterviewed, Proceed, activeVars
  <2>2. tok \in Tokens /\ status[tok] \in OpenStatuses
    BY <2>1 DEF StepInv, TypeOK
  <2>3. \A n \in DOMAIN interviews : interviews[n].tok = tok => ~interviews[n].scored
    BY <2>2 DEF ScoreInv, OpenStatuses
  <2>4. TypeOK'
    BY <2>1 DEF TypeOK, Steps, Statuses
  <2>5. RowInv' /\ ChatInv'
    BY <2>1, <2>2 DEF RowInv, ChatInv, TypeOK, OpenStatuses
  <2>6. StepInv'
    BY <2>1, <2>2, <2>3 DEF StepInv, TypeOK
  <2>7. (ConsentFirst /\ OneVoice /\ ScoredOnce)'
    BY <2>1 DEF ConsentFirst, OneVoice, ScoredOnce
  <2>8. ScoreInv'
    BY <2>1, <2>2 DEF ScoreInv, TypeOK, InterviewRow
  <2>9. QED
    BY <2>4, <2>5, <2>6, <2>7, <2>8
<1>5. ASSUME Rescore PROVE Inv'
  <2>1. /\ step = "rescore" /\ step' = "attachScore" /\ tok' = tok
        /\ UNCHANGED <<status, consentAt, mail, session, consented, transcript,
                       interviews, expired, optOutShown>>
    BY <1>5 DEF Rescore, Proceed, rowVars, activeVars
  <2>2. TypeOK'
    BY <2>1 DEF TypeOK, Steps
  <2>3. RowInv' /\ ChatInv' /\ StepInv'
    BY <2>1 DEF RowInv, ChatInv, StepInv
  <2>4. (ConsentFirst /\ OneVoice /\ ScoreInv /\ ScoredOnce)'
    BY <2>1 DEF ConsentFirst, OneVoice, ScoreInv, ScoredOnce
  <2>5. QED
    BY <2>2, <2>3, <2>4
<1>6. ASSUME AttachScore PROVE Inv'
  <2> DEFINE last == Len(interviews)
  <2>1. /\ step = "attachScore" /\ step' = "release" /\ tok' = tok
        /\ interviews' = [interviews EXCEPT ![last].scored = TRUE]
        /\ UNCHANGED <<status, consentAt, mail, session, consented, transcript,
                       expired, optOutShown>>
    BY <1>6 DEF AttachScore, Proceed, rowVars, activeVars
  <2>2. /\ tok \in Tokens /\ status[tok] = "interviewed"
        /\ interviews # <<>> /\ interviews[last].tok = tok
        /\ \A n \in DOMAIN interviews : interviews[n].tok = tok => ~interviews[n].scored
    BY <2>1 DEF StepInv, TypeOK
  <2>3. interviews \in Seq(InterviewRow) /\ last \in DOMAIN interviews
    BY <2>2 DEF TypeOK
  <2>4. interviews[last] \in InterviewRow
    BY <2>3
  <2>5. /\ DOMAIN interviews' = DOMAIN interviews
        /\ \A n \in DOMAIN interviews \ {last} : interviews'[n] = interviews[n]
        /\ interviews'[last] \in InterviewRow
        /\ interviews'[last].tok = tok
        /\ interviews'[last].transcript = interviews[last].transcript
        /\ interviews'[last].scored
    BY <2>1, <2>2, <2>3, <2>4 DEF InterviewRow
  <2>6. interviews' \in Seq(InterviewRow)
    BY <2>1, <2>3, <2>4, <2>5
  <2>7. TypeOK'
    BY <2>1, <2>6 DEF TypeOK, Steps
  <2>8. RowInv' /\ ChatInv' /\ StepInv'
    BY <2>1, <2>2 DEF RowInv, ChatInv, StepInv
  <2>9. ConsentFirst' /\ OneVoice'
    BY <2>1, <2>3, <2>5 DEF ConsentFirst, OneVoice
  <2>10. ScoreInv'
    BY <2>1, <2>2, <2>5 DEF ScoreInv
  <2>11. ScoredOnce'
    BY <2>2, <2>5 DEF ScoredOnce
  <2>12. QED
    BY <2>7, <2>8, <2>9, <2>10, <2>11
<1>7. ASSUME Release PROVE Inv'
  <2>1. /\ step = "release" /\ step' = "idle" /\ tok' = NoToken
        /\ session' = [session EXCEPT ![tok] = Nobody]
        /\ consented' = [consented EXCEPT ![tok] = FALSE]
        /\ transcript' = [transcript EXCEPT ![tok] = NoTranscript]
        /\ UNCHANGED <<status, consentAt, mail, interviews, expired, optOutShown>>
    BY <1>7 DEF Release, Return, Forget, rowVars
  <2>2. optOutShown' \subseteq Tokens
    BY <2>1 DEF TypeOK
  <2>3. QED
    BY <2>1, <2>2, ForgottenInv
<1>8. QED
  BY <1>1, <1>2, <1>3, <1>4, <1>5, <1>6, <1>7 DEF Completing

\* The opt-out link keeps the invariant.
LEMMA OptingOutInv == Inv /\ OptingOut => Inv'
<1> SUFFICES ASSUME Inv, OptingOut PROVE Inv'
  OBVIOUS
<1>1. ASSUME NEW t \in Tokens, OptOut(t) PROVE Inv'
  <2>1. /\ step = "idle" /\ step' = "writeOptOut" /\ tok' = t
        /\ status[t] # "none"
        /\ UNCHANGED <<status, consentAt, mail, session, consented, transcript,
                       interviews, expired, optOutShown>>
    BY <1>1 DEF OptOut, Begin, rowVars, activeVars
  <2>2. TypeOK'
    BY <2>1 DEF Inv, TypeOK, Steps
  <2>3. RowInv' /\ ChatInv'
    BY <2>1 DEF Inv, RowInv, ChatInv
  <2>4. StepInv'
    BY <2>1, SentinelAssumption DEF Inv, StepInv
  <2>5. (ConsentFirst /\ OneVoice /\ ScoreInv /\ ScoredOnce)'
    BY <2>1 DEF Inv, ConsentFirst, OneVoice, ScoreInv, ScoredOnce
  <2>6. QED
    BY <2>2, <2>3, <2>4, <2>5 DEF Inv
<1>2. ASSUME WriteOptOut PROVE Inv'
  <2> USE DEF Inv
  <2>1. /\ step = "writeOptOut" /\ step' = "forget" /\ tok' = tok
        /\ status' = [status EXCEPT ![tok] = "opted_out"]
        /\ UNCHANGED <<consentAt, mail, session, consented, transcript,
                       interviews, expired, optOutShown>>
    BY <1>2 DEF WriteOptOut, Proceed, activeVars
  <2>2. tok \in Tokens /\ status[tok] # "none"
    BY <2>1 DEF StepInv, TypeOK
  <2>3. TypeOK'
    BY <2>1 DEF TypeOK, Steps, Statuses
  <2>4. RowInv' /\ ChatInv'
    BY <2>1, <2>2 DEF RowInv, ChatInv, TypeOK
  <2>5. StepInv'
    BY <2>1, <2>2 DEF StepInv, TypeOK
  <2>6. (ConsentFirst /\ OneVoice /\ ScoredOnce)'
    BY <2>1 DEF ConsentFirst, OneVoice, ScoredOnce
  <2>7. ScoreInv'
    BY <2>1, <2>2 DEF ScoreInv, TypeOK, InterviewRow
  <2>8. QED
    BY <2>3, <2>4, <2>5, <2>6, <2>7
<1>3. ASSUME ForgetInterview PROVE Inv'
  <2>1. /\ step = "forget" /\ step' = "idle" /\ tok' = NoToken
        /\ session' = [session EXCEPT ![tok] = Nobody]
        /\ consented' = [consented EXCEPT ![tok] = FALSE]
        /\ transcript' = [transcript EXCEPT ![tok] = NoTranscript]
        /\ optOutShown' = optOutShown \cup {tok}
        /\ UNCHANGED <<status, consentAt, mail, interviews, expired>>
    BY <1>3 DEF ForgetInterview, Return, Forget, rowVars
  <2>2. tok \in Tokens
    BY <2>1 DEF Inv, StepInv, TypeOK
  <2>3. optOutShown' \subseteq Tokens
    BY <2>1, <2>2 DEF Inv, TypeOK
  <2>4. QED
    BY <2>1, <2>3, ForgottenInv
<1>4. ASSUME NEW t \in Tokens, OptOutUnknown(t) PROVE Inv'
  <2>1. /\ optOutShown' = optOutShown \cup {t}
        /\ UNCHANGED <<status, consentAt, mail, session, consented, transcript,
                       interviews, step, tok, expired>>
    BY <1>4 DEF OptOutUnknown, Atomic, rowVars, activeVars, callVars
  <2>2. TypeOK'
    BY <2>1 DEF Inv, TypeOK
  <2>3. RowInv' /\ ChatInv' /\ StepInv'
    BY <2>1 DEF Inv, RowInv, ChatInv, StepInv
  <2>4. (ConsentFirst /\ OneVoice /\ ScoreInv /\ ScoredOnce)'
    BY <2>1 DEF Inv, ConsentFirst, OneVoice, ScoreInv, ScoredOnce
  <2>5. QED
    BY <2>2, <2>3, <2>4 DEF Inv
<1>5. QED
  BY <1>1, <1>2, <1>3, <1>4 DEF OptingOut

\* An exception at any call, a restart at any moment and the end of a token's
\* validity keep the invariant.
LEMMA EnvironmentInv == Inv /\ Environment => Inv'
<1> SUFFICES ASSUME Inv, Environment PROVE Inv'
  OBVIOUS
<1> USE DEF Inv
<1>1. ASSUME Fail PROVE Inv'
  <2>1. /\ step' = "idle" /\ tok' = NoToken
        /\ UNCHANGED <<status, consentAt, mail, session, consented, transcript,
                       interviews, expired, optOutShown>>
    BY <1>1 DEF Fail, Return, rowVars, activeVars
  <2>2. TypeOK'
    BY <2>1 DEF TypeOK, Steps
  <2>3. RowInv' /\ ChatInv' /\ StepInv'
    BY <2>1 DEF RowInv, ChatInv, StepInv
  <2>4. (ConsentFirst /\ OneVoice /\ ScoreInv /\ ScoredOnce)'
    BY <2>1 DEF ConsentFirst, OneVoice, ScoreInv, ScoredOnce
  <2>5. QED
    BY <2>2, <2>3, <2>4
<1>2. ASSUME Restart PROVE Inv'
  <2>1. /\ step' = "idle" /\ tok' = NoToken
        /\ session' = [t \in Tokens |-> Nobody]
        /\ consented' = [t \in Tokens |-> FALSE]
        /\ transcript' = [t \in Tokens |-> NoTranscript]
        /\ UNCHANGED <<status, consentAt, mail, interviews, expired, optOutShown>>
    BY <1>2 DEF Restart, rowVars
  <2>2. TypeOK'
    BY <2>1 DEF TypeOK, Steps, NoTranscript, Transcript
  <2>3. RowInv' /\ ChatInv' /\ StepInv'
    BY <2>1 DEF RowInv, ChatInv, StepInv, NoTranscript
  <2>4. (ConsentFirst /\ OneVoice /\ ScoreInv /\ ScoredOnce)'
    BY <2>1, <2>3 DEF ChatInv, ConsentFirst, OneVoice, ScoreInv, ScoredOnce
  <2>5. QED
    BY <2>2, <2>3, <2>4
<1>3. ASSUME NEW t \in Tokens, Expire(t) PROVE Inv'
  <2>1. /\ expired' = expired \cup {t}
        /\ UNCHANGED <<status, consentAt, mail, session, consented, transcript,
                       interviews, step, tok, optOutShown>>
    BY <1>3 DEF Expire, rowVars, activeVars, callVars
  <2>2. TypeOK'
    BY <2>1 DEF TypeOK
  <2>3. RowInv' /\ ChatInv' /\ StepInv'
    BY <2>1 DEF RowInv, ChatInv, StepInv
  <2>4. (ConsentFirst /\ OneVoice /\ ScoreInv /\ ScoredOnce)'
    BY <2>1 DEF ConsentFirst, OneVoice, ScoreInv, ScoredOnce
  <2>5. QED
    BY <2>2, <2>3, <2>4
<1>4. QED
  BY <1>1, <1>2, <1>3 DEF Environment

\* A step that changes nothing.
LEMMA StutterInv == Inv /\ UNCHANGED vars => Inv'
BY DEF Inv, vars, rowVars, activeVars, callVars, TypeOK, RowInv, ChatInv, StepInv,
       ConsentFirst, OneVoice, ScoreInv, ScoredOnce

LEMMA StepKeepsInv == Inv /\ [Next]_vars => Inv'
BY SendingInv, ChattingInv, CompletingInv, OptingOutInv, EnvironmentInv, StutterInv DEF Next

\* The invariant holds in every reachable state, for every set of persons,
\* ventures, links and devices and every number of interviews.
THEOREM Invariance == Spec => []Inv
BY InitInv, StepKeepsInv, PTL DEF Spec

\* Every variable keeps its type: a row has a status the code writes, a stored
\* interview has a link, and only a device is on record as having spoken.
THEOREM TypeCorrect == Spec => []TypeOK
<1>1. Inv => TypeOK
  BY DEF Inv
<1>2. QED
  BY <1>1, Invariance, PTL

\* Consent comes first, in the running chats and in the stored interviews.
THEOREM ConsentComesFirst == Spec => []ConsentFirst
<1>1. Inv => ConsentFirst
  BY DEF Inv
<1>2. QED
  BY <1>1, Invariance, PTL

\* A stored interview has one voice.
THEOREM InterviewsHaveOneVoice == Spec => []OneVoice
<1>1. Inv => OneVoice
  BY DEF Inv
<1>2. QED
  BY <1>1, Invariance, PTL

\* At most one stored interview of a link carries a score.
THEOREM InterviewsAreScoredOnce == Spec => []ScoredOnce
<1>1. Inv => ScoredOnce
  BY DEF Inv
<1>2. QED
  BY <1>1, Invariance, PTL

\* After an opt-out on one link, no mail with another link reaches the person.
THEOREM OptOutStopsContact == Spec => NoContactAfterOptOut
<1>1. ASSUME Inv, [Next]_vars, NEW t \in Tokens, NEW u \in Tokens,
             status[t] = "opted_out", Delivers(u)
      PROVE  mail'[u].to # mail[t].to
  <2>1. CASE DeliverMail
    <3>1. /\ step = "deliver"
          /\ mail' = [mail EXCEPT ![tok].delivered = TRUE]
      BY <2>1 DEF DeliverMail, Proceed
    <3>2. tok \in Tokens /\ mail[tok] \in Mail /\ mail[tok].to # mail[t].to
      BY <1>1, <3>1 DEF Inv, StepInv, TypeOK
    <3>3. u = tok
      BY <1>1, <3>1, <3>2 DEF Delivers, Inv, TypeOK
    <3>4. mail'[tok].to = mail[tok].to
      BY <1>1, <3>1, <3>2 DEF Inv, TypeOK, Mail
    <3>5. QED
      BY <3>2, <3>3, <3>4
  <2>2. ASSUME NEW v \in Ventures, NEW x \in Tokens,
               NEW contactable \in SUBSET Persons, NEW suppressed \in SUBSET Persons,
               RenderMail(v, x, contactable, suppressed)
        PROVE  FALSE
    <3>1. PICK founder \in Persons :
            mail' = [mail EXCEPT ![x] = [to |-> founder, about |-> v, delivered |-> FALSE]]
      BY <2>2 DEF RenderMail
    <3>2. QED
      BY <1>1, <3>1 DEF Delivers, Inv, TypeOK
  <2>3. CASE UNCHANGED mail
    BY <1>1, <2>3 DEF Delivers
  <2>4. DeliverMail \/ UNCHANGED mail
          \/ \E v \in Ventures, x \in Tokens, contactable, suppressed \in SUBSET Persons :
               RenderMail(v, x, contactable, suppressed)
    BY <1>1 DEF Next, vars, rowVars, Sending, PersistOutreach, Chatting, Open, AnswerNo,
                AnswerYes, Answer, Skip, WriteDeclined, WriteConsented, WriteStarted,
                AskFirst, Acknowledge, Completing, CompleteTooEarly, Complete,
                PersistInterview, WriteInterviewed, Rescore, AttachScore, Release,
                OptingOut, OptOut, OptOutUnknown, WriteOptOut, ForgetInterview,
                Environment, Fail, Restart, Expire
  <2>5. QED
    BY <2>1, <2>2, <2>3, <2>4
<1>2. Inv /\ [Next]_vars =>
        [\A t, u \in Tokens :
           status[t] = "opted_out" /\ Delivers(u) => mail'[u].to # mail[t].to]_vars
  BY <1>1
<1>3. QED
  BY <1>2, Invariance, PTL DEF Spec, NoContactAfterOptOut

(***************************************************************************)
(* Interview implements OutreachPromise: every step of a handler maps to   *)
(* one step of the promise or to none.                                     *)
(***************************************************************************)

\* The phase of a link moves.
LEMMA PhaseMoves ==
  ASSUME NEW t \in Tokens, NEW from, NEW to,
         Phase(t) \in from, Phase(t)' = to,
         \A u \in Tokens \ {t} : Phase(u)' = Phase(u)
  PROVE  Promise!Move(t, from, to)
BY DEF Promise!Move

\* No phase changes: nothing the promise looks at does.
LEMMA NothingMoves ==
  ASSUME \A t \in Tokens : Phase(t)' = Phase(t), UNCHANGED interviews
  PROVE  UNCHANGED Promise!vars
BY DEF Promise!vars, Kept, Attached

\* The promise sees the stored interviews through Kept and Attached only.
LEMMA SameInterviews ==
  ASSUME UNCHANGED interviews
  PROVE  UNCHANGED <<Kept, Attached>>
BY DEF Kept, Attached

\* The initial states map to the initial state of the promise.
LEMMA PromiseInit == Init => Promise!Init
BY DEF Init, Promise!Init, Phase, Kept, Attached

\* A sent mail is an invitation; before its row there is none.
LEMMA PromiseSending == Inv /\ Sending => [Promise!Next]_(Promise!vars)
<1> SUFFICES ASSUME Inv, Sending PROVE [Promise!Next]_(Promise!vars)
  OBVIOUS
<1>1. CASE UNCHANGED <<status, consented, interviews>>
  BY <1>1, NothingMoves DEF Phase
<1>2. CASE PersistOutreach
  <2>1. PICK t \in Tokens :
          /\ status[t] = "none" /\ ~consented[t]
          /\ status' = [status EXCEPT ![t] = "sent"]
          /\ UNCHANGED <<consented, interviews>>
    BY <1>2 DEF PersistOutreach, Return, activeVars, Inv, StepInv, RowInv, TypeOK
  <2>2. Phase(t) = "unsent" /\ Phase(t)' = "invited"
    BY <2>1 DEF Phase, Inv, TypeOK
  <2>3. \A u \in Tokens \ {t} : Phase(u)' = Phase(u)
    BY <2>1 DEF Phase, Inv, TypeOK
  <2>4. Promise!Move(t, {"unsent"}, "invited")
    BY <2>1, <2>2, <2>3, PhaseMoves
  <2>5. QED
    BY <2>1, <2>4, SameInterviews DEF Promise!Next, Promise!Invite
<1>3. QED
  BY <1>1, <1>2 DEF Sending, RenderMail, DeliverMail, activeVars

\* The answer to the consent prompt agrees or refuses; nothing else in the chat
\* moves a link.
LEMMA PromiseChatting == Inv /\ Chatting => [Promise!Next]_(Promise!vars)
<1> SUFFICES ASSUME Inv, Chatting PROVE [Promise!Next]_(Promise!vars)
  OBVIOUS
<1>1. CASE UNCHANGED <<status, consented, interviews>>
  BY <1>1, NothingMoves DEF Phase
<1>2. ASSUME NEW t \in Tokens, NEW s \in Sessions, AnswerYes(t, s)
      PROVE  [Promise!Next]_(Promise!vars)
  <2>1. /\ status[t] \in OpenStatuses /\ ~consented[t]
        /\ consented' = [consented EXCEPT ![t] = TRUE]
        /\ UNCHANGED <<status, interviews>>
    BY <1>2 DEF AnswerYes, BeforeConsent, Usable, rowVars
  <2>2. Phase(t) = "invited" /\ Phase(t)' = "agreed"
    BY <2>1 DEF Phase, OpenStatuses, Inv, TypeOK
  <2>3. \A u \in Tokens \ {t} : Phase(u)' = Phase(u)
    BY <2>1 DEF Phase, Inv, TypeOK
  <2>4. Promise!Move(t, {"invited"}, "agreed")
    BY <2>2, <2>3, PhaseMoves
  <2>5. QED
    BY <2>1, <2>4, SameInterviews DEF Promise!Next, Promise!Agree
<1>3. CASE WriteDeclined
  <2>1. PICK t \in Tokens :
          /\ status[t] \in OpenStatuses /\ ~consented[t]
          /\ status' = [status EXCEPT ![t] = "declined"]
          /\ UNCHANGED <<consented, interviews>>
    BY <1>3 DEF WriteDeclined, Return, activeVars, Inv, StepInv, TypeOK
  <2>2. Phase(t) = "invited" /\ Phase(t)' = "refused"
    BY <2>1 DEF Phase, OpenStatuses, Inv, TypeOK
  <2>3. \A u \in Tokens \ {t} : Phase(u)' = Phase(u)
    BY <2>1 DEF Phase, Inv, TypeOK
  <2>4. Promise!Move(t, {"invited"}, "refused")
    BY <2>1, <2>2, <2>3, PhaseMoves
  <2>5. QED
    BY <2>1, <2>4, SameInterviews DEF Promise!Next, Promise!Refuse
<1>4. CASE WriteConsented \/ WriteStarted
  <2>1. /\ tok \in Tokens /\ status[tok] \in OpenStatuses
        /\ \E new \in OpenStatuses : status' = [status EXCEPT ![tok] = new]
        /\ UNCHANGED <<consented, interviews>>
    BY <1>4 DEF WriteConsented, WriteStarted, Proceed, activeVars, Inv, StepInv, TypeOK,
                OpenStatuses
  <2>2. \A u \in Tokens : Phase(u)' = Phase(u)
    BY <2>1 DEF Phase, OpenStatuses, Inv, TypeOK
  <2>3. QED
    BY <2>1, <2>2, NothingMoves
<1>5. QED
  BY <1>1, <1>2, <1>3, <1>4
     DEF Chatting, Open, AnswerNo, Answer, Skip, AskFirst, Acknowledge, rowVars

\* A completion keeps, finishes and attaches, in this order.
LEMMA PromiseCompleting == Inv /\ Completing => [Promise!Next]_(Promise!vars)
<1> SUFFICES ASSUME Inv, Completing PROVE [Promise!Next]_(Promise!vars)
  OBVIOUS
<1>1. CASE UNCHANGED <<status, consented, interviews>>
  BY <1>1, NothingMoves DEF Phase
<1>2. CASE PersistInterview
  <2> DEFINE row == [tok |-> tok, transcript |-> transcript[tok], scored |-> FALSE]
  <2>1. /\ tok \in Tokens /\ status[tok] \in OpenStatuses /\ consented[tok]
        /\ interviews' = Append(interviews, row)
        /\ UNCHANGED <<status, consented>>
    BY <1>2 DEF PersistInterview, Proceed, rowVars, activeVars, Inv, StepInv, TypeOK
  <2>2. interviews \in Seq(InterviewRow) /\ row \in InterviewRow
    BY <2>1 DEF Inv, TypeOK, InterviewRow
  <2>3. /\ \A n \in DOMAIN interviews : interviews'[n] = interviews[n]
        /\ interviews'[Len(interviews')] = row
        /\ DOMAIN interviews' = DOMAIN interviews \cup {Len(interviews')}
    BY <2>1, <2>2
  <2>4. Kept' = Kept \cup {tok} /\ Attached' = Attached
    BY <2>1, <2>3 DEF Kept, Attached
  <2>5. Phase(tok) = "agreed"
    BY <2>1 DEF Phase, OpenStatuses
  <2>6. \A u \in Tokens : Phase(u)' = Phase(u)
    BY <2>1 DEF Phase
  <2>7. Promise!Keep(tok)
    BY <2>1, <2>4, <2>5, <2>6 DEF Promise!Keep
  <2>8. QED
    BY <2>1, <2>7 DEF Promise!Next
<1>3. CASE WriteInterviewed
  <2>1. PICK t \in Tokens :
          /\ status[t] \in OpenStatuses /\ consented[t]
          /\ interviews # <<>> /\ interviews[Len(interviews)].tok = t
          /\ status' = [status EXCEPT ![t] = "interviewed"]
          /\ UNCHANGED <<consented, interviews>>
    BY <1>3 DEF WriteInterviewed, Proceed, activeVars, Inv, StepInv, TypeOK
  <2>2. Phase(t) = "agreed" /\ Phase(t)' = "done"
    BY <2>1 DEF Phase, OpenStatuses, Inv, TypeOK
  <2>3. \A u \in Tokens \ {t} : Phase(u)' = Phase(u)
    BY <2>1 DEF Phase, Inv, TypeOK
  <2>4. Promise!Move(t, {"agreed"}, "done")
    BY <2>1, <2>2, <2>3, PhaseMoves
  <2>5. Len(interviews) \in DOMAIN interviews
    BY <2>1 DEF Inv, TypeOK
  <2>6. t \in Kept
    BY <2>1, <2>5 DEF Kept
  <2>7. QED
    BY <2>1, <2>4, <2>6, SameInterviews DEF Promise!Next, Promise!Finish
<1>4. CASE AttachScore
  <2> DEFINE last == Len(interviews)
  <2>1. /\ tok \in Tokens /\ status[tok] = "interviewed"
        /\ interviews # <<>> /\ interviews[last].tok = tok
        /\ \A n \in DOMAIN interviews : interviews[n].tok = tok => ~interviews[n].scored
        /\ interviews' = [interviews EXCEPT ![last].scored = TRUE]
        /\ UNCHANGED <<status, consented>>
    BY <1>4 DEF AttachScore, Proceed, rowVars, activeVars, Inv, StepInv, TypeOK
  <2>2. interviews \in Seq(InterviewRow) /\ last \in DOMAIN interviews
    BY <2>1 DEF Inv, TypeOK
  <2>3. interviews[last] \in InterviewRow
    BY <2>2
  <2>4. /\ DOMAIN interviews' = DOMAIN interviews
        /\ \A n \in DOMAIN interviews \ {last} : interviews'[n] = interviews[n]
        /\ interviews'[last].tok = tok
        /\ interviews'[last].scored
    BY <2>1, <2>2, <2>3 DEF InterviewRow
  <2>5. Kept' = Kept /\ Attached' = Attached \cup {tok} /\ tok \notin Attached
    BY <2>1, <2>2, <2>4 DEF Kept, Attached
  <2>6. Phase(tok) = "done"
    BY <2>1 DEF Phase
  <2>7. \A u \in Tokens : Phase(u)' = Phase(u)
    BY <2>1 DEF Phase
  <2>8. Promise!Attach(tok)
    BY <2>1, <2>5, <2>6, <2>7 DEF Promise!Attach
  <2>9. QED
    BY <2>1, <2>8 DEF Promise!Next
<1>5. CASE Release
  <2>1. /\ tok \in Tokens /\ status[tok] = "interviewed"
        /\ consented' = [consented EXCEPT ![tok] = FALSE]
        /\ UNCHANGED <<status, interviews>>
    BY <1>5 DEF Release, Return, Forget, rowVars, Inv, StepInv, TypeOK
  <2>2. \A u \in Tokens : Phase(u)' = Phase(u)
    BY <2>1 DEF Phase, Inv, TypeOK
  <2>3. QED
    BY <2>1, <2>2, NothingMoves
<1>6. QED
  BY <1>1, <1>2, <1>3, <1>4, <1>5
     DEF Completing, CompleteTooEarly, Complete, Rescore, rowVars, activeVars

\* An opt-out withdraws the link, whatever its phase.
LEMMA PromiseOptingOut == Inv /\ OptingOut => [Promise!Next]_(Promise!vars)
<1> SUFFICES ASSUME Inv, OptingOut PROVE [Promise!Next]_(Promise!vars)
  OBVIOUS
<1>1. CASE UNCHANGED <<status, consented, interviews>>
  BY <1>1, NothingMoves DEF Phase
<1>2. CASE WriteOptOut
  <2>1. PICK t \in Tokens :
          /\ status[t] # "none"
          /\ status' = [status EXCEPT ![t] = "opted_out"]
          /\ UNCHANGED <<consented, interviews>>
    BY <1>2 DEF WriteOptOut, Proceed, activeVars, Inv, StepInv, TypeOK
  <2>2. Phase(t) \in Promise!Phases \ {"unsent"} /\ Phase(t)' = "withdrawn"
    BY <2>1 DEF Phase, Promise!Phases, Inv, TypeOK
  <2>3. \A u \in Tokens \ {t} : Phase(u)' = Phase(u)
    BY <2>1 DEF Phase, Inv, TypeOK
  <2>4. Promise!Move(t, Promise!Phases \ {"unsent"}, "withdrawn")
    BY <2>1, <2>2, <2>3, PhaseMoves
  <2>5. QED
    BY <2>1, <2>4, SameInterviews DEF Promise!Next, Promise!Withdraw
<1>3. CASE ForgetInterview
  <2>1. /\ tok \in Tokens /\ status[tok] = "opted_out"
        /\ consented' = [consented EXCEPT ![tok] = FALSE]
        /\ UNCHANGED <<status, interviews>>
    BY <1>3 DEF ForgetInterview, Return, Forget, rowVars, Inv, StepInv, TypeOK
  <2>2. \A u \in Tokens : Phase(u)' = Phase(u)
    BY <2>1 DEF Phase, Inv, TypeOK
  <2>3. QED
    BY <2>1, <2>2, NothingMoves
<1>4. QED
  BY <1>1, <1>2, <1>3 DEF OptingOut, OptOut, OptOutUnknown, rowVars, activeVars

\* A restart is a lapse of the agreements not yet acted on; an exception and
\* the passing of time change no phase.
LEMMA PromiseEnvironment == Inv /\ Environment => [Promise!Next]_(Promise!vars)
<1> SUFFICES ASSUME Inv, Environment PROVE [Promise!Next]_(Promise!vars)
  OBVIOUS
<1>1. CASE UNCHANGED <<status, consented, interviews>>
  BY <1>1, NothingMoves DEF Phase
<1>2. CASE Restart
  <2>1. /\ consented' = [t \in Tokens |-> FALSE]
        /\ UNCHANGED <<status, interviews>>
    BY <1>2 DEF Restart, rowVars
  <2>2. \A t \in Tokens : Phase(t)' = IF Phase(t) = "agreed" THEN "invited" ELSE Phase(t)
    BY <2>1 DEF Phase
  <2>3. QED
    BY <2>1, <2>2, SameInterviews DEF Promise!Next, Promise!Lapse
<1>3. QED
  BY <1>1, <1>2 DEF Environment, Fail, Expire, rowVars, activeVars

\* The engine keeps the promise of OutreachPromise, for every set of links and
\* devices: it is a refinement, through failures and restarts.
THEOREM Implementation == Spec => PromiseKept
<1>1. Inv /\ [Next]_vars => [Promise!Next]_(Promise!vars)
  <2>1. Inv /\ UNCHANGED vars => UNCHANGED Promise!vars
    BY NothingMoves DEF vars, rowVars, activeVars, Phase
  <2>2. QED
    BY <2>1, PromiseSending, PromiseChatting, PromiseCompleting, PromiseOptingOut,
       PromiseEnvironment DEF Next
<1>2. QED
  BY PromiseInit, <1>1, Invariance, PTL DEF Spec, PromiseKept, Promise!Spec

====
