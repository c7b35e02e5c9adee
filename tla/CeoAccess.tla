----------------------------- MODULE CeoAccess ------------------------------
(***************************************************************************)
(* Sign-in and sessions of the demo (app.ceo_auth, app.ceo_auth_store,     *)
(* app.ceo_auth_boundary and its routes).  A challenge is consumed in one  *)
(* database transaction, the identity token is verified outside it by a    *)
(* worker that may take up to its time limit, and the session is created   *)
(* in a second transaction.  Sessions end by expiry, by sign-out, by the   *)
(* next sign-in of the same browser, or when the address leaves the list.  *)
(*                                                                         *)
(* A token is a number handed out once.  The identity service is external: *)
(* a credential is what it signed, for the nonce it was given.             *)
(***************************************************************************)
EXTENDS Integers, FiniteSets

CONSTANTS
    Browsers,           \* user agents with their cookies
    Attempts,           \* sign-in requests in flight at once, of any browser
    Subjects,           \* Google subjects
    ChallengeSeconds,   \* lifetime of a challenge (300)
    SessionSeconds,     \* ceo_demo_session_seconds
    TableRows,          \* capacity of each table (1000)
    LastSecond,         \* bound: the clock
    MaxTokens           \* bound: challenges issued

NoToken == 0
AtRest == [pc |-> "rest"]

ASSUME AccessAssumption ==
    /\ ChallengeSeconds \in Nat \ {0} /\ SessionSeconds \in Nat \ {0}
    /\ TableRows \in Nat \ {0}

VARIABLES
    second,       \* the clock
    challenges,   \* rows [token, expires]; the nonce is named by the token
    sessions,     \* rows [token, subject, expires]
    allowed,      \* subjects whose address is on the list
    cookies,      \* browser -> challenge and session cookie
    signIns,      \* attempt -> the sign-in in progress
    admitted,       \* browser -> the request past the boundary
    issued,       \* tokens handed out so far
    opened        \* history: [challenge, nonce, subject, at, exp, session] of each session

accessVars == <<second, challenges, sessions, allowed, cookies, signIns, admitted, issued, opened>>

Live(rows) == {row \in rows : row.expires > second}
Earlier(a, b) == IF a < b THEN a ELSE b

AccessInit ==
    /\ second = 0 /\ issued = 0
    /\ challenges = {} /\ sessions = {} /\ opened = {}
    /\ allowed = Subjects
    /\ cookies = [b \in Browsers |-> [challenge |-> NoToken, session |-> NoToken]]
    /\ signIns = [a \in Attempts |-> AtRest]
    /\ admitted = [b \in Browsers |-> AtRest]

Elapse ==
    /\ second < LastSecond /\ second' = second + 1
    /\ UNCHANGED <<challenges, sessions, allowed, cookies, signIns, admitted, issued, opened>>

\* The deployment is configured without the address.
RemoveAddress(s) ==
    /\ s \in allowed /\ allowed' = allowed \ {s}
    /\ UNCHANGED <<second, challenges, sessions, cookies, signIns, admitted, issued, opened>>

\* GET /config: expired challenges are purged, then a new one if there is room.
IssueChallenge(b) ==
    /\ issued < MaxTokens
    /\ Cardinality(Live(challenges)) < TableRows
    /\ issued' = issued + 1
    /\ challenges' = Live(challenges)
                     \cup {[token |-> issued + 1, expires |-> second + ChallengeSeconds]}
    /\ cookies' = [cookies EXCEPT ![b].challenge = issued + 1]
    /\ UNCHANGED <<second, sessions, allowed, signIns, admitted, opened>>

\* What the identity service signed: a subject, the nonce it was asked for, and
\* an expiry.
Credentials ==
    [subject : Subjects, nonce : 1..MaxTokens, exp : 0..LastSecond]

\* AuthStore.consume: read and delete the challenge in one transaction.
ConsumeKeeps(token) == challenges

Consume(token) == {c \in challenges : c.token # token}

\* POST /google, first transaction, with the cookies the request carries.  A
\* missing or expired challenge ends it.
BeginSignIn(a, b) ==
    LET token == cookies[b].challenge
        valid == \E c \in Live(challenges) : c.token = token
    IN  /\ signIns[a].pc = "rest" /\ token # NoToken
        /\ challenges' = Consume(token)
        /\ signIns' = [signIns EXCEPT ![a] =
               IF valid THEN [pc |-> "verify", browser |-> b, challenge |-> token,
                              old |-> cookies[b].session] ELSE AtRest]
        /\ cookies' = IF valid THEN cookies ELSE [cookies EXCEPT ![b].challenge = NoToken]
        /\ UNCHANGED <<second, sessions, allowed, admitted, issued, opened>>

\* The worker times out, dies or answers what login does not accept; or the end
\* of the old session fails, with the new one already in the table.
SignInRefused(a) ==
    /\ signIns[a].pc \in {"verify", "replace"}
    /\ signIns' = [signIns EXCEPT ![a] = AtRest]
    /\ cookies' = [cookies EXCEPT ![signIns[a].browser].challenge = NoToken]
    /\ UNCHANGED <<second, challenges, sessions, allowed, admitted, issued, opened>>

\* login after the worker: every claim is checked against the clock and the list
\* of now, and the session is created if there is room.
Verified(credential, challenge) ==
    /\ credential.exp > second
    /\ credential.nonce = challenge
    /\ credential.subject \in allowed

OpenSession(a, credential) ==
    LET challenge == signIns[a].challenge
        expires == Earlier(credential.exp, second + SessionSeconds)
        token == Cardinality(opened) + 1
    IN  /\ signIns[a].pc = "verify"
        /\ Verified(credential, challenge)
        /\ Cardinality(Live(sessions)) < TableRows
        /\ sessions' = Live(sessions)
               \cup {[token |-> token, subject |-> credential.subject, expires |-> expires]}
        /\ opened' = opened
               \cup {[session |-> token, challenge |-> challenge,
                      nonce |-> credential.nonce, subject |-> credential.subject,
                      at |-> second, exp |-> credential.exp]}
        /\ signIns' = [signIns EXCEPT ![a] =
               [pc |-> "replace", browser |-> @.browser, old |-> @.old, new |-> token]]
        /\ UNCHANGED <<second, challenges, allowed, cookies, admitted, issued>>

\* The route then ends the session the browser came with and sets the cookies.
AnswerSignIn(a) ==
    /\ signIns[a].pc = "replace"
    /\ sessions' = {s \in sessions : s.token # signIns[a].old}
    /\ cookies' = [cookies EXCEPT ![signIns[a].browser] =
                      [challenge |-> NoToken, session |-> signIns[a].new]]
    /\ signIns' = [signIns EXCEPT ![a] = AtRest]
    /\ UNCHANGED <<second, challenges, allowed, admitted, issued, opened>>

\* CEOAuth.session: an expired session or one off the list is revoked.
SessionStands(row) == row.expires > second /\ row.subject \in allowed

\* The boundary looks the session up; the handler runs later, with what it saw.
Admit(b) ==
    LET token == cookies[b].session
        rows == {s \in sessions : s.token = token}
    IN  /\ admitted[b].pc = "rest" /\ rows # {}
        /\ \E row \in rows :
            IF SessionStands(row)
            THEN /\ admitted' = [admitted EXCEPT ![b] =
                        [pc |-> "handler", subject |-> row.subject, token |-> token,
                         at |-> second, listed |-> row.subject \in allowed]]
                 /\ UNCHANGED sessions
            ELSE /\ sessions' = sessions \ rows
                 /\ UNCHANGED admitted
        /\ UNCHANGED <<second, challenges, allowed, cookies, signIns, issued, opened>>

ServeRequest(b) ==
    /\ admitted[b].pc = "handler"
    /\ admitted' = [admitted EXCEPT ![b] = AtRest]
    /\ UNCHANGED <<second, challenges, sessions, allowed, cookies, signIns, issued, opened>>

\* POST /logout revokes the session, consumes the challenge and then clears both
\* cookies.
SignOut(b) ==
    /\ cookies[b] # [challenge |-> NoToken, session |-> NoToken]
    /\ sessions' = {s \in sessions : s.token # cookies[b].session}
    /\ challenges' = Consume(cookies[b].challenge)
    /\ cookies' = [cookies EXCEPT ![b] = [challenge |-> NoToken, session |-> NoToken]]
    /\ UNCHANGED <<second, allowed, signIns, admitted, issued, opened>>

\* The process dies: what was in flight goes, the two tables stay.
AccessRestart ==
    /\ signIns' = [a \in Attempts |-> AtRest]
    /\ admitted' = [b \in Browsers |-> AtRest]
    /\ <<signIns, admitted>>' # <<signIns, admitted>>
    /\ UNCHANGED <<second, challenges, sessions, allowed, cookies, issued, opened>>

AccessNext ==
    \/ Elapse \/ AccessRestart
    \/ \E s \in Subjects : RemoveAddress(s)
    \/ \E a \in Attempts :
        \/ \E b \in Browsers : BeginSignIn(a, b)
        \/ \E c \in Credentials : OpenSession(a, c)
        \/ SignInRefused(a) \/ AnswerSignIn(a)
    \/ \E b \in Browsers : IssueChallenge(b) \/ Admit(b) \/ ServeRequest(b) \/ SignOut(b)

AccessSpec == AccessInit /\ [][AccessNext]_accessVars

-----------------------------------------------------------------------------
\* A challenge signs in at most once, however sign-ins of one browser overlap
\* and whether or not the process dies in the middle, and only the subject that
\* answered its nonce; a request past the boundary belongs to a subject that was
\* on the list and inside the lifetime of both credential and session when the
\* boundary looked; the tables stay within their capacity
\* (AuthStore.consume, CEOAuth.login, CEOAuth.session).
SignInIsOnce ==
    /\ \A s, t \in opened : s.challenge = t.challenge => s = t
    /\ \A s \in opened : s.nonce = s.challenge
    /\ \A b \in Browsers : admitted[b].pc = "handler" =>
        /\ admitted[b].listed
        /\ \E s \in opened :
            /\ s.session = admitted[b].token /\ s.subject = admitted[b].subject
            /\ admitted[b].at < s.exp /\ admitted[b].at < s.at + SessionSeconds
    /\ Cardinality(sessions) <= TableRows /\ Cardinality(challenges) <= TableRows
=============================================================================
