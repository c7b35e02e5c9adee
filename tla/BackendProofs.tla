----------------------------- MODULE BackendProofs -----------------------------
(***************************************************************************)
(* Proofs about the request handlers of the backend.                       *)
(*                                                                         *)
(* CeoAccess: a challenge signs in at most once and what passes the        *)
(* boundary was entitled to, for every number of browsers, of overlapping  *)
(* sign-ins and of subjects, for every lifetime and table capacity.        *)
(*                                                                         *)
(* ExperimentJobs: a record that says completed has its evidence, for      *)
(* every number of overlapping requests, of jobs and of files.             *)
(*                                                                         *)
(* CeoJourney: an answer of the research journey is the artifact stored    *)
(* for good, for every number of requests and identifiers, every set of    *)
(* saved predictions and every place where the process dies.               *)
(***************************************************************************)
EXTENDS CeoAccess, ExperimentJobs, CeoJourney, FiniteSetTheorems, SequenceTheorems,
        WellFoundedInduction, TLAPS

CookieRecords == [challenge : Nat, session : Nat]

SignInRecords ==
    {AtRest} \cup [pc : {"verify"}, browser : Browsers, challenge : Nat, old : Nat]
             \cup [pc : {"replace"}, browser : Browsers, old : Nat, new : Nat]

Typed ==
    /\ second \in Nat /\ issued \in Nat
    /\ cookies \in [Browsers -> CookieRecords]
    /\ signIns \in [Attempts -> SignInRecords]
    /\ DOMAIN admitted = Browsers

Tables ==
    /\ IsFiniteSet(challenges) /\ Cardinality(challenges) <= TableRows
    /\ IsFiniteSet(sessions) /\ Cardinality(sessions) <= TableRows
    /\ IsFiniteSet(opened)

Verifying == {a \in Attempts : signIns[a].pc = "verify"}

\* A token nobody has been given yet is nowhere.
TokensIssued ==
    /\ \A c \in challenges : c.token \in 1..issued
    /\ \A b \in Browsers : cookies[b].challenge \in 0..issued
    /\ \A s \in opened : s.challenge \in 1..issued
    /\ \A a \in Verifying : signIns[a].challenge \in 1..issued

\* A token is in one place: waiting in the table, held by one sign-in, or spent
\* on one session.
ChallengeOnce ==
    /\ \A s, t \in opened : s.challenge = t.challenge => s = t
    /\ \A c \in challenges, s \in opened : c.token # s.challenge
    /\ \A a \in Verifying :
        /\ \A c \in challenges : c.token # signIns[a].challenge
        /\ \A s \in opened : s.challenge # signIns[a].challenge
        /\ \A b \in Verifying : signIns[b].challenge = signIns[a].challenge => b = a

\* Every row of the session table was opened by a sign-in and has its lifetime.
SessionsOpened ==
    /\ \A s \in opened : s.nonce = s.challenge /\ s.exp \in Int /\ s.at \in Int
    /\ \A row \in sessions : \E s \in opened :
        /\ s.session = row.token /\ s.subject = row.subject
        /\ row.expires = Earlier(s.exp, s.at + SessionSeconds)

Admissions ==
    \A b \in Browsers : admitted[b].pc = "handler" =>
        /\ admitted[b].listed
        /\ \E s \in opened :
            /\ s.session = admitted[b].token /\ s.subject = admitted[b].subject
            /\ admitted[b].at < s.exp /\ admitted[b].at < s.at + SessionSeconds

AccessInv == Typed /\ Tables /\ TokensIssued /\ ChallengeOnce /\ SessionsOpened /\ Admissions

--------------------------------------------------------------------------------
\* A table that lost rows is still finite and within its capacity.
LEMMA FewerRows ==
    ASSUME NEW S, NEW T, IsFiniteSet(S), Cardinality(S) <= TableRows, T \subseteq S
    PROVE  IsFiniteSet(T) /\ Cardinality(T) <= TableRows
<1>1. IsFiniteSet(T) /\ Cardinality(T) <= Cardinality(S)
  BY FS_Subset
<1>2. Cardinality(T) \in Nat /\ Cardinality(S) \in Nat
  BY <1>1, FS_CardinalityType
<1> QED
  BY <1>1, <1>2, AccessAssumption

\* A row is inserted only after the expired ones are purged and there is room.
LEMMA OneMoreRow ==
    ASSUME NEW S, NEW T, NEW row, IsFiniteSet(S), T \subseteq S, Cardinality(T) < TableRows
    PROVE  IsFiniteSet(T \cup {row}) /\ Cardinality(T \cup {row}) <= TableRows
<1>1. IsFiniteSet(T)
  BY FS_Subset
<1>2. /\ IsFiniteSet(T \cup {row})
      /\ Cardinality(T \cup {row}) = IF row \in T THEN Cardinality(T) ELSE Cardinality(T) + 1
  BY <1>1, FS_AddElement
<1>3. Cardinality(T) \in Nat
  BY <1>1, FS_CardinalityType
<1> DEFINE n == Cardinality(T)
           m == Cardinality(T \cup {row})
<1>4. n \in Nat /\ n < TableRows /\ m = IF row \in T THEN n ELSE n + 1
  BY <1>2, <1>3
<1> HIDE DEF n, m
<1>5. m <= TableRows
  BY <1>4, AccessAssumption
<1> QED
  BY <1>2, <1>5 DEF m

\* Steps that only shrink the tables, and take no token out of its place.
LEMMA ShrinkStep ==
    ASSUME AccessInv, Typed', issued' = issued, opened' = opened,
           challenges' \subseteq challenges, sessions' \subseteq sessions,
           \A b \in Browsers : cookies'[b].challenge \in 0..issued,
           \A a \in Attempts : signIns'[a].pc = "verify" => signIns'[a] = signIns[a],
           Admissions'
    PROVE  AccessInv'
<1> USE DEF AccessInv
<1>1. Tables'
  BY FewerRows DEF Tables
<1>2. Verifying' \subseteq Verifying /\ \A a \in Verifying' : signIns'[a] = signIns[a]
  BY DEF Verifying
<1>3. TokensIssued'
  BY <1>2 DEF TokensIssued
<1>4. ChallengeOnce'
  BY <1>2 DEF ChallengeOnce
<1>5. SessionsOpened'
  BY DEF SessionsOpened
<1> QED
  BY <1>1, <1>3, <1>4, <1>5

--------------------------------------------------------------------------------
LEMMA QuietSteps ==
    ASSUME AccessInv,
           \/ Elapse \/ AccessRestart \/ (\E s \in Subjects : RemoveAddress(s))
           \/ (\E b \in Browsers : ServeRequest(b)) \/ UNCHANGED accessVars
    PROVE  AccessInv'
<1> USE DEF AccessInv
<1>1. /\ UNCHANGED <<challenges, sessions, cookies, issued, opened>> /\ second' \in Nat
  BY DEF Elapse, AccessRestart, RemoveAddress, ServeRequest, accessVars, Typed
<1>2. /\ signIns' \in [Attempts -> SignInRecords]
      /\ \A a \in Attempts : signIns'[a].pc = "verify" => signIns'[a] = signIns[a]
  <2>1. CASE AccessRestart
    BY <2>1 DEF AccessRestart, SignInRecords, AtRest
  <2>2. CASE UNCHANGED signIns
    BY <2>2 DEF Typed
  <2> QED
    BY <2>1, <2>2 DEF Elapse, RemoveAddress, ServeRequest, accessVars
<1>3. DOMAIN admitted' = Browsers /\ Admissions'
  <2>1. CASE UNCHANGED admitted
    BY <1>1, <2>1 DEF Typed, Admissions
  <2>2. CASE AccessRestart
    BY <1>1, <2>2 DEF AccessRestart, Admissions, AtRest
  <2>3. CASE \E b \in Browsers : ServeRequest(b)
    BY <1>1, <2>3 DEF ServeRequest, Typed, Admissions, AtRest
  <2> QED
    BY <2>1, <2>2, <2>3 DEF Elapse, RemoveAddress, accessVars
<1>4. Typed'
  BY <1>1, <1>2, <1>3 DEF Typed
<1>5. \A b \in Browsers : cookies'[b].challenge \in 0..issued
  BY <1>1 DEF TokensIssued
<1> QED
  BY <1>1, <1>2, <1>3, <1>4, <1>5, ShrinkStep

LEMMA IssueStep ==
    ASSUME AccessInv, NEW b \in Browsers, IssueChallenge(b)
    PROVE  AccessInv'
<1> USE DEF AccessInv
<1> DEFINE row == [token |-> issued + 1, expires |-> second + ChallengeSeconds]
           next == issued + 1
<1>1. /\ UNCHANGED <<second, sessions, signIns, admitted, opened>>
      /\ issued' = next /\ next \in Nat /\ issued \in Nat /\ issued < next
      /\ challenges' = Live(challenges) \cup {row} /\ row.token = next
      /\ Cardinality(Live(challenges)) < TableRows
      /\ Live(challenges) \subseteq challenges
  BY DEF IssueChallenge, Live, Typed
<1>2. /\ cookies' \in [Browsers -> CookieRecords] /\ cookies'[b].challenge = next
      /\ \A d \in Browsers : d # b => cookies'[d] = cookies[d]
  <2> HIDE DEF next
  <2>1. cookies' = [cookies EXCEPT ![b].challenge = next]
    BY DEF IssueChallenge, next
  <2>2. cookies \in [Browsers -> CookieRecords] /\ next \in Nat
    BY <1>1 DEF Typed
  <2> QED
    BY <2>1, <2>2 DEF CookieRecords
<1>3. Typed'
  BY <1>1, <1>2 DEF Typed
<1>4. Tables'
  BY <1>1, OneMoreRow DEF Tables
<1> HIDE DEF row, next
<1>5. Verifying' = Verifying
  BY <1>1 DEF Verifying
<1>6. TokensIssued'
  <2>1. \A n \in 0..issued : n \in 0..next /\ n # next
    BY <1>1
  <2>2. \A n \in 1..issued : n \in 1..next /\ n # next
    BY <1>1
  <2>3. \A c \in challenges' : c.token \in 1..next
    BY <1>1, <2>2 DEF TokensIssued
  <2>4. \A d \in Browsers : cookies'[d].challenge \in 0..next
    BY <1>1, <1>2, <2>1 DEF TokensIssued
  <2> QED
    BY <1>1, <1>5, <2>2, <2>3, <2>4 DEF TokensIssued
<1>7. ChallengeOnce'
  <2>1. \A n \in 1..issued : n # next
    BY <1>1
  <2>2. \A s \in opened : s.challenge # next
    BY <2>1 DEF TokensIssued
  <2>3. \A a \in Verifying : signIns[a].challenge # next
    BY <2>1 DEF TokensIssued
  <2> QED
    BY <1>1, <1>5, <2>2, <2>3 DEF ChallengeOnce
<1>8. SessionsOpened' /\ Admissions'
  BY <1>1 DEF SessionsOpened, Admissions
<1> QED
  BY <1>3, <1>4, <1>6, <1>7, <1>8

LEMMA BeginStep ==
    ASSUME AccessInv, NEW a \in Attempts, NEW b \in Browsers, BeginSignIn(a, b)
    PROVE  AccessInv'
<1> USE DEF AccessInv
<1> DEFINE token == cookies[b].challenge
           valid == \E c \in Live(challenges) : c.token = token
           held == [pc |-> "verify", browser |-> b, challenge |-> token, old |-> cookies[b].session]
<1>1. /\ UNCHANGED <<second, sessions, admitted, issued, opened>>
      /\ challenges' = {c \in challenges : c.token # token}
      /\ signIns' = [signIns EXCEPT ![a] = IF valid THEN held ELSE AtRest]
      /\ cookies' = IF valid THEN cookies ELSE [cookies EXCEPT ![b].challenge = NoToken]
      /\ signIns[a].pc = "rest"
  BY DEF BeginSignIn, Consume
<1>2. token \in Nat /\ cookies[b].session \in Nat
  BY DEF Typed, CookieRecords
<1>3. held \in SignInRecords /\ AtRest \in SignInRecords /\ AtRest.pc = "rest"
      /\ held.pc = "verify" /\ held.challenge = token
  BY <1>2 DEF SignInRecords, AtRest
<1>4. /\ signIns' \in [Attempts -> SignInRecords]
      /\ signIns'[a] = IF valid THEN held ELSE AtRest
      /\ \A x \in Attempts : x # a => signIns'[x] = signIns[x]
  <2> HIDE DEF held, valid
  <2> QED
    BY <1>1, <1>3 DEF Typed
<1>5. /\ cookies' \in [Browsers -> CookieRecords]
      /\ \A d \in Browsers : cookies'[d].challenge \in {cookies[d].challenge, 0}
  BY <1>1 DEF Typed, CookieRecords, NoToken
<1>6. Typed'
  BY <1>1, <1>4, <1>5 DEF Typed
<1>7. \A d \in Browsers : cookies'[d].challenge \in 0..issued
  BY <1>5 DEF TokensIssued, Typed
<1>8. Admissions'
  BY <1>1 DEF Admissions
<1> HIDE DEF held
<1>9. CASE ~valid
  <2>1. \A x \in Attempts : signIns'[x].pc = "verify" => signIns'[x] = signIns[x]
    BY <1>3, <1>4, <1>9
  <2> QED
    BY <1>1, <1>6, <1>7, <1>8, <2>1, ShrinkStep
<1>10. CASE valid
  <2>1. PICK c \in challenges : c.token = token
    BY <1>10 DEF Live
  <2>2. /\ token \in 1..issued
        /\ \A s \in opened : s.challenge # token
        /\ \A x \in Verifying : signIns[x].challenge # token
    BY <2>1 DEF TokensIssued, ChallengeOnce
  <2> HIDE DEF token, valid
  <2>3. /\ Verifying' = Verifying \cup {a} /\ a \notin Verifying
        /\ signIns'[a].challenge = token
        /\ \A x \in Verifying : signIns'[x] = signIns[x]
    BY <1>1, <1>3, <1>4, <1>10 DEF Verifying
  <2>4. Tables'
    BY <1>1, FewerRows DEF Tables
  <2>5. TokensIssued'
    BY <1>1, <1>7, <2>2, <2>3 DEF TokensIssued
  <2>6. ChallengeOnce'
    BY <1>1, <2>2, <2>3 DEF ChallengeOnce
  <2>7. SessionsOpened'
    BY <1>1 DEF SessionsOpened
  <2> QED
    BY <1>6, <1>8, <2>4, <2>5, <2>6, <2>7
<1> QED
  BY <1>9, <1>10

LEMMA RefusedStep ==
    ASSUME AccessInv, NEW a \in Attempts, SignInRefused(a)
    PROVE  AccessInv'
<1> USE DEF AccessInv
<1> DEFINE home == signIns[a].browser
<1>1. /\ UNCHANGED <<second, challenges, sessions, admitted, issued, opened>>
      /\ signIns' = [signIns EXCEPT ![a] = AtRest]
      /\ cookies' = [cookies EXCEPT ![home].challenge = NoToken]
      /\ signIns[a].pc # "rest" /\ signIns[a] \in SignInRecords
  BY DEF SignInRefused, Typed
<1>2. home \in Browsers
  BY <1>1 DEF SignInRecords, AtRest
<1>3. AtRest \in SignInRecords /\ AtRest.pc = "rest"
  BY DEF SignInRecords, AtRest
<1>4. /\ signIns' \in [Attempts -> SignInRecords]
      /\ \A x \in Attempts : signIns'[x].pc = "verify" => signIns'[x] = signIns[x]
  BY <1>1, <1>3 DEF Typed
<1> HIDE DEF home
<1>5. /\ cookies' \in [Browsers -> CookieRecords]
      /\ \A d \in Browsers : cookies'[d].challenge \in {cookies[d].challenge, 0}
  BY <1>1, <1>2 DEF Typed, CookieRecords, NoToken
<1>6. Typed' /\ Admissions'
  BY <1>1, <1>4, <1>5 DEF Typed, Admissions
<1>7. \A d \in Browsers : cookies'[d].challenge \in 0..issued
  BY <1>5 DEF TokensIssued, Typed
<1> QED
  BY <1>1, <1>4, <1>6, <1>7, ShrinkStep

\* Opening a session spends the challenge the sign-in holds.
LEMMA OpenStep ==
    ASSUME AccessInv, NEW a \in Attempts, NEW credential \in Credentials, OpenSession(a, credential)
    PROVE  AccessInv'
<1> USE DEF AccessInv
<1> DEFINE challenge == signIns[a].challenge
           expires == Earlier(credential.exp, second + SessionSeconds)
           token == Cardinality(opened) + 1
           row == [token |-> token, subject |-> credential.subject, expires |-> expires]
           new == [session |-> token, challenge |-> challenge, nonce |-> credential.nonce,
                   subject |-> credential.subject, at |-> second, exp |-> credential.exp]
           after == [pc |-> "replace", browser |-> signIns[a].browser, old |-> signIns[a].old,
                     new |-> token]
<1>1. /\ UNCHANGED <<second, challenges, cookies, admitted, issued>>
      /\ signIns[a].pc = "verify" /\ signIns[a] \in SignInRecords
      /\ Cardinality(Live(sessions)) < TableRows
      /\ sessions' = Live(sessions) \cup {row}
      /\ opened' = opened \cup {new}
      /\ signIns' = [signIns EXCEPT ![a] = after]
  BY DEF OpenSession, Typed
<1>2. credential.nonce = challenge /\ credential.exp \in Int /\ second \in Int
  BY DEF OpenSession, Verified, Credentials, Typed
<1>3. a \in Verifying /\ challenge \in 1..issued
  BY <1>1 DEF Verifying, TokensIssued
<1>4. token \in Nat
  BY FS_CardinalityType DEF Tables
<1>5. after \in SignInRecords /\ after.pc = "replace"
  <2>1. signIns[a].browser \in Browsers /\ signIns[a].old \in Nat
    BY <1>1 DEF SignInRecords, AtRest
  <2> QED
    BY <1>4, <2>1 DEF SignInRecords
<1>6. /\ new.challenge = challenge /\ new.nonce = credential.nonce /\ new.exp = credential.exp
      /\ new.at = second /\ new.session = token /\ new.subject = credential.subject
      /\ row.token = token /\ row.subject = credential.subject
      /\ row.expires = Earlier(new.exp, new.at + SessionSeconds)
  OBVIOUS
<1> HIDE DEF after, new, row, token, expires, challenge
<1>7. /\ signIns' \in [Attempts -> SignInRecords] /\ signIns'[a].pc # "verify"
      /\ \A x \in Attempts : x # a => signIns'[x] = signIns[x]
  BY <1>1, <1>5 DEF Typed
<1>8. Typed'
  BY <1>1, <1>7 DEF Typed
<1>9. Tables'
  <2>1. Live(sessions) \subseteq sessions
    BY DEF Live
  <2>2. IsFiniteSet(sessions') /\ Cardinality(sessions') <= TableRows
    BY <1>1, <2>1, OneMoreRow DEF Tables
  <2>3. IsFiniteSet(opened')
    BY <1>1, FS_AddElement DEF Tables
  <2> QED
    BY <1>1, <2>2, <2>3 DEF Tables
<1>10. Verifying' = Verifying \ {a} /\ \A x \in Verifying' : signIns'[x] = signIns[x]
  BY <1>7 DEF Verifying
<1>11. TokensIssued'
  BY <1>1, <1>3, <1>6, <1>10 DEF TokensIssued
<1>12. ChallengeOnce'
  <2>1. /\ \A c \in challenges : c.token # challenge
        /\ \A s \in opened : s.challenge # challenge
        /\ \A x \in Verifying : signIns[x].challenge = challenge => x = a
    BY <1>3 DEF ChallengeOnce, challenge
  <2> QED
    BY <1>1, <1>6, <1>10, <2>1 DEF ChallengeOnce
<1>13. SessionsOpened'
  <2>1. \A s \in opened' : s.nonce = s.challenge /\ s.exp \in Int /\ s.at \in Int
    BY <1>1, <1>2, <1>6 DEF SessionsOpened
  <2>2. \A x \in Live(sessions) : x \in sessions
    BY DEF Live
  <2>3. new \in opened' /\ opened \subseteq opened'
    BY <1>1
  <2>4. \A x \in sessions' : \E s \in opened' :
            /\ s.session = x.token /\ s.subject = x.subject
            /\ x.expires = Earlier(s.exp, s.at + SessionSeconds)
    <3> SUFFICES ASSUME NEW x \in sessions'
                 PROVE  \E s \in opened' :
                            /\ s.session = x.token /\ s.subject = x.subject
                            /\ x.expires = Earlier(s.exp, s.at + SessionSeconds)
      OBVIOUS
    <3>1. CASE x = row
      BY <1>6, <2>3, <3>1
    <3>2. CASE x \in sessions
      BY <2>3, <3>2 DEF SessionsOpened
    <3> QED
      BY <1>1, <2>2, <3>1, <3>2
  <2> QED
    BY <2>1, <2>4 DEF SessionsOpened
<1>14. Admissions'
  BY <1>1 DEF Admissions
<1> QED
  BY <1>8, <1>9, <1>11, <1>12, <1>13, <1>14

LEMMA AnswerStep ==
    ASSUME AccessInv, NEW a \in Attempts, AnswerSignIn(a)
    PROVE  AccessInv'
<1> USE DEF AccessInv
<1> DEFINE home == signIns[a].browser
           fresh == [challenge |-> NoToken, session |-> signIns[a].new]
<1>1. /\ UNCHANGED <<second, challenges, admitted, issued, opened>>
      /\ sessions' \subseteq sessions
      /\ signIns' = [signIns EXCEPT ![a] = AtRest]
      /\ cookies' = [cookies EXCEPT ![home] = fresh]
      /\ signIns[a].pc = "replace" /\ signIns[a] \in SignInRecords
  BY DEF AnswerSignIn, Typed
<1>2. home \in Browsers /\ fresh \in CookieRecords /\ fresh.challenge = 0
  BY <1>1 DEF SignInRecords, AtRest, CookieRecords, NoToken
<1>3. AtRest \in SignInRecords /\ AtRest.pc = "rest"
  BY DEF SignInRecords, AtRest
<1>4. /\ signIns' \in [Attempts -> SignInRecords]
      /\ \A x \in Attempts : signIns'[x].pc = "verify" => signIns'[x] = signIns[x]
  BY <1>1, <1>3 DEF Typed
<1> HIDE DEF home, fresh
<1>5. /\ cookies' \in [Browsers -> CookieRecords]
      /\ \A d \in Browsers : cookies'[d].challenge \in {cookies[d].challenge, 0}
  BY <1>1, <1>2 DEF Typed
<1>6. Typed' /\ Admissions'
  BY <1>1, <1>4, <1>5 DEF Typed, Admissions
<1>7. \A d \in Browsers : cookies'[d].challenge \in 0..issued
  BY <1>5 DEF TokensIssued, Typed
<1> QED
  BY <1>1, <1>4, <1>6, <1>7, ShrinkStep

\* The boundary lets a request pass only with a row that stands.
LEMMA AdmitStep ==
    ASSUME AccessInv, NEW b \in Browsers, Admit(b)
    PROVE  AccessInv'
<1> USE DEF AccessInv
<1> DEFINE token == cookies[b].session
           rows == {s \in sessions : s.token = token}
<1>1. UNCHANGED <<second, challenges, cookies, signIns, issued, opened>>
  BY DEF Admit
<1>2. PICK row \in rows :
        IF SessionStands(row)
        THEN /\ admitted' = [admitted EXCEPT ![b] =
                    [pc |-> "handler", subject |-> row.subject, token |-> token,
                     at |-> second, listed |-> row.subject \in allowed]]
             /\ UNCHANGED sessions
        ELSE /\ sessions' = sessions \ rows
             /\ UNCHANGED admitted
  BY DEF Admit
<1>3. \A d \in Browsers : cookies'[d].challenge \in 0..issued
  BY <1>1 DEF TokensIssued
<1>4. sessions' \subseteq sessions /\ DOMAIN admitted' = Browsers
  BY <1>2 DEF Typed
<1>5. Typed'
  BY <1>1, <1>4 DEF Typed
<1>6. Admissions'
  <2>1. CASE SessionStands(row)
    <3> DEFINE pass == [pc |-> "handler", subject |-> row.subject, token |-> token,
                        at |-> second, listed |-> row.subject \in allowed]
    <3>1. admitted' = [admitted EXCEPT ![b] = pass]
      BY <1>2, <2>1
    <3>2. PICK s \in opened : /\ s.session = row.token /\ s.subject = row.subject
                              /\ row.expires = Earlier(s.exp, s.at + SessionSeconds)
      BY <1>2 DEF SessionsOpened
    <3>3. row.expires > second /\ row.subject \in allowed /\ row.token = token
      BY <1>2, <2>1 DEF SessionStands
    <3>4. s.exp \in Int /\ s.at \in Int /\ second \in Int /\ SessionSeconds \in Int
      BY AccessAssumption DEF SessionsOpened, Typed
    <3>5. second < s.exp /\ second < s.at + SessionSeconds
      BY <3>2, <3>3, <3>4 DEF Earlier
    <3>6. /\ pass.listed /\ pass.token = token /\ pass.subject = row.subject /\ pass.at = second
      BY <3>3
    <3> HIDE DEF pass, token
    <3>7. admitted'[b] = pass /\ \A d \in Browsers : d # b => admitted'[d] = admitted[d]
      BY <3>1 DEF Typed
    <3> QED
      BY <1>1, <3>2, <3>3, <3>5, <3>6, <3>7 DEF Admissions
  <2>2. CASE ~SessionStands(row)
    BY <1>1, <1>2, <2>2 DEF Admissions
  <2> QED
    BY <2>1, <2>2
<1> QED
  BY <1>1, <1>3, <1>4, <1>5, <1>6, ShrinkStep

LEMMA SignOutStep ==
    ASSUME AccessInv, NEW b \in Browsers, SignOut(b)
    PROVE  AccessInv'
<1> USE DEF AccessInv
<1> DEFINE none == [challenge |-> NoToken, session |-> NoToken]
<1>1. /\ UNCHANGED <<second, signIns, admitted, issued, opened>>
      /\ sessions' \subseteq sessions /\ challenges' \subseteq challenges
      /\ cookies' = [cookies EXCEPT ![b] = none]
  BY DEF SignOut, Consume
<1>2. none \in CookieRecords /\ none.challenge = 0
  BY DEF CookieRecords, NoToken
<1> HIDE DEF none
<1>3. /\ cookies' \in [Browsers -> CookieRecords]
      /\ \A d \in Browsers : cookies'[d].challenge \in {cookies[d].challenge, 0}
  BY <1>1, <1>2 DEF Typed
<1>4. Typed' /\ Admissions'
  BY <1>1, <1>3 DEF Typed, Admissions
<1>5. \A d \in Browsers : cookies'[d].challenge \in 0..issued
  BY <1>3 DEF TokensIssued, Typed
<1> QED
  BY <1>1, <1>4, <1>5, ShrinkStep

--------------------------------------------------------------------------------
LEMMA AccessInitInv == AccessInit => AccessInv
<1> SUFFICES ASSUME AccessInit PROVE AccessInv
  OBVIOUS
<1>1. /\ challenges = {} /\ sessions = {} /\ opened = {} /\ second = 0 /\ issued = 0
      /\ \A a \in Attempts : signIns[a].pc = "rest"
      /\ \A b \in Browsers : admitted[b].pc = "rest" /\ cookies[b].challenge = 0
  BY DEF AccessInit, AtRest, NoToken
<1>2. Typed
  BY DEF AccessInit, Typed, SignInRecords, CookieRecords, NoToken
<1>3. IsFiniteSet({}) /\ Cardinality({}) = 0
  BY FS_EmptySet
<1>4. Tables
  BY <1>1, <1>3, AccessAssumption DEF Tables
<1> QED
  BY <1>1, <1>2, <1>4 DEF AccessInv, TokensIssued, ChallengeOnce, SessionsOpened, Admissions, Verifying

LEMMA AccessNextInv == AccessInv /\ [AccessNext]_accessVars => AccessInv'
<1> SUFFICES ASSUME AccessInv, [AccessNext]_accessVars PROVE AccessInv'
  OBVIOUS
<1>1. ASSUME NEW a \in Attempts,
             \/ \E b \in Browsers : BeginSignIn(a, b)
             \/ \E c \in Credentials : OpenSession(a, c)
             \/ SignInRefused(a) \/ AnswerSignIn(a)
      PROVE  AccessInv'
  BY <1>1, BeginStep, OpenStep, RefusedStep, AnswerStep
<1>2. ASSUME NEW b \in Browsers, IssueChallenge(b) \/ Admit(b) \/ SignOut(b)
      PROVE  AccessInv'
  BY <1>2, IssueStep, AdmitStep, SignOutStep
<1>3. CASE \/ Elapse \/ AccessRestart \/ (\E s \in Subjects : RemoveAddress(s))
           \/ (\E b \in Browsers : ServeRequest(b)) \/ UNCHANGED accessVars
  BY <1>3, QuietSteps
<1> QED
  BY <1>1, <1>2, <1>3 DEF AccessNext

\* A challenge token is in one place only, and every admitted request stems from
\* a session that was opened and stood, in every reachable state.
THEOREM AccessInvariant == AccessSpec => []AccessInv
BY AccessInitInv, AccessNextInv, PTL DEF AccessSpec

\* A challenge signs in at most once and only for its nonce, a request past the
\* boundary was entitled when the boundary looked, and the tables keep to their
\* capacity (AuthStore.consume, CEOAuth.login, CEOAuth.session).
THEOREM SignInOnce == AccessSpec => []SignInIsOnce
<1>1. AccessInv => SignInIsOnce
  BY DEF AccessInv, SignInIsOnce, Tables, ChallengeOnce, SessionsOpened, Admissions
<1> QED
  BY <1>1, AccessInvariant, PTL

--------------------------------------------------------------------------------
Statuses == {"none", "manifest_generated", "submitted", "completed", "failed",
             "cloud_artifacts_pending"}

ManifestRecords == [exists : BOOLEAN, status : Statuses, batch : Nat]

JobStatuses == {"queued", "running", "completed", "failed", "pending"}

JobRecords == [id : JobIds, backend : {"local", "nebius"}, status : JobStatuses]

\* Between two of its steps a request has made a job, or is collecting.
JobMade == {"localDone", "localFailed", "submitted", "submitFailed"}
Collecting == {"collect", "normalizing", "outputPending"}

ReqRecords ==
    [op : {"idle"} \cup Requests \cup JobMade \cup Collecting, snap : ManifestRecords,
     jobs : Seq(JobRecords), at : Nat, from : {"none", "local", "cloud"}, back : BOOLEAN]

\* Every record of a cloud job that says completed has its evidence.
Backed(js) ==
    \A i \in DOMAIN js :
        js[i].backend = "nebius" /\ js[i].status = "completed"
            => js[i].id \in confirmed \/ layout = Files

StoreInv ==
    /\ manifest \in ManifestRecords /\ jobs \in Seq(JobRecords)
    /\ localDir \subseteq Files /\ cloudDir \subseteq Files /\ layout \subseteq Files
    /\ cloud \in [JobIds -> {"none", "running", "completed", "failed"}]
    /\ sent \in [JobIds -> SUBSET Files]
    /\ created \in 0..MaxJobs
    /\ (~deleted => CompletedExperimentIsWhole /\ Backed(jobs))

\* What a request read earlier and will write back is no better than the store.
HandlerInv(h) ==
    /\ req[h] \in ReqRecords
    /\ (req[h].op \in JobMade => req[h].at \in JobIds)
    /\ (req[h].back => req[h].op \in Collecting /\ req[h].at < Len(req[h].jobs))
    /\ (~deleted =>
         /\ (req[h].snap.status = "completed" => layout = Files)
         /\ (req[h].op = "localDone" => localDir = Files)
         /\ Backed(req[h].jobs))

ExpInv == StoreInv /\ DOMAIN req = Handlers /\ \A h \in Handlers : HandlerInv(h)
--------------------------------------------------------------------------------
\* Until a deletion, evidence is never taken back.
EvidenceStays ==
    /\ (deleted => deleted') /\ confirmed \subseteq confirmed'
    /\ (~deleted' => /\ (layout = Files => layout' = Files)
                     /\ (localDir = Files => localDir' = Files))

LEMMA BackedStays ==
    ASSUME EvidenceStays, ~deleted', NEW js, Backed(js)
    PROVE  Backed(js)'
  BY DEF EvidenceStays, Backed

LEMMA HandlerStays ==
    ASSUME EvidenceStays, NEW h \in Handlers, HandlerInv(h), req'[h] = req[h]
    PROVE  HandlerInv(h)'
<1>1. PICK js : js = req[h].jobs
  OBVIOUS
<1>2. ~deleted' => Backed(js)'
  BY <1>1, BackedStays DEF HandlerInv, EvidenceStays
<1>3. ~deleted' => Backed(req[h].jobs)'
  BY <1>1, <1>2 DEF Backed
<1> QED
  BY <1>3 DEF HandlerInv, EvidenceStays

\* A step of one request: the others have what they had.
OthersSame(h) == DOMAIN req' = Handlers /\ \A g \in Handlers \ {h} : req'[g] = req[g]

LEMMA RequestStep ==
    ASSUME ExpInv, NEW h \in Handlers, EvidenceStays, OthersSame(h), StoreInv', HandlerInv(h)'
    PROVE  ExpInv'
<1>1. ASSUME NEW g \in Handlers PROVE HandlerInv(g)'
  <2>1. CASE g = h
    BY <2>1
  <2>2. CASE g # h
    BY <2>2, HandlerStays DEF ExpInv, OthersSame
  <2> QED BY <2>1, <2>2
<1> QED
  BY <1>1 DEF ExpInv, OthersSame

\* A step that is not a request's.
LEMMA OtherStep ==
    ASSUME ExpInv, EvidenceStays, req' = req, StoreInv'
    PROVE  ExpInv'
  BY HandlerStays DEF ExpInv

LEMMA IdleRequest ==
    /\ Idle \in ReqRecords /\ Idle.op = "idle" /\ ~Idle.back /\ Idle.snap.status = "none"
    /\ Idle.jobs = <<>>
<1>1. Idle.snap \in ManifestRecords
  BY DEF Idle, ManifestRecords, Statuses
<1>2. <<>> \in Seq(JobRecords)
  OBVIOUS
<1> QED
  BY <1>1, <1>2 DEF Idle, ReqRecords

\* A request that answers is idle again.
LEMMA FinishedRequest ==
    ASSUME ExpInv, NEW h \in Handlers, Finish(h)
    PROVE  OthersSame(h) /\ HandlerInv(h)'
<1>1. req' = [req EXCEPT ![h] = Idle]
  BY DEF Finish
<1>2. OthersSame(h) /\ req'[h] = Idle
  BY <1>1 DEF OthersSame, ExpInv
<1>3. Backed(req[h].jobs)'
  BY <1>2, IdleRequest DEF Backed
<1> QED
  BY <1>2, <1>3, IdleRequest DEF HandlerInv, JobMade

LEMMA SavedManifest ==
    ASSUME NEW m \in ManifestRecords, NEW s \in Statuses
    PROVE  /\ [[m EXCEPT !.status = s] EXCEPT !.exists = TRUE] \in ManifestRecords
           /\ [[m EXCEPT !.status = s] EXCEPT !.exists = TRUE].status = s
  BY DEF ManifestRecords
--------------------------------------------------------------------------------
LEMMA RespondExp ==
    ASSUME ExpInv, NEW h \in Handlers, NEW s \in Statuses, NEW written \in SUBSET Files,
           s = "completed" => req[h].snap.status = "completed",
           Respond(h, s, written)
    PROVE  ExpInv'
<1>1. req[h].snap \in ManifestRecords /\ layout \subseteq Files
  BY DEF ExpInv, HandlerInv, ReqRecords, StoreInv
<1>2. /\ manifest' = [[req[h].snap EXCEPT !.status = s] EXCEPT !.exists = TRUE]
      /\ layout' = layout \cup written /\ Finish(h)
      /\ UNCHANGED <<jobs, localDir, cloudDir, cloud, sent, confirmed, deleted, created>>
  BY DEF Respond, Save, platform
<1>3. manifest' \in ManifestRecords /\ manifest'.status = s
  BY <1>1, <1>2, SavedManifest
<1>4. EvidenceStays
  BY <1>1, <1>2 DEF EvidenceStays
<1>5. ~deleted' => CompletedExperimentIsWhole'
  BY <1>1, <1>2, <1>3 DEF ExpInv, HandlerInv, CompletedExperimentIsWhole
<1>6. ~deleted' => Backed(jobs)'
  <2>1. PICK js : js = jobs
    OBVIOUS
  <2>2. ~deleted' => Backed(js)'
    BY <1>2, <1>4, <2>1, BackedStays DEF ExpInv, StoreInv
  <2> QED BY <2>1, <2>2, <1>2
<1>7. StoreInv'
  BY <1>1, <1>2, <1>3, <1>5, <1>6 DEF ExpInv, StoreInv
<1> QED
  BY <1>2, <1>4, <1>7, FinishedRequest, RequestStep

LEMMA AnsweredExp ==
    ASSUME ExpInv, NEW h \in Handlers,
           GenerateManifest(h) \/ RenderConfig(h) \/ NormalizeArtifacts(h)
             \/ RunInvestigations(h) \/ Aggregate(h)
    PROVE  ExpInv'
<1>1. /\ req[h].snap.status \in Statuses /\ "manifest_generated" \in Statuses
      /\ localDir \in SUBSET Files /\ {} \in SUBSET Files /\ {Report} \in SUBSET Files
  BY ExperimentJobsAssumption
     DEF ExpInv, HandlerInv, StoreInv, ReqRecords, ManifestRecords, Statuses
<1>2. CASE GenerateManifest(h)
  BY <1>1, <1>2, RespondExp DEF GenerateManifest
<1>3. CASE RenderConfig(h) \/ RunInvestigations(h)
  BY <1>1, <1>3, RespondExp DEF RenderConfig, RunInvestigations
<1>4. CASE NormalizeArtifacts(h)
  BY <1>1, <1>4, RespondExp DEF NormalizeArtifacts
<1>5. CASE Aggregate(h)
  BY <1>1, <1>5, RespondExp DEF Aggregate
<1> QED
  BY <1>2, <1>3, <1>4, <1>5

\* A step that leaves the manifest, the records and the layout; files may come in.
LEMMA QuietStore ==
    ASSUME ExpInv,
           UNCHANGED <<manifest, jobs, layout, deleted>>,
           localDir \subseteq localDir', localDir' \subseteq Files, cloudDir' \subseteq Files,
           cloud' \in [JobIds -> {"none", "running", "completed", "failed"}],
           sent' \in [JobIds -> SUBSET Files],
           confirmed \subseteq confirmed', created' \in 0..MaxJobs
    PROVE  StoreInv' /\ EvidenceStays
<1>1. EvidenceStays
  BY DEF EvidenceStays
<1>2. ~deleted' => Backed(jobs)'
  <2>1. PICK js : js = jobs
    OBVIOUS
  <2>2. ~deleted' => Backed(js)'
    BY <1>1, <2>1, BackedStays DEF ExpInv, StoreInv
  <2> QED BY <2>1, <2>2
<1>3. StoreInv'
  BY <1>2 DEF ExpInv, StoreInv, CompletedExperimentIsWhole
<1> QED
  BY <1>1, <1>3

LEMMA RefuseExp == ASSUME ExpInv, NEW h \in Handlers, Refuse(h) PROVE ExpInv'
<1>1. /\ UNCHANGED <<manifest, jobs, localDir, cloudDir, layout, cloud, sent, deleted>>
      /\ confirmed' = confirmed /\ created' = created /\ Finish(h)
  BY DEF Refuse, store, platform
<1>2. StoreInv' /\ EvidenceStays
  BY <1>1, QuietStore DEF ExpInv, StoreInv
<1> QED
  BY <1>1, <1>2, FinishedRequest, RequestStep

LEMMA BeginExp ==
    ASSUME ExpInv, NEW h \in Handlers, NEW o \in Requests, Begin(h, o) PROVE ExpInv'
<1>1. /\ UNCHANGED <<manifest, jobs, localDir, cloudDir, layout, cloud, sent, deleted>>
      /\ confirmed' = confirmed /\ created' = created
  BY DEF Begin, store, platform
<1> DEFINE read == IF o = "refresh" THEN jobs ELSE <<>>
           r == [Idle EXCEPT !.op = o, !.snap = manifest, !.jobs = read]
<1>2. StoreInv' /\ EvidenceStays
  BY <1>1, QuietStore DEF ExpInv, StoreInv
<1>3. read \in Seq(JobRecords) /\ manifest \in ManifestRecords
  BY DEF ExpInv, StoreInv
<1>4. /\ r \in ReqRecords /\ r.op = o /\ ~r.back /\ r.snap = manifest /\ r.jobs = read
  <2> HIDE DEF read
  <2> QED BY <1>3, IdleRequest DEF ReqRecords
<1>5. req' = [req EXCEPT ![h] = r]
  BY DEF Begin
<1>6. o \notin JobMade /\ o # "localDone"
  BY DEF Requests, JobMade
<1>7. ~deleted => Backed(read) /\ (manifest.status = "completed" => layout = Files)
  BY DEF ExpInv, StoreInv, Backed, CompletedExperimentIsWhole
<1> HIDE DEF r, read
<1>8. OthersSame(h) /\ req'[h] = r
  BY <1>5 DEF OthersSame, ExpInv
<1>9. ~deleted' => Backed(req[h].jobs)'
  BY <1>1, <1>4, <1>7, <1>8 DEF Backed
<1>10. HandlerInv(h)'
  BY <1>1, <1>4, <1>6, <1>7, <1>8, <1>9 DEF HandlerInv
<1> QED
  BY <1>2, <1>8, <1>10, RequestStep

\* The request moves to another stage and keeps what it has read.
Staged(h, o, at) ==
    /\ OthersSame(h)
    /\ req'[h] \in ReqRecords /\ req'[h].op = o /\ req'[h].at = at
    /\ req'[h].snap = req[h].snap /\ req'[h].jobs = req[h].jobs /\ req'[h].back = req[h].back

LEMMA StageMoves ==
    ASSUME ExpInv, EvidenceStays, NEW h \in Handlers, NEW o, NEW at, Staged(h, o, at),
           o \in JobMade => at \in JobIds /\ ~req[h].back,
           ~req[h].back \/ (o \in Collecting /\ at = req[h].at),
           ~deleted' /\ o = "localDone" => localDir' = Files
    PROVE  OthersSame(h) /\ HandlerInv(h)'
<1>1. PICK js : js = req[h].jobs
  OBVIOUS
<1>2. ~deleted' => Backed(js)'
  BY <1>1, BackedStays DEF ExpInv, HandlerInv, EvidenceStays
<1>3. ~deleted' => Backed(req[h].jobs)'
  BY <1>1, <1>2 DEF Backed, Staged
<1>4. req'[h].back => o \in Collecting /\ at < Len(req'[h].jobs)
  BY DEF ExpInv, HandlerInv, Staged
<1>5. ~deleted' => /\ (req'[h].snap.status = "completed" => layout' = Files)
                   /\ (req'[h].op = "localDone" => localDir' = Files)
  BY DEF ExpInv, HandlerInv, EvidenceStays, Staged
<1> QED
  BY <1>3, <1>4, <1>5 DEF HandlerInv, Staged

LEMMA CreatedNext == ASSUME ExpInv, created < MaxJobs PROVE created + 1 \in JobIds /\ created + 1 \in 0..MaxJobs
  BY ExperimentJobsAssumption DEF ExpInv, StoreInv, JobIds

LEMMA RequestTyped ==
    ASSUME ExpInv, NEW h \in Handlers
    PROVE  /\ req[h] \in ReqRecords /\ req[h].snap \in ManifestRecords
           /\ req[h].jobs \in Seq(JobRecords)
           /\ req[h].at \in Nat /\ req[h].from \in {"none", "local", "cloud"}
           /\ (req[h].op \notin Collecting => ~req[h].back)
  BY DEF ExpInv, HandlerInv, ReqRecords

LEMMA LocalBatchExp == ASSUME ExpInv, NEW h \in Handlers, RunLocalBatch(h) PROVE ExpInv'
<1>1. /\ req[h].op = "local" /\ created' = created + 1 /\ created < MaxJobs
      /\ UNCHANGED <<manifest, jobs, cloudDir, layout, cloud, sent, confirmed, deleted>>
  BY DEF RunLocalBatch, platform
<1>2. created' \in JobIds /\ created' \in 0..MaxJobs /\ created' \in Nat
  BY <1>1, CreatedNext DEF JobIds
<1>3. localDir \subseteq localDir' /\ localDir' \subseteq Files
  BY DEF RunLocalBatch, ExpInv, StoreInv
<1>4. StoreInv' /\ EvidenceStays
  BY <1>1, <1>2, <1>3, QuietStore DEF ExpInv, StoreInv
<1>5. ~req[h].back /\ req[h].from \in {"none", "local", "cloud"}
  BY <1>1, RequestTyped DEF Collecting
<1>6. "localDone" \in JobMade /\ "localFailed" \in JobMade /\ "localDone" \notin Collecting
      /\ "localFailed" \notin Collecting /\ "localFailed" # "localDone"
  BY DEF JobMade, Collecting
<1>7. CASE localDir' = Files /\ req' = [req EXCEPT ![h].op = "localDone", ![h].at = created']
  <2>0. PICK at : at = created'
    OBVIOUS
  <2>1. Staged(h, "localDone", at)
    BY <2>0, <1>2, <1>7, RequestTyped DEF Staged, OthersSame, ExpInv, ReqRecords, JobMade
  <2>2. OthersSame(h) /\ HandlerInv(h)'
    <3>1. at \in JobIds /\ ~req[h].back
      BY <2>0, <1>2, <1>5
    <3>2. ~deleted' /\ "localDone" = "localDone" => localDir' = Files
      BY <1>7
    <3> QED BY <2>1, <3>1, <3>2, <1>4, <1>6, StageMoves
  <2> QED BY <1>4, <2>2, RequestStep
<1>8. CASE req' = [req EXCEPT ![h].op = "localFailed", ![h].at = created']
  <2>0. PICK at : at = created'
    OBVIOUS
  <2>1. Staged(h, "localFailed", at)
    BY <2>0, <1>2, <1>8, RequestTyped DEF Staged, OthersSame, ExpInv, ReqRecords, JobMade
  <2>2. OthersSame(h) /\ HandlerInv(h)'
    <3>1. at \in JobIds /\ ~req[h].back
      BY <2>0, <1>2, <1>5
    <3>2. ~deleted' /\ "localFailed" = "localDone" => localDir' = Files
      BY <1>6
    <3> QED BY <2>1, <3>1, <3>2, <1>4, <1>6, StageMoves
  <2> QED BY <1>4, <2>2, RequestStep
<1>9. CASE Finish(h)
  BY <1>4, <1>9, FinishedRequest, RequestStep
<1> QED
  BY <1>7, <1>8, <1>9 DEF RunLocalBatch

\* A record appended to the job file that claims nothing keeps the file backed.
LEMMA RecordAppended ==
    ASSUME ExpInv, NEW rec \in JobRecords,
           rec.backend = "local" \/ rec.status # "completed",
           jobs' = Append(jobs, rec), EvidenceStays
    PROVE  jobs' \in Seq(JobRecords) /\ (~deleted' => Backed(jobs)')
<1>1. jobs \in Seq(JobRecords)
  BY DEF ExpInv, StoreInv
<1>2. jobs' \in Seq(JobRecords) /\ DOMAIN jobs' = 1..Len(jobs) + 1 /\ DOMAIN jobs = 1..Len(jobs)
      /\ Len(jobs) \in Nat
      /\ jobs'[Len(jobs) + 1] = rec /\ \A i \in 1..Len(jobs) : jobs'[i] = jobs[i]
  BY <1>1, AppendProperties
<1>3. ASSUME ~deleted' PROVE Backed(jobs)'
  <2>1. PICK js : js = jobs
    OBVIOUS
  <2>2. Backed(js)'
    BY <1>3, <2>1, BackedStays DEF ExpInv, StoreInv, EvidenceStays
  <2>3. \A i \in 1..Len(jobs) : jobs'[i].backend = "nebius" /\ jobs'[i].status = "completed"
            => jobs'[i].id \in confirmed' \/ layout' = Files
    BY <1>2, <2>1, <2>2 DEF Backed
  <2>4. \A i \in DOMAIN jobs' : i \in 1..Len(jobs) \/ i = Len(jobs) + 1
    BY <1>2
  <2> QED BY <1>2, <2>3, <2>4 DEF Backed
<1> QED
  BY <1>2, <1>3

LEMMA SaveLocalExp == ASSUME ExpInv, NEW h \in Handlers, SaveLocalBatch(h) PROVE ExpInv'
<1> DEFINE outcome == IF req[h].op = "localDone" THEN "completed" ELSE "failed"
           rec == [id |-> req[h].at, backend |-> "local", status |-> outcome]
<1>1. /\ layout' = (IF outcome = "completed" THEN layout \cup localDir ELSE layout)
      /\ jobs' = Append(jobs, rec)
      /\ manifest' = [[req[h].snap EXCEPT !.status = outcome, !.batch = req[h].at]
                        EXCEPT !.exists = TRUE]
      /\ Finish(h) /\ req[h].op \in JobMade
      /\ UNCHANGED <<localDir, cloudDir, cloud, sent, confirmed, deleted, created>>
  BY DEF SaveLocalBatch, platform, Save, JobMade
<1>2. req[h].at \in JobIds /\ req[h].at \in Nat
  BY <1>1, RequestTyped DEF ExpInv, HandlerInv
<1>3. outcome \in {"completed", "failed"} /\ outcome \in Statuses
  BY DEF Statuses
<1>4. rec \in JobRecords /\ rec.backend = "local"
  <2> HIDE DEF outcome
  <2> QED BY <1>2, <1>3 DEF JobRecords, JobStatuses
<1>5. manifest' \in ManifestRecords /\ manifest'.status = outcome
  <2> HIDE DEF outcome, rec
  <2>1. req[h].snap \in ManifestRecords
    BY RequestTyped
  <2>2. PICK m \in ManifestRecords, s \in Statuses, b \in Nat :
          m = req[h].snap /\ s = outcome /\ b = req[h].at
    BY <2>1, <1>2, <1>3
  <2>3. PICK n : n = manifest'
    OBVIOUS
  <2>4. n = [[m EXCEPT !.status = s, !.batch = b] EXCEPT !.exists = TRUE]
    BY <1>1, <2>2, <2>3
  <2>5. n \in ManifestRecords /\ n.status = s
    BY <2>4 DEF ManifestRecords
  <2> QED BY <2>2, <2>3, <2>5
<1>6. layout \subseteq layout' /\ layout' \subseteq Files /\ layout \subseteq Files
  BY <1>1 DEF ExpInv, StoreInv
<1>7. EvidenceStays
  BY <1>1, <1>6 DEF EvidenceStays
<1>8. ~deleted /\ outcome = "completed" => layout' = Files
  <2>1. ~deleted /\ outcome = "completed" => localDir = Files
    BY DEF ExpInv, HandlerInv
  <2> HIDE DEF outcome
  <2> QED BY <1>1, <1>6, <2>1
<1> HIDE DEF rec, outcome
<1>9. jobs' \in Seq(JobRecords) /\ (~deleted' => Backed(jobs)')
  BY <1>1, <1>4, <1>7, RecordAppended
<1>10. ~deleted' => CompletedExperimentIsWhole'
  BY <1>1, <1>5, <1>8 DEF CompletedExperimentIsWhole
<1>11. StoreInv'
  BY <1>1, <1>5, <1>6, <1>9, <1>10 DEF ExpInv, StoreInv
<1> QED
  BY <1>1, <1>7, <1>11, FinishedRequest, RequestStep

LEMMA SubmitExp == ASSUME ExpInv, NEW h \in Handlers, SubmitJob(h) PROVE ExpInv'
<1>1. /\ req[h].op = "submit" /\ created' = created + 1 /\ created < MaxJobs
      /\ UNCHANGED <<manifest, localDir, cloudDir, layout, sent, confirmed, deleted>>
  BY DEF SubmitJob
<1>2. created' \in JobIds /\ created' \in 0..MaxJobs /\ created' \in Nat
  BY <1>1, CreatedNext DEF JobIds
<1>3. PICK s \in {"queued", "failed", "pending"}, o \in {"submitted", "submitFailed"} :
        /\ jobs' = Append(jobs, [id |-> created', backend |-> "nebius", status |-> s])
        /\ cloud' \in {cloud, [cloud EXCEPT ![created'] = "running"]}
        /\ req' = [req EXCEPT ![h].op = o, ![h].at = created']
  BY DEF SubmitJob
<1>4. EvidenceStays
  BY <1>1 DEF EvidenceStays
<1> DEFINE rec == [id |-> created', backend |-> "nebius", status |-> s]
<1>5. rec \in JobRecords /\ rec.status # "completed"
  BY <1>2 DEF JobRecords, JobStatuses
<1>6. jobs' = Append(jobs, rec)
  BY <1>3
<1> HIDE DEF rec
<1>7. jobs' \in Seq(JobRecords) /\ (~deleted' => Backed(jobs)')
  BY <1>4, <1>5, <1>6, RecordAppended
<1>8. cloud' \in [JobIds -> {"none", "running", "completed", "failed"}]
  BY <1>2, <1>3 DEF ExpInv, StoreInv
<1>9. StoreInv'
  BY <1>1, <1>2, <1>7, <1>8 DEF ExpInv, StoreInv, CompletedExperimentIsWhole
<1>10. /\ o \in JobMade /\ o \notin Collecting /\ o # "localDone"
       /\ ~req[h].back /\ req[h].from \in {"none", "local", "cloud"}
  BY <1>1, RequestTyped DEF JobMade, Collecting
<1>11. PICK at : at = created'
  OBVIOUS
<1>12. Staged(h, o, at)
  BY <1>11, <1>2, <1>3, RequestTyped DEF Staged, OthersSame, ExpInv, ReqRecords, JobMade
<1>13. OthersSame(h) /\ HandlerInv(h)'
  <2>1. o \in JobMade => at \in JobIds /\ ~req[h].back
    BY <1>2, <1>10, <1>11
  <2>2. ~req[h].back
    BY <1>10
  <2>3. ~deleted' /\ o = "localDone" => localDir' = Files
    BY <1>10
  <2> QED BY <1>4, <1>12, <2>1, <2>2, <2>3, StageMoves
<1> QED
  BY <1>4, <1>9, <1>13, RequestStep

LEMMA SaveSubmissionExp == ASSUME ExpInv, NEW h \in Handlers, SaveSubmission(h) PROVE ExpInv'
<1> DEFINE outcome == IF req[h].op = "submitFailed" THEN "failed" ELSE "submitted"
<1>1. /\ manifest' = [[req[h].snap EXCEPT !.batch = req[h].at, !.status = outcome]
                        EXCEPT !.exists = TRUE]
      /\ Finish(h) /\ req[h].op \in JobMade
      /\ UNCHANGED <<jobs, localDir, cloudDir, layout, cloud, sent, confirmed, deleted, created>>
  BY DEF SaveSubmission, platform, Save, JobMade
<1>2. req[h].at \in JobIds /\ req[h].at \in Nat /\ req[h].snap \in ManifestRecords
  BY <1>1, RequestTyped DEF ExpInv, HandlerInv
<1>3. outcome \in Statuses /\ outcome # "completed"
  BY DEF Statuses
<1> HIDE DEF outcome
<1>4. manifest' \in ManifestRecords /\ manifest'.status = outcome
  <2>1. PICK m \in ManifestRecords, s \in Statuses, b \in Nat :
          m = req[h].snap /\ s = outcome /\ b = req[h].at
    BY <1>2, <1>3
  <2>2. PICK n : n = manifest'
    OBVIOUS
  <2>3. n = [[m EXCEPT !.batch = b, !.status = s] EXCEPT !.exists = TRUE]
    BY <1>1, <2>1, <2>2
  <2>4. n \in ManifestRecords /\ n.status = s
    BY <2>3 DEF ManifestRecords
  <2> QED BY <2>1, <2>2, <2>4
<1>5. EvidenceStays
  BY <1>1 DEF EvidenceStays
<1>6. ~deleted' => Backed(jobs)'
  BY <1>1 DEF ExpInv, StoreInv, Backed
<1>7. StoreInv'
  BY <1>1, <1>3, <1>4, <1>6 DEF ExpInv, StoreInv, CompletedExperimentIsWhole
<1> QED
  BY <1>1, <1>5, <1>7, FinishedRequest, RequestStep

LEMMA BucketFiles == ASSUME ExpInv PROVE Bucket \subseteq Files
  BY DEF ExpInv, StoreInv, Bucket

LEMMA LocateExp == ASSUME ExpInv, NEW h \in Handlers, LocateOutput(h) PROVE ExpInv'
<1>1. /\ req[h].op = "collect"
      /\ UNCHANGED <<manifest, jobs, localDir, layout, cloud, sent, confirmed, deleted, created>>
  BY DEF LocateOutput, platform
<1>2. cloudDir' \subseteq Files
  <2>1. SyncOutput(h) => cloudDir' \subseteq cloudDir \cup Bucket
    BY DEF SyncOutput
  <2>2. cloudDir \subseteq Files
    BY DEF ExpInv, StoreInv
  <2> QED BY <2>1, <2>2, BucketFiles DEF LocateOutput
<1>3. StoreInv' /\ EvidenceStays
  BY <1>1, <1>2, QuietStore DEF ExpInv, StoreInv
<1>4. PICK o \in {"normalizing", "outputPending"} : Staged(h, o, req[h].at)
  <2>1. CASE req' = [req EXCEPT ![h].op = "normalizing", ![h].from = MountedOutput]
    <3>1. MountedOutput \in {"none", "local", "cloud"}
      BY DEF MountedOutput
    <3>2. Staged(h, "normalizing", req[h].at)
      BY <2>1, <3>1, RequestTyped DEF Staged, OthersSame, ExpInv, ReqRecords, Collecting
    <3> QED BY <3>2
  <2>2. CASE req' = [req EXCEPT ![h].op = "outputPending"]
    <3>1. Staged(h, "outputPending", req[h].at)
      BY <2>2, RequestTyped DEF Staged, OthersSame, ExpInv, ReqRecords, Collecting
    <3> QED BY <3>1
  <2>3. CASE req' = [req EXCEPT ![h].from = "cloud",
                   ![h].op = IF settings.artifacts /\ cloudDir' = {} THEN "outputPending"
                                                                    ELSE "normalizing"]
    <3>1. PICK o \in {"normalizing", "outputPending"} :
            o = IF settings.artifacts /\ cloudDir' = {} THEN "outputPending" ELSE "normalizing"
      OBVIOUS
    <3>2. req' = [req EXCEPT ![h].from = "cloud", ![h].op = o]
      BY <2>3, <3>1
    <3>3. Staged(h, o, req[h].at)
      BY <3>2, RequestTyped DEF Staged, OthersSame, ExpInv, ReqRecords, Collecting
    <3> QED BY <3>3
  <2> QED BY <2>1, <2>2, <2>3 DEF LocateOutput, SyncOutput
<1>5. o \in Collecting /\ o \notin JobMade /\ o # "localDone"
  BY DEF Collecting, JobMade
<1>6. OthersSame(h) /\ HandlerInv(h)'
  BY <1>3, <1>4, <1>5, StageMoves
<1> QED
  BY <1>3, <1>6, RequestStep

LEMMA StatusWritten ==
    ASSUME NEW js \in Seq(JobRecords), NEW i \in 1..Len(js), NEW s \in JobStatuses
    PROVE  LET new == [js EXCEPT ![i].status = s] IN
           /\ new \in Seq(JobRecords) /\ Len(new) = Len(js)
           /\ new[i].status = s /\ new[i].id = js[i].id /\ new[i].backend = js[i].backend
           /\ \A k \in 1..Len(js) \ {i} : new[k] = js[k]
<1> DEFINE rec == [js[i] EXCEPT !.status = s]
           new == [js EXCEPT ![i].status = s]
<1>1. js[i] \in JobRecords
  BY ElementOfSeq
<1>2. rec \in JobRecords /\ rec.status = s /\ rec.id = js[i].id /\ rec.backend = js[i].backend
  BY <1>1 DEF JobRecords
<1>3. new = [js EXCEPT ![i] = rec]
  OBVIOUS
<1> HIDE DEF rec, new
<1>4. /\ new \in Seq(JobRecords) /\ Len(new) = Len(js) /\ new[i] = rec
      /\ \A k \in 1..Len(js) \ {i} : new[k] = js[k]
  BY <1>2, <1>3, ExceptSeq
<1>5. /\ new \in Seq(JobRecords) /\ Len(new) = Len(js)
      /\ new[i].status = s /\ new[i].id = js[i].id /\ new[i].backend = js[i].backend
      /\ \A k \in 1..Len(js) \ {i} : new[k] = js[k]
  BY <1>2, <1>4
<1> QED
  BY <1>5 DEF new

\* A collection that refresh asked for gives the request back to it.
LEMMA AnswerExp ==
    ASSUME ExpInv, EvidenceStays, NEW h \in Handlers, NEW collected \in BOOLEAN,
           req[h].op \in Collecting, Answer(h, collected), collected => layout' = Files
    PROVE  OthersSame(h) /\ HandlerInv(h)'
<1>1. CASE ~req[h].back
  BY <1>1, FinishedRequest DEF Answer
<1>2. CASE req[h].back
  <2> DEFINE js == req[h].jobs
             i == req[h].at + 1
             s == IF collected THEN "completed" ELSE "running"
             new == [js EXCEPT ![i].status = s]
             r == [Idle EXCEPT !.op = "refresh", !.at = i, !.jobs = new]
  <2>1. js \in Seq(JobRecords) /\ i \in 1..Len(js) /\ i \in Nat /\ Len(js) \in Nat
    <3>1. js \in Seq(JobRecords) /\ req[h].at \in Nat /\ req[h].at < Len(js)
      BY <1>2, RequestTyped DEF ExpInv, HandlerInv
    <3> HIDE DEF js
    <3>2. Len(js) \in Nat
      BY <3>1, LenProperties
    <3> QED BY <3>1, <3>2
  <2>2. s \in JobStatuses
    BY DEF JobStatuses
  <2>3. req' = [req EXCEPT ![h] = r]
    BY <1>2 DEF Answer
  <2> HIDE DEF js, i
  <2>4. /\ new \in Seq(JobRecords) /\ Len(new) = Len(js)
        /\ new[i].status = s /\ new[i].id = js[i].id /\ new[i].backend = js[i].backend
        /\ \A k \in 1..Len(js) \ {i} : new[k] = js[k]
    <3> HIDE DEF s
    <3> QED BY <2>1, <2>2, StatusWritten
  <2> HIDE DEF new
  <2>5. /\ r \in ReqRecords /\ r.op = "refresh" /\ ~r.back /\ r.jobs = new
        /\ r.snap.status = "none"
    BY <2>1, <2>4, IdleRequest DEF ReqRecords, Requests
  <2> HIDE DEF r
  <2>6. OthersSame(h) /\ req'[h] = r
    BY <2>3 DEF OthersSame, ExpInv
  <2>7. ASSUME ~deleted', NEW k \in DOMAIN new,
               new[k].backend = "nebius", new[k].status = "completed"
        PROVE  new[k].id \in confirmed' \/ layout' = Files
    <3>1. PICK old : old = js
      OBVIOUS
    <3>2. Backed(old)'
      BY <2>7, <3>1, BackedStays DEF ExpInv, HandlerInv, EvidenceStays, js
    <3>3. DOMAIN new = 1..Len(js) /\ DOMAIN js = 1..Len(js)
      BY <2>1, <2>4, LenProperties
    <3>4. CASE k = i
      BY <2>4, <2>7, <3>4 DEF s
    <3>5. CASE k # i
      BY <2>4, <2>7, <3>1, <3>2, <3>3, <3>5 DEF Backed
    <3> QED BY <3>4, <3>5
  <2>8. ~deleted' => Backed(req[h].jobs)'
    BY <2>5, <2>6, <2>7 DEF Backed
  <2> QED
    BY <2>5, <2>6, <2>8 DEF HandlerInv, JobMade
<1> QED
  BY <1>1, <1>2

LEMMA LatestMarked == ASSUME NEW js \in Seq(JobRecords) PROVE MarkLatest(js) \in Seq(JobRecords)
<1> DEFINE open == {i \in DOMAIN js : js[i].backend = "nebius"
                                        /\ js[i].status \in {"queued", "running"}}
           i == CHOOSE i \in open : \A k \in open : k <= i
<1>1. CASE MarkLatest(js) = js
  BY <1>1
<1>2. CASE MarkLatest(js) = [js EXCEPT ![i].status = "completed"]
  <2>1. PICK n : n = i
    OBVIOUS
  <2> HIDE DEF i
  <2>2. CASE n \in 1..Len(js)
    <3>1. "completed" \in JobStatuses
      BY DEF JobStatuses
    <3>2. [js EXCEPT ![n].status = "completed"] \in Seq(JobRecords)
      BY <2>2, <3>1, StatusWritten
    <3> QED BY <1>2, <2>1, <3>2
  <2>3. CASE n \notin 1..Len(js)
    <3>1. DOMAIN js = 1..Len(js)
      BY LenProperties
    <3>2. js = [k \in DOMAIN js |-> js[k]]
      OBVIOUS
    <3>3. [js EXCEPT ![n].status = "completed"] = js
      BY <2>3, <3>1, <3>2
    <3> QED BY <1>2, <2>1, <3>3
  <2> QED BY <2>2, <2>3
<1> QED
  BY <1>1, <1>2 DEF MarkLatest

LEMMA NormalizeExp == ASSUME ExpInv, NEW h \in Handlers, NormalizeOutput(h) PROVE ExpInv'
<1> DEFINE source == IF req[h].from = "local" THEN localDir ELSE cloudDir
           outcome == IF source = Files THEN "completed" ELSE "cloud_artifacts_pending"
<1>1. /\ req[h].op = "normalizing" /\ layout' = layout \cup source
      /\ manifest' = [[req[h].snap EXCEPT !.status = outcome] EXCEPT !.exists = TRUE]
      /\ jobs' = (IF source = Files THEN MarkLatest(jobs) ELSE jobs)
      /\ Answer(h, source = Files)
      /\ UNCHANGED <<localDir, cloudDir, cloud, sent, confirmed, deleted, created>>
  BY DEF NormalizeOutput, IsCollected, Save, platform
<1>2. source \subseteq Files /\ layout \subseteq Files
  BY DEF ExpInv, StoreInv
<1>3. manifest' \in ManifestRecords /\ manifest'.status = outcome
  <2>1. req[h].snap \in ManifestRecords /\ outcome \in Statuses
    BY RequestTyped DEF Statuses
  <2> HIDE DEF outcome
  <2> QED BY <1>1, <2>1, SavedManifest
<1>4. source = Files => layout' = Files
  BY <1>1, <1>2
<1>5. outcome = "completed" => source = Files
  OBVIOUS
<1> HIDE DEF source, outcome
<1>6. EvidenceStays
  BY <1>1, <1>2 DEF EvidenceStays
<1>7. jobs' \in Seq(JobRecords)
  BY <1>1, LatestMarked DEF ExpInv, StoreInv
<1>8. ~deleted' => Backed(jobs)'
  <2>1. CASE source = Files
    BY <1>4, <2>1 DEF Backed
  <2>2. CASE source # Files
    <3>1. PICK js : js = jobs
      OBVIOUS
    <3>2. ~deleted' => Backed(js)'
      BY <1>6, <3>1, BackedStays DEF ExpInv, StoreInv, EvidenceStays
    <3> QED BY <1>1, <2>2, <3>1, <3>2 DEF Backed
  <2> QED BY <2>1, <2>2
<1>9. StoreInv'
  BY <1>1, <1>2, <1>3, <1>4, <1>5, <1>7, <1>8 DEF ExpInv, StoreInv, CompletedExperimentIsWhole
<1>10. OthersSame(h) /\ HandlerInv(h)'
  <2>1. PICK b \in BOOLEAN : b = (source = Files)
    OBVIOUS
  <2>2. Answer(h, b)
    BY <1>1, <2>1
  <2>3. req[h].op \in Collecting
    BY <1>1 DEF Collecting
  <2> QED BY <1>4, <1>6, <2>1, <2>2, <2>3, AnswerExp
<1> QED
  BY <1>6, <1>9, <1>10, RequestStep

LEMMA PendingExp == ASSUME ExpInv, NEW h \in Handlers, MarkPending(h) PROVE ExpInv'
<1>1. /\ req[h].op = "outputPending" /\ Answer(h, FALSE)
      /\ manifest' = [[req[h].snap EXCEPT !.status = "cloud_artifacts_pending"]
                        EXCEPT !.exists = TRUE]
      /\ UNCHANGED <<jobs, localDir, cloudDir, layout, cloud, sent, confirmed, deleted, created>>
  BY DEF MarkPending, Save, platform
<1>2. manifest' \in ManifestRecords /\ manifest'.status = "cloud_artifacts_pending"
  <2>1. req[h].snap \in ManifestRecords /\ "cloud_artifacts_pending" \in Statuses
    BY RequestTyped DEF Statuses
  <2> QED BY <1>1, <2>1, SavedManifest
<1>3. EvidenceStays
  BY <1>1 DEF EvidenceStays
<1>4. ~deleted' => Backed(jobs)'
  BY <1>1 DEF ExpInv, StoreInv, Backed
<1>5. StoreInv'
  BY <1>1, <1>2, <1>4 DEF ExpInv, StoreInv, CompletedExperimentIsWhole
<1>6. OthersSame(h) /\ HandlerInv(h)'
  <2>1. req[h].op \in Collecting
    BY <1>1 DEF Collecting
  <2> QED BY <1>1, <1>3, <2>1, AnswerExp
<1> QED
  BY <1>3, <1>5, <1>6, RequestStep

\* refresh writes back what it read, which the store still bears out.
LEMMA WriteExp == ASSUME ExpInv, NEW h \in Handlers, WriteJobs(h) PROVE ExpInv'
<1>1. /\ jobs' = req[h].jobs /\ Finish(h)
      /\ UNCHANGED <<manifest, localDir, cloudDir, layout, cloud, sent, confirmed, deleted, created>>
  BY DEF WriteJobs, platform
<1>2. EvidenceStays
  BY <1>1 DEF EvidenceStays
<1>3. jobs' \in Seq(JobRecords)
  BY <1>1, RequestTyped
<1>4. ~deleted' => Backed(jobs)'
  BY <1>1 DEF ExpInv, HandlerInv, Backed
<1>5. StoreInv'
  BY <1>1, <1>3, <1>4 DEF ExpInv, StoreInv, CompletedExperimentIsWhole
<1> QED
  BY <1>1, <1>2, <1>5, FinishedRequest, RequestStep

LEMMA DeleteExp == ASSUME ExpInv, Delete PROVE ExpInv'
<1>1. /\ manifest' = [manifest EXCEPT !.exists = FALSE] /\ deleted'
      /\ jobs' = <<>> /\ localDir' = {} /\ cloudDir' = {} /\ layout' = {}
      /\ UNCHANGED <<cloud, sent, confirmed, req, created>>
  BY DEF Delete, platform
<1>2. manifest' \in ManifestRecords
  BY <1>1 DEF ExpInv, StoreInv, ManifestRecords
<1>3. jobs' \in Seq(JobRecords)
  BY <1>1
<1>4. StoreInv' /\ EvidenceStays
  BY <1>1, <1>2, <1>3 DEF ExpInv, StoreInv, EvidenceStays
<1> QED
  BY <1>1, <1>4, OtherStep

LEMMA CloudWriteExp == ASSUME ExpInv, NEW j \in JobIds, CloudWrite(j) PROVE ExpInv'
<1>1. PICK f \in Files \ sent[j] :
        /\ sent' = [sent EXCEPT ![j] = @ \cup {f}]
        /\ localDir' = IF settings.mounted /\ manifest.exists THEN localDir \cup {f} ELSE localDir
        /\ UNCHANGED <<manifest, jobs, cloudDir, layout, cloud, confirmed, deleted, req, created>>
  BY DEF CloudWrite
<1>2. sent' \in [JobIds -> SUBSET Files]
  BY <1>1 DEF ExpInv, StoreInv
<1>3. StoreInv' /\ EvidenceStays
  BY <1>1, <1>2, QuietStore DEF ExpInv, StoreInv
<1> QED
  BY <1>1, <1>3, OtherStep

LEMMA CloudEndExp == ASSUME ExpInv, NEW j \in JobIds, CloudEnd(j) PROVE ExpInv'
<1>1. /\ UNCHANGED <<manifest, jobs, localDir, cloudDir, layout, sent, confirmed, deleted, req, created>>
      /\ cloud' \in [JobIds -> {"none", "running", "completed", "failed"}]
  BY DEF CloudEnd, store, ExpInv, StoreInv
<1>2. StoreInv' /\ EvidenceStays
  BY <1>1, QuietStore DEF ExpInv, StoreInv
<1> QED
  BY <1>1, <1>2, OtherStep

\* What refresh records of one job is no more than the platform said of it.
LEMMA StatusRead ==
    ASSUME ExpInv, EvidenceStays, NEW h \in Handlers, NEW s \in JobStatuses,
           req[h].op = "refresh", req[h].at < Len(req[h].jobs), SetStatus(h, s),
           s = "completed" => req[h].jobs[req[h].at + 1].id \in confirmed'
    PROVE  OthersSame(h) /\ HandlerInv(h)'
<1> DEFINE js == req[h].jobs
           i == req[h].at + 1
           new == [js EXCEPT ![i].status = s]
           r == [[req[h] EXCEPT !.jobs = new] EXCEPT !.at = i]
<1>0. req[h] \in ReqRecords /\ DOMAIN req = Handlers
  BY DEF ExpInv, HandlerInv
<1>1. js \in Seq(JobRecords) /\ i \in 1..Len(js) /\ i \in Nat /\ Len(js) \in Nat
  <2>1. js \in Seq(JobRecords) /\ req[h].at \in Nat /\ req[h].at < Len(js)
    BY RequestTyped
  <2> HIDE DEF js
  <2>2. Len(js) \in Nat
    BY <2>1, LenProperties
  <2> QED BY <2>1, <2>2
<1>2. req' = [req EXCEPT ![h] = r]
  BY <1>0 DEF SetStatus, ReqRecords
<1> HIDE DEF js, i
<1>3. /\ new \in Seq(JobRecords) /\ Len(new) = Len(js)
      /\ new[i].status = s /\ new[i].id = js[i].id /\ new[i].backend = js[i].backend
      /\ \A k \in 1..Len(js) \ {i} : new[k] = js[k]
  BY <1>1, StatusWritten
<1> HIDE DEF new
<1>4. /\ r \in ReqRecords /\ r.op = "refresh" /\ r.back = req[h].back /\ r.jobs = new
      /\ r.snap = req[h].snap
  BY <1>0, <1>1, <1>3 DEF ReqRecords
<1> HIDE DEF r
<1>5. OthersSame(h) /\ req'[h] = r
  BY <1>2 DEF OthersSame, ExpInv
<1>6. ASSUME ~deleted', NEW k \in DOMAIN new,
             new[k].backend = "nebius", new[k].status = "completed"
      PROVE  new[k].id \in confirmed' \/ layout' = Files
  <2>1. PICK old : old = js
    OBVIOUS
  <2>2. Backed(old)'
    BY <1>6, <2>1, BackedStays DEF ExpInv, HandlerInv, EvidenceStays, js
  <2>3. DOMAIN new = 1..Len(js) /\ DOMAIN js = 1..Len(js)
    BY <1>1, <1>3, LenProperties
  <2>4. CASE k = i
    BY <1>3, <1>6, <2>4 DEF js, i
  <2>5. CASE k # i
    BY <1>3, <1>6, <2>1, <2>2, <2>3, <2>5 DEF Backed
  <2> QED BY <2>4, <2>5
<1>7. ~deleted' => Backed(req[h].jobs)'
  BY <1>4, <1>5, <1>6 DEF Backed
<1>8. ~deleted' => (r.snap.status = "completed" => layout' = Files)
  BY <1>4 DEF ExpInv, HandlerInv, EvidenceStays
<1>9. ~r.back
  BY <1>4, RequestTyped DEF Collecting
<1> QED
  BY <1>4, <1>5, <1>7, <1>8, <1>9 DEF HandlerInv, JobMade

LEMMA RefreshExp == ASSUME ExpInv, NEW h \in Handlers, RefreshJob(h) PROVE ExpInv'
<1> DEFINE job == req[h].jobs[req[h].at + 1]
           answer == cloud[job.id]
<1>1. /\ req[h].op = "refresh" /\ req[h].at < Len(req[h].jobs)
      /\ UNCHANGED <<manifest, jobs, localDir, cloudDir, layout, cloud, sent, deleted, created>>
      /\ confirmed \subseteq confirmed'
  BY DEF RefreshJob, store, platform, Finish
<1>2. StoreInv' /\ EvidenceStays
  BY <1>1, QuietStore DEF ExpInv, StoreInv
<1>3. ~req[h].back /\ "refresh" \notin Collecting /\ "refresh" \notin JobMade
  BY <1>1, RequestTyped DEF Collecting, JobMade
<1>4. answer \in {"none", "running", "completed", "failed"}
  <2>1. req[h].at + 1 \in 1..Len(req[h].jobs) /\ req[h].jobs \in Seq(JobRecords)
    <3>1. req[h].jobs \in Seq(JobRecords) /\ req[h].at \in Nat
      BY RequestTyped
    <3>2. Len(req[h].jobs) \in Nat
      BY <3>1, LenProperties
    <3> QED BY <1>1, <3>1, <3>2
  <2>2. job \in JobRecords
    BY <2>1, ElementOfSeq
  <2> HIDE DEF job
  <2> QED BY <2>2 DEF ExpInv, StoreInv, JobRecords
<1>5. CASE req' = [req EXCEPT ![h].at = req[h].at + 1]
  <2>0. PICK at \in Nat : at = req[h].at + 1
    BY RequestTyped
  <2>1. Staged(h, "refresh", at)
    <3>1. req' = [req EXCEPT ![h].at = at]
      BY <1>5, <2>0
    <3> QED
      BY <1>1, <3>1, RequestTyped DEF Staged, OthersSame, ExpInv, ReqRecords
  <2>2. OthersSame(h) /\ HandlerInv(h)'
    BY <1>2, <1>3, <2>1, StageMoves
  <2> QED BY <1>2, <2>2, RequestStep
<1>6. CASE answer # "none" /\ answer # "completed" /\ SetStatus(h, answer)
  <2>1. PICK s \in JobStatuses : s = answer
    BY <1>4, <1>6 DEF JobStatuses
  <2>2. SetStatus(h, s) /\ s # "completed"
    BY <1>6, <2>1 DEF SetStatus
  <2>3. OthersSame(h) /\ HandlerInv(h)'
    BY <1>1, <1>2, <2>2, StatusRead
  <2> QED BY <1>2, <2>3, RequestStep
<1>7. CASE SetStatus(h, "completed") /\ confirmed' = confirmed \cup {job.id}
  <2>1. "completed" \in JobStatuses
    BY DEF JobStatuses
  <2>2. OthersSame(h) /\ HandlerInv(h)'
    BY <1>1, <1>2, <1>7, <2>1, StatusRead
  <2> QED BY <1>2, <2>2, RequestStep
<1>8. CASE req' = [req EXCEPT ![h].op = "collect", ![h].snap = manifest, ![h].back = TRUE]
  <2>1. /\ OthersSame(h) /\ req'[h] \in ReqRecords /\ req'[h].op = "collect"
        /\ req'[h].at = req[h].at /\ req'[h].jobs = req[h].jobs /\ req'[h].snap = manifest
    BY <1>8, RequestTyped DEF OthersSame, ExpInv, StoreInv, ReqRecords, Requests
  <2>2. PICK js : js = req[h].jobs
    OBVIOUS
  <2>3. ~deleted' => Backed(js)'
    BY <1>2, <2>2, BackedStays DEF ExpInv, HandlerInv, EvidenceStays
  <2>4. ~deleted' => Backed(req[h].jobs)'
    BY <2>1, <2>2, <2>3 DEF Backed
  <2>5. ~deleted' => (manifest.status = "completed" => layout' = Files)
    BY <1>1 DEF ExpInv, StoreInv, CompletedExperimentIsWhole
  <2>6. HandlerInv(h)'
    BY <1>1, <2>1, <2>4, <2>5 DEF HandlerInv, JobMade, Collecting
  <2> QED BY <1>2, <2>1, <2>6, RequestStep
<1>9. CASE Finish(h)
  BY <1>2, <1>9, FinishedRequest, RequestStep
<1>10. CASE answer # "none" /\ answer = "completed" /\ SetStatus(h, "running")
  <2>1. "running" \in JobStatuses
    BY DEF JobStatuses
  <2>2. OthersSame(h) /\ HandlerInv(h)'
    BY <1>1, <1>2, <1>10, <2>1, StatusRead
  <2> QED BY <1>2, <2>2, RequestStep
<1> QED
  BY <1>5, <1>6, <1>7, <1>8, <1>9, <1>10 DEF RefreshJob
--------------------------------------------------------------------------------
LEMMA InitExp == Init => ExpInv
<1> SUFFICES ASSUME Init PROVE ExpInv
  OBVIOUS
<1>1. manifest \in ManifestRecords /\ manifest.status # "completed"
  BY DEF Init, ManifestRecords, Statuses
<1>2. jobs \in Seq(JobRecords) /\ Backed(jobs)
  BY DEF Init, Backed
<1>3. StoreInv
  BY <1>1, <1>2, ExperimentJobsAssumption DEF Init, StoreInv, CompletedExperimentIsWhole
<1>4. ASSUME NEW h \in Handlers PROVE HandlerInv(h)
  <2>1. req[h] = Idle
    BY DEF Init
  <2>2. Backed(req[h].jobs)
    BY <2>1, IdleRequest DEF Backed
  <2> QED BY <2>1, <2>2, IdleRequest DEF HandlerInv, JobMade
<1> QED
  BY <1>3, <1>4 DEF ExpInv, Init

LEMMA NextExp == ExpInv /\ [Next]_vars => ExpInv'
<1> SUFFICES ASSUME ExpInv, [Next]_vars PROVE ExpInv'
  OBVIOUS
<1>1. CASE UNCHANGED vars
  <2>1. /\ UNCHANGED <<manifest, jobs, localDir, cloudDir, layout, cloud, sent, deleted>>
        /\ confirmed' = confirmed /\ created' = created /\ req' = req
    BY <1>1 DEF vars
  <2>2. StoreInv' /\ EvidenceStays
    BY <2>1, QuietStore DEF ExpInv, StoreInv
  <2> QED BY <2>1, <2>2, OtherStep
<1>2. ASSUME NEW h \in Handlers, Handle(h) PROVE ExpInv'
  BY <1>2, AnsweredExp, RefuseExp, LocalBatchExp, SaveLocalExp, SubmitExp, SaveSubmissionExp,
     LocateExp, NormalizeExp, PendingExp, RefreshExp, WriteExp DEF Handle
<1>3. ASSUME NEW h \in Handlers, NEW o \in Requests, Begin(h, o) PROVE ExpInv'
  BY <1>3, BeginExp
<1>4. ASSUME NEW j \in JobIds, CloudWrite(j) \/ CloudEnd(j) PROVE ExpInv'
  BY <1>4, CloudWriteExp, CloudEndExp
<1>5. CASE Delete
  BY <1>5, DeleteExp
<1> QED
  BY <1>1, <1>2, <1>3, <1>4, <1>5 DEF Next

(* In every behaviour of the overlapping requests, the store and what any  *)
(* request has read from it and may still write back claim no more than    *)
(* the evidence that is there (routes_experiments.py, manager.py,          *)
(* nebius_orchestrator.py refresh).                                        *)
THEOREM ExperimentInvariant == Spec => []ExpInv
  BY InitExp, NextExp, PTL DEF Spec

(* A record that says completed is backed by collected evidence, for any   *)
(* number of overlapping requests, jobs and artifact files, whatever stale *)
(* snapshot a request saves last (nebius_orchestrator.py refresh,          *)
(* routes_experiments.py).                                                 *)
THEOREM CompletedCollected == Spec => []CompletedIsCollected
<1>1. ExpInv => CompletedIsCollected
  BY DEF ExpInv, StoreInv, Backed, CompletedIsCollected, CompletedJobHasEvidence,
         CompletedExperimentIsWhole
<1> QED
  BY <1>1, ExperimentInvariant, PTL

--------------------------------------------------------------------------------
(***************************************************************************)
(* The research journey.                                                   *)
(***************************************************************************)
Names == Identifiers \X ArtifactKinds

\* An explanation, or a record, of what is stored for the identifier.
ExplainedIn(fs, id, v) == fs[<<id, "snapshot">>].links > 0 /\ v.input = fs[<<id, "snapshot">>].value

SavedIn(fs, id, v) ==
    /\ fs[<<id, "snapshot">>].links > 0 /\ v.snapshot = fs[<<id, "snapshot">>].value
    /\ fs[<<id, "explanation">>].links > 0 /\ v.explanation = fs[<<id, "explanation">>].value
    /\ v.explanation.input = v.snapshot

GoodFiles(fs) ==
    /\ DOMAIN fs = Names /\ fs = [f \in Names |-> fs[f]]
    /\ \A f \in Names : \/ fs[f] = NoArtifact
                        \/ /\ fs[f].links \in {1, 2}
                           /\ fs[f] = [links |-> fs[f].links, value |-> fs[f].value]
    /\ \A id \in Identifiers :
         /\ fs[<<id, "snapshot">>].links > 0 => ContextIsExact(fs[<<id, "snapshot">>].value)
         /\ fs[<<id, "explanation">>].links > 0 => ExplainedIn(fs, id, fs[<<id, "explanation">>].value)
         /\ fs[<<id, "saved">>].links > 0 => SavedIn(fs, id, fs[<<id, "saved">>].value)

\* What a request will write fits what is stored, whenever it gets to write it.
GoodRequest(fs, a) ==
    /\ a = [pc |-> a.pc, op |-> a.op, id |-> a.id, value |-> a.value, snapshot |-> a.snapshot,
            explanation |-> a.explanation, reply |-> a.reply]
    /\ a.op \in {"capture", "explain", "save"} /\ a.id \in Identifiers
    /\ a.op = "capture" => ContextIsExact(a.value)
    /\ a.op = "explain" => ExplainedIn(fs, a.id, a.value)
    /\ a.op = "save" => SavedIn(fs, a.id, a.value)
    /\ a.pc = "linked" => fs[<<a.id, KindOf(a.op)>>].links > 0

\* What was answered is stored.
GoodReply(fs, a) ==
    a.reply.status = "ok" =>
      /\ a.id \in Identifiers /\ a.op \in {"capture", "explain", "save", "reopen"}
      /\ fs[<<a.id, KindOf(a.op)>>].links > 0 /\ fs[<<a.id, KindOf(a.op)>>].value = a.reply.value

GoodAsk(fs, a) == IF a.pc = "idle" THEN GoodReply(fs, a) ELSE GoodRequest(fs, a)

Staging(a) == a.pc \in {"staged", "linked"}

LockIsHeld ==
    /\ flock = {} \/ \E r \in Askers : flock = {r}
    /\ \A r \in Askers : r \in flock <=> Staging(asks[r])

TwiceLinked == {f \in Names : files[f].links = 2}
Stored == {f \in Names : files[f].links > 0}

\* The entries of the store, each counted where it is now.
Entries == Cardinality(Stored) + orphans + Cardinality(flock)
Budget == Entries <= StoreFiles + Cardinality(TwiceLinked)

JourneyInv ==
    /\ captures \in Nat /\ orphans \in Nat
    /\ GoodFiles(files)
    /\ DOMAIN asks = Askers /\ asks = [r \in Askers |-> asks[r]]
    /\ \A r \in Askers : GoodAsk(files, asks[r])
    /\ LockIsHeld /\ Budget

LEMMA LeastAlert ==
  ASSUME NEW S \in SUBSET Nat, S # {}
  PROVE  \E m \in S : \A k \in S : m <= k
<1>1. PICK m \in S : \A k \in S : ~(<<k, m>> \in OpToRel(<, Nat))
  BY NatLessThanWellFounded, WFMin
<1>2. \A k \in S : ~(k < m)
  BY <1>1, Zenon DEF OpToRel
<1>3. m \in Nat /\ \A k \in S : k \in Nat
  OBVIOUS
<1> QED BY <1>2, <1>3

LEMMA PositionsFinite ==
  ASSUME NEW run
  PROVE  /\ IsFiniteSet(PositionsOf(run)) /\ PositionsOf(run) \subseteq Nat
         /\ Cardinality(PositionsOf(run)) \in Nat
<1>1. PositionsOf(run) \subseteq 1..Len(Predictions) /\ Len(Predictions) \in Nat
  BY JourneyAssumption DEF PositionsOf
<1>2. IsFiniteSet(1..Len(Predictions))
  BY <1>1, FS_Interval
<1>3. IsFiniteSet(PositionsOf(run))
  BY <1>1, <1>2, FS_Subset
<1> QED BY <1>1, <1>3, FS_CardinalityType

LEMMA BeforeFinite ==
  ASSUME NEW run, NEW i \in PositionsOf(run)
  PROVE  /\ IsFiniteSet(RowsBefore(run, i)) /\ Cardinality(RowsBefore(run, i)) \in Nat
         /\ Cardinality(RowsBefore(run, i)) + 1 <= Cardinality(PositionsOf(run))
<1>1. RowsBefore(run, i) \subseteq PositionsOf(run) /\ i \notin RowsBefore(run, i)
  BY PositionsFinite DEF RowsBefore
<1>2. IsFiniteSet(RowsBefore(run, i)) /\ Cardinality(RowsBefore(run, i)) \in Nat
  BY <1>1, PositionsFinite, FS_Subset, FS_CardinalityType
<1>3. Cardinality(RowsBefore(run, i) \cup {i}) = Cardinality(RowsBefore(run, i)) + 1
  BY <1>1, <1>2, FS_AddElement
<1>4. RowsBefore(run, i) \cup {i} \subseteq PositionsOf(run)
  BY <1>1
<1>5. Cardinality(RowsBefore(run, i) \cup {i}) <= Cardinality(PositionsOf(run))
  BY <1>4, PositionsFinite, FS_Subset
<1> QED BY <1>2, <1>3, <1>5

\* A later row of a run has more rows of the run before it.
LEMMA BeforeGrows ==
  ASSUME NEW run, NEW i \in PositionsOf(run), NEW j \in PositionsOf(run), i < j
  PROVE  Cardinality(RowsBefore(run, i)) < Cardinality(RowsBefore(run, j))
<1>1. i \in Nat /\ j \in Nat /\ PositionsOf(run) \subseteq Nat
  BY PositionsFinite
<1>2. RowsBefore(run, i) \cup {i} \subseteq RowsBefore(run, j) /\ i \notin RowsBefore(run, i)
  BY <1>1 DEF RowsBefore
<1>3. /\ IsFiniteSet(RowsBefore(run, i)) /\ IsFiniteSet(RowsBefore(run, j))
      /\ Cardinality(RowsBefore(run, i)) \in Nat /\ Cardinality(RowsBefore(run, j)) \in Nat
  BY BeforeFinite
<1>4. Cardinality(RowsBefore(run, i) \cup {i}) = Cardinality(RowsBefore(run, i)) + 1
  BY <1>2, <1>3, FS_AddElement
<1>5. Cardinality(RowsBefore(run, i) \cup {i}) <= Cardinality(RowsBefore(run, j))
  BY <1>2, <1>3, FS_Subset
<1> QED BY <1>3, <1>4, <1>5

\* Every position of a run is in its group.
LEMMA GroupHasAll ==
  ASSUME NEW run, NEW i \in PositionsOf(run)
  PROVE  \E k \in DOMAIN Grouped(run) : Grouped(run)[k] = i
<1>1. PICK c \in Nat : c = Cardinality(RowsBefore(run, i))
  BY BeforeFinite
<1>2. c + 1 \in 1..Cardinality(PositionsOf(run))
  BY <1>1, BeforeFinite, PositionsFinite
<1>3. Grouped(run)[c + 1] = CHOOSE j \in PositionsOf(run) : Cardinality(RowsBefore(run, j)) = (c + 1) - 1
  BY <1>2 DEF Grouped
<1>4. (c + 1) - 1 = c
  BY <1>1
<1>5. PICK j : j = CHOOSE l \in PositionsOf(run) : Cardinality(RowsBefore(run, l)) = c
  OBVIOUS
<1>6. j \in PositionsOf(run) /\ Cardinality(RowsBefore(run, j)) = c
  BY <1>1, <1>5
<1>7. j = i
  <2>1. i \in Nat /\ j \in Nat
    BY <1>6, PositionsFinite
  <2>2. ~(i < j) /\ ~(j < i)
    BY <1>1, <1>6, BeforeGrows
  <2> QED BY <2>1, <2>2
<1>8. Grouped(run)[c + 1] = i
  BY <1>3, <1>4, <1>5, <1>7
<1>9. c + 1 \in DOMAIN Grouped(run)
  BY <1>2 DEF Grouped
<1> QED BY <1>8, <1>9

LEMMA GroupIsSeq ==
  ASSUME NEW run
  PROVE  /\ Len(Grouped(run)) \in Nat /\ DOMAIN Grouped(run) = 1..Len(Grouped(run))
         /\ \E S : Grouped(run) \in Seq(S)
<1> DEFINE n == Cardinality(PositionsOf(run))
<1> DEFINE at(k) == CHOOSE i \in PositionsOf(run) : Cardinality(RowsBefore(run, i)) = k - 1
<1>1. n \in Nat
  BY PositionsFinite
<1>2. Grouped(run) = [k \in 1..n |-> at(k)]
  BY DEF Grouped
<1> DEFINE S == {at(k) : k \in 1..n}
<1>3. \A k \in 1..n : at(k) \in S
  <2> HIDE DEF at
  <2> QED OBVIOUS
<1> HIDE DEF at, n, S
<1>4. Grouped(run) \in Seq(S)
  BY <1>1, <1>2, <1>3
<1>5. Len(Grouped(run)) \in Nat /\ DOMAIN Grouped(run) = 1..Len(Grouped(run))
  BY <1>4, LenProperties
<1> QED BY <1>4, <1>5

\* The prepared window lies within its group.
LEMMA WindowFits ==
  ASSUME HasAlert
  PROVE  /\ Prepared.offset \in Nat /\ Prepared.limit \in Nat
         /\ Prepared.offset + Prepared.limit <= Len(Grouped(Prepared.run))
<1> DEFINE first == CHOOSE i \in DOMAIN Predictions :
                      /\ Predictions[i].transformer
                      /\ \A j \in 1..(i - 1) : ~Predictions[j].transformer
<1> DEFINE group == Grouped(Predictions[first].run)
<1> DEFINE index == CHOOSE k \in DOMAIN group : group[k] = first
<1> DEFINE offset == IF index - 1 > Lookback THEN index - 1 - Lookback ELSE 0
<1> DEFINE limit == IF Len(group) - offset < WindowRows THEN Len(group) - offset ELSE WindowRows
<1>1. first \in DOMAIN Predictions
  <2> DEFINE alerts == {i \in DOMAIN Predictions : Predictions[i].transformer}
  <2>1. alerts # {} /\ alerts \in SUBSET Nat
    BY JourneyAssumption DEF HasAlert
  <2>2. PICK i \in alerts : \A j \in alerts : i <= j
    <3> HIDE DEF alerts
    <3> QED BY <2>1, LeastAlert
  <2>3. i \in DOMAIN Predictions /\ Predictions[i].transformer
    BY <2>2
  <2>4. \A j \in 1..(i - 1) : j \in DOMAIN Predictions /\ ~(i <= j)
    BY <2>3, JourneyAssumption
  <2>5. \A j \in 1..(i - 1) : ~Predictions[j].transformer
    BY <2>2, <2>4
  <2> QED BY <2>3, <2>5
<1>2. first \in PositionsOf(Predictions[first].run)
  BY <1>1 DEF PositionsOf
<1>3. index \in DOMAIN group
  <2>1. \E k \in DOMAIN group : group[k] = first
    <3> HIDE DEF first
    <3> QED BY <1>2, GroupHasAll
  <2> QED BY <2>1
<1>4. Len(group) \in Nat /\ DOMAIN group = 1..Len(group)
  BY GroupIsSeq
<1>5. Prepared = [run |-> Predictions[first].run, offset |-> offset, limit |-> limit]
  BY DEF Prepared
<1> HIDE DEF first, index
<1>6. offset \in Nat /\ offset <= Len(group)
  BY <1>3, <1>4, JourneyAssumption
<1>7. limit \in Nat /\ offset + limit <= Len(group)
  <2> HIDE DEF offset, group
  <2> QED BY <1>4, <1>6, JourneyAssumption
<1> HIDE DEF offset, limit
<1> QED BY <1>5, <1>6, <1>7

\* A snapshot holds the rows right before its alert.
LEMMA SnapshotIsExact ==
  ASSUME HasAlert, NEW id, NEW d, NEW k \in DOMAIN Page(Prepared)
  PROVE  ContextIsExact(SnapshotOf(id, d, k))
<1>0. PICK S : Grouped(Prepared.run) \in Seq(S)
  BY GroupIsSeq
<1> DEFINE page == Page(Prepared)
<1>1. PICK group \in Seq(S), off \in Nat, limit \in Nat :
        /\ group = Grouped(Prepared.run) /\ off = Prepared.offset /\ limit = Prepared.limit
        /\ off + limit <= Len(group)
  BY <1>0, WindowFits
<1> DEFINE rows == SubSeq(group, off + 1, off + limit)
<1>2. /\ Len(rows) = limit /\ DOMAIN rows = 1..limit
      /\ \A i \in 1..limit : rows[i] = group[off + i]
  <2>1. Len(group) \in Nat
    BY LenProperties
  <2>2. off + 1 \in Int /\ off + limit \in Int /\ (off + limit) - (off + 1) + 1 = limit
    OBVIOUS
  <2>3. \A i \in (off + 1)..(off + limit) : group[i] \in S
    BY <1>1, <2>1, ElementOfSeq
  <2>4. /\ rows \in Seq(S)
        /\ Len(rows) = IF off + 1 <= off + limit THEN (off + limit) - (off + 1) + 1 ELSE 0
        /\ \A i \in 1..((off + limit) - (off + 1) + 1) : rows[i] = group[(off + 1) + i - 1]
    BY <2>2, <2>3, SubSeqProperties
  <2> HIDE DEF rows
  <2>5. Len(rows) = limit /\ \A i \in 1..limit : (off + 1) + i - 1 = off + i
    BY <2>4
  <2>6. DOMAIN rows = 1..limit
    BY <2>4, <2>5, LenProperties
  <2> QED BY <2>2, <2>4, <2>5, <2>6
<1>3. page = [i \in 1..limit |->
                [ordinal |-> off + i - 1, source |-> group[off + i],
                 target |-> Predictions[group[off + i]].target,
                 scores |-> [e \in Detectors |-> Predictions[group[off + i]][e]]]]
  <2> HIDE DEF rows
  <2>1. page = [i \in DOMAIN rows |->
                [ordinal |-> off + i - 1, source |-> rows[i], target |-> Predictions[rows[i]].target,
                 scores |-> [e \in Detectors |-> Predictions[rows[i]][e]]]]
    BY <1>1 DEF Page, rows
  <2> QED BY <1>2, <2>1
<1>4. /\ DOMAIN page = 1..limit
      /\ \A i \in 1..limit : page[i].ordinal = off + i - 1 /\ page[i].source = group[off + i]
  BY <1>3
<1>5. k \in 1..limit
  BY <1>1, <1>4
<1> DEFINE a == IF k > Lookback THEN k - Lookback ELSE 1
<1> DEFINE snapshot == SnapshotOf(id, d, k)
<1>6. snapshot.row = page[k] /\ snapshot.context = SubSeq(page, a, k - 1)
  BY <1>1 DEF SnapshotOf, ContextOf
<1>7. a \in Nat \ {0} /\ a <= k /\ Lookback \in Nat \ {0}
  BY <1>5, JourneyAssumption
<1>8. /\ Len(snapshot.context) = k - a
      /\ \A i \in 1..(k - a) : snapshot.context[i] = page[a + i - 1]
  <2> HIDE DEF a, snapshot
  <2>1. PICK T : T = {page[i] : i \in 1..limit}
    OBVIOUS
  <2>2. a \in Int /\ k - 1 \in Int /\ \A i \in a..(k - 1) : page[i] \in T
    <3>1. k \in Nat /\ k <= limit
      BY <1>5
    <3>2. \A i \in a..(k - 1) : i \in 1..limit
      BY <1>7, <3>1
    <3> QED BY <1>7, <2>1, <3>1, <3>2
  <2>3. /\ Len(SubSeq(page, a, k - 1)) = IF a <= k - 1 THEN (k - 1) - a + 1 ELSE 0
        /\ \A i \in 1..((k - 1) - a + 1) : SubSeq(page, a, k - 1)[i] = page[a + i - 1]
    BY <2>2, SubSeqProperties
  <2>4. (k - 1) - a + 1 = k - a /\ (a <= k - 1 \/ k - a = 0)
    BY <1>5, <1>7
  <2> QED BY <1>6, <2>3, <2>4
<1>9. snapshot.row.ordinal = off + k - 1 /\ snapshot.row.source = group[off + k]
  BY <1>4, <1>5, <1>6
<1>10. Len(snapshot.context) = IF (off + k - 1) - off < Lookback THEN (off + k - 1) - off ELSE Lookback
  BY <1>5, <1>7, <1>8
<1>11. ASSUME NEW i \in 1..Len(snapshot.context)
       PROVE  snapshot.context[i].source = group[(off + k - 1) - Len(snapshot.context) + i]
  <2> HIDE DEF a, snapshot
  <2>1. i \in 1..(k - a) /\ a + i - 1 \in 1..limit
    BY <1>5, <1>7, <1>8, <1>11
  <2>2. snapshot.context[i].source = group[off + (a + i - 1)]
    BY <1>4, <1>8, <2>1
  <2>3. off + (a + i - 1) = (off + k - 1) - (k - a) + i
    BY <1>5, <1>7, <2>1
  <2> QED BY <1>8, <2>2, <2>3
<1>12. off + k = (off + k - 1) + 1
  BY <1>5
<1> HIDE DEF a, snapshot
<1> QED BY <1>1, <1>9, <1>10, <1>11, <1>12 DEF ContextIsExact, snapshot

\* Files of which none is ever replaced.
FilesGrow(fs, gs) ==
    \A f \in Names : fs[f].links > 0 => gs[f].links > 0 /\ gs[f].value = fs[f].value

LEMMA KindsAreKinds ==
  /\ KindOf("capture") = "snapshot" /\ KindOf("explain") = "explanation"
  /\ KindOf("save") = "saved" /\ KindOf("reopen") = "saved"
  /\ \A op : KindOf(op) \in ArtifactKinds
  BY DEF KindOf, ArtifactKinds

LEMMA NamesOf ==
  ASSUME NEW id \in Identifiers, NEW kind \in ArtifactKinds
  PROVE  <<id, kind>> \in Names
  BY DEF Names

LEMMA StillExplained ==
  ASSUME NEW fs, NEW gs, FilesGrow(fs, gs), NEW id \in Identifiers, NEW v
  PROVE  /\ ExplainedIn(fs, id, v) => ExplainedIn(gs, id, v)
         /\ SavedIn(fs, id, v) => SavedIn(gs, id, v)
<1>1. <<id, "snapshot">> \in Names /\ <<id, "explanation">> \in Names
  BY DEF Names, ArtifactKinds
<1> QED BY <1>1 DEF FilesGrow, ExplainedIn, SavedIn

LEMMA AsksStayGood ==
  ASSUME NEW fs, NEW gs, FilesGrow(fs, gs), NEW a, GoodAsk(fs, a)
  PROVE  GoodAsk(gs, a)
<1>1. CASE a.pc = "idle"
  <2>1. a.reply.status = "ok" => <<a.id, KindOf(a.op)>> \in Names
    BY <1>1, NamesOf, KindsAreKinds DEF GoodAsk, GoodReply
  <2> QED BY <1>1, <2>1 DEF GoodAsk, GoodReply, FilesGrow
<1>2. CASE a.pc # "idle"
  <2>1. GoodRequest(fs, a)
    BY <1>2 DEF GoodAsk
  <2>2. <<a.id, KindOf(a.op)>> \in Names /\ a.id \in Identifiers
    BY <2>1, NamesOf, KindsAreKinds DEF GoodRequest
  <2>3. a.pc = "linked" => gs[<<a.id, KindOf(a.op)>>].links > 0
    BY <2>1, <2>2 DEF GoodRequest, FilesGrow
  <2>4. /\ a.op = "explain" => ExplainedIn(gs, a.id, a.value)
        /\ a.op = "save" => SavedIn(gs, a.id, a.value)
    BY <2>1, <2>2, StillExplained DEF GoodRequest
  <2> QED BY <1>2, <2>1, <2>3, <2>4 DEF GoodAsk, GoodRequest
<1> QED BY <1>1, <1>2

LEMMA LockCountsStaged ==
  ASSUME LockIsHeld
  PROVE  StagedFiles = Cardinality(flock)
<1>1. flock = {r \in Askers : asks[r].pc \in {"staged", "linked"}}
  BY DEF LockIsHeld, Staging
<1> QED BY <1>1 DEF StagedFiles

LEMMA NamesFinite == IsFiniteSet(Names)
<1>1. IsFiniteSet(Identifiers)
  BY JourneyAssumption, FS_Interval DEF Identifiers
<1>2. IsFiniteSet(ArtifactKinds)
  <2>1. IsFiniteSet({"snapshot"})
    BY FS_Singleton
  <2>2. IsFiniteSet({"snapshot"} \cup {"explanation"})
    BY <2>1, FS_AddElement
  <2>3. IsFiniteSet(({"snapshot"} \cup {"explanation"}) \cup {"saved"})
    BY <2>2, FS_AddElement
  <2>4. ArtifactKinds = ({"snapshot"} \cup {"explanation"}) \cup {"saved"}
    BY DEF ArtifactKinds
  <2> QED BY <2>3, <2>4
<1> QED BY <1>1, <1>2, FS_Product DEF Names

\* What the store holds, as numbers.
LEMMA StoreCounts ==
  ASSUME JourneyInv
  PROVE  /\ IsFiniteSet(Stored) /\ IsFiniteSet(TwiceLinked)
         /\ Cardinality(Stored) \in Nat /\ Cardinality(TwiceLinked) \in Nat
         /\ IsFiniteSet(flock) /\ Cardinality(flock) \in Nat
         /\ StoredFiles = Entries
<1>1. Stored \subseteq Names /\ TwiceLinked \subseteq Names
  BY DEF Stored, TwiceLinked
<1>2. IsFiniteSet(Stored) /\ IsFiniteSet(TwiceLinked)
  BY <1>1, NamesFinite, FS_Subset
<1>3. IsFiniteSet(flock)
  <2>1. flock = {} \/ \E r \in Askers : flock = {r}
    BY DEF JourneyInv, LockIsHeld
  <2>2. CASE flock = {}
    BY <2>2, FS_EmptySet
  <2>3. ASSUME NEW r \in Askers, flock = {r}  PROVE IsFiniteSet(flock)
    BY <2>3, FS_Singleton
  <2> QED BY <2>1, <2>2, <2>3
<1>4. Stored = {f \in DOMAIN files : files[f].links > 0}
  BY DEF JourneyInv, GoodFiles, Stored
<1>5. StoredFiles = Entries
  BY <1>4, LockCountsStaged DEF StoredFiles, JourneyInv, Entries
<1> QED BY <1>2, <1>3, <1>5, FS_CardinalityType

\* A request that does not hold the lock before or after moves on.
LEMMA AskMoves ==
  ASSUME JourneyInv, NEW r \in Askers, NEW a, asks' = [asks EXCEPT ![r] = a],
         ~Staging(asks[r]), ~Staging(a), GoodAsk(files, a),
         UNCHANGED <<files, orphans, flock>>, captures' \in Nat
  PROVE  JourneyInv'
<1>1. /\ DOMAIN asks' = Askers /\ asks' = [q \in Askers |-> asks'[q]]
      /\ asks'[r] = a /\ \A q \in Askers \ {r} : asks'[q] = asks[q]
  BY DEF JourneyInv
<1>2. LockIsHeld'
  BY <1>1 DEF JourneyInv, LockIsHeld
<1>3. \A q \in Askers : GoodAsk(files, asks'[q])
  BY <1>1 DEF JourneyInv
<1>4. Budget'
  BY DEF JourneyInv, Budget, Entries, Stored, TwiceLinked
<1> QED BY <1>1, <1>2, <1>3, <1>4 DEF JourneyInv

Begun(a) ==
    /\ a = [pc |-> a.pc, op |-> a.op, id |-> a.id, value |-> a.value, snapshot |-> a.snapshot,
            explanation |-> a.explanation, reply |-> a.reply]
    /\ a.op \in {"capture", "explain", "save", "reopen"} /\ a.id \in Identifiers

\* An answer read from a file is what the file holds.
LEMMA AnswerIsStored ==
  ASSUME JourneyInv, NEW a, Begun(a)
  PROVE  /\ GoodAsk(files, Replied(a, AnswerFrom(a)))
         /\ ~Staging(Replied(a, AnswerFrom(a)))
<1> DEFINE b == Replied(a, AnswerFrom(a))
<1> DEFINE name == <<a.id, KindOf(a.op)>>
<1>1. b.pc = "idle" /\ b.reply = AnswerFrom(a) /\ b.id = a.id /\ b.op = a.op
  BY DEF Replied, Begun
<1>2. name \in Names
  BY NamesOf, KindsAreKinds DEF Begun
<1>3. AnswerFrom(a).status = "ok" => files[name].links = 1 /\ AnswerFrom(a).value = files[name].value
  BY DEF AnswerFrom, Refusal
<1> HIDE DEF b
<1>4. GoodAsk(files, b)
  BY <1>1, <1>2, <1>3 DEF GoodAsk, GoodReply, Begun
<1>5. ~Staging(b)
  BY <1>1 DEF Staging
<1> QED BY <1>4, <1>5 DEF b

LEMMA RefusedIsGood ==
  ASSUME NEW a, Begun(a)
  PROVE  GoodAsk(files, Replied(a, Refusal)) /\ ~Staging(Replied(a, Refusal))
  BY DEF Replied, Begun, Refusal, GoodAsk, GoodReply, Staging

LEMMA IdleIsGood ==
  /\ GoodAsk(files, IdleAsk) /\ ~Staging(IdleAsk)
  /\ GoodAsk(files, [IdleAsk EXCEPT !.reply = Refusal])
  /\ ~Staging([IdleAsk EXCEPT !.reply = Refusal])
  BY DEF IdleAsk, Unanswered, Refusal, GoodAsk, GoodReply, Staging

LEMMA CaptureKeepsInv ==
  ASSUME JourneyInv, NEW r \in Askers, NEW d \in Detectors, NEW target, Capture(r, d, target)
  PROVE  JourneyInv'
<1> DEFINE page == IF HasAlert THEN Page(Prepared) ELSE <<>>
<1> DEFINE chosen == {k \in DOMAIN page : page[k].target = target /\ page[k].scores[d]}
<1> DEFINE id == captures + 1
<1> DEFINE value == SnapshotOf(id, d, CHOOSE k \in chosen : TRUE)
<1> DEFINE ask == Opened("capture", id, value, NoArtifact, NoArtifact)
<1>1. asks[r].pc = "idle" /\ captures \in Nat /\ captures < MaxCaptures
  BY DEF Capture, JourneyInv
<1>2. CASE /\ chosen # {} /\ captures' = id
           /\ asks' = [asks EXCEPT ![r] =
                IF SnapshotHolds(value, id) THEN [ask EXCEPT !.pc = "write"] ELSE Replied(ask, Refusal)]
           /\ UNCHANGED <<files, orphans, flock>>
  <2>1. PICK k \in DOMAIN page : value = SnapshotOf(id, d, k)
    <3>1. (CHOOSE k \in chosen : TRUE) \in chosen
      BY <1>2
    <3> QED BY <3>1
  <2>2. HasAlert /\ page = Page(Prepared)
    <3>1. ~HasAlert => page = <<>>
      OBVIOUS
    <3>2. DOMAIN << >> = {}
      OBVIOUS
    <3> QED BY <2>1, <3>1, <3>2
  <2>3. ContextIsExact(value)
    <3> HIDE DEF value, id
    <3> QED BY <2>1, <2>2, SnapshotIsExact
  <2>4. id \in Identifiers /\ id \in Nat
    BY <1>1, JourneyAssumption DEF Identifiers
  <2> HIDE DEF value, id, chosen, page
  <2>5. Begun(ask) /\ ask.op = "capture" /\ ask.value = value
    BY <2>4 DEF Opened, Begun
  <2> HIDE DEF ask
  <2> DEFINE a == IF SnapshotHolds(value, id) THEN [ask EXCEPT !.pc = "write"] ELSE Replied(ask, Refusal)
  <2>6. asks' = [asks EXCEPT ![r] = a]
    BY <1>2
  <2>7. GoodAsk(files, a) /\ ~Staging(a)
    <3>1. CASE SnapshotHolds(value, id)
      <4>1. /\ a.pc = "write" /\ a.op = "capture" /\ a.id \in Identifiers /\ a.value = value
            /\ a = [pc |-> a.pc, op |-> a.op, id |-> a.id, value |-> a.value, snapshot |-> a.snapshot,
                    explanation |-> a.explanation, reply |-> a.reply]
        BY <2>5, <3>1 DEF Begun
      <4> HIDE DEF a
      <4> QED BY <2>3, <4>1 DEF GoodAsk, GoodRequest, Staging
    <3>2. CASE ~SnapshotHolds(value, id)
      BY <2>5, <3>2, RefusedIsGood
    <3> QED BY <3>1, <3>2
  <2> HIDE DEF a
  <2>8. ~Staging(asks[r])
    BY <1>1 DEF Staging
  <2> QED BY <1>2, <2>4, <2>6, <2>7, <2>8, AskMoves
<1>3. CASE /\ asks' = [asks EXCEPT ![r] = [IdleAsk EXCEPT !.reply = Refusal]]
           /\ UNCHANGED <<files, orphans, flock, captures>>
  <2>1. ~Staging(asks[r])
    BY <1>1 DEF Staging
  <2> QED BY <1>1, <1>3, <2>1, IdleIsGood, AskMoves
<1> QED BY <1>2, <1>3 DEF Capture

\* What Explain and SaveRecord open rests on what is stored.
LEMMA ExplainKeepsInv ==
  ASSUME JourneyInv, NEW r \in Askers, NEW id \in Identifiers, Explain(r, id)
  PROVE  JourneyInv'
<1> DEFINE snapshot == files[<<id, "snapshot">>].value
<1> DEFINE a == Opened("explain", id, [input |-> snapshot, by |-> r], snapshot, NoArtifact)
<1>1. ~Staging(asks[r]) /\ captures' \in Nat /\ UNCHANGED <<files, orphans, flock>>
  BY DEF Explain, JourneyInv, Staging
<1>2. CASE /\ ReadableFile(id, "snapshot") /\ asks' = [asks EXCEPT ![r] = a]
  <2>1. files[<<id, "snapshot">>].links > 0
    BY <1>2 DEF ReadableFile
  <2>2. GoodAsk(files, a) /\ ~Staging(a)
    BY <2>1 DEF Opened, GoodAsk, GoodRequest, ExplainedIn, Staging
  <2> HIDE DEF a
  <2> QED BY <1>1, <1>2, <2>2, AskMoves
<1>3. CASE asks' = [asks EXCEPT ![r] = [IdleAsk EXCEPT !.reply = Refusal]]
  BY <1>1, <1>3, IdleIsGood, AskMoves
<1> QED BY <1>2, <1>3 DEF Explain

LEMMA SaveKeepsInv ==
  ASSUME JourneyInv, NEW r \in Askers, NEW id \in Identifiers, SaveRecord(r, id)
  PROVE  JourneyInv'
<1> DEFINE snapshot == files[<<id, "snapshot">>].value
<1> DEFINE explanation == files[<<id, "explanation">>].value
<1> DEFINE a == Opened("save", id, [snapshot |-> snapshot, explanation |-> explanation, by |-> r],
                       snapshot, explanation)
<1>1. ~Staging(asks[r]) /\ captures' \in Nat /\ UNCHANGED <<files, orphans, flock>>
  BY DEF SaveRecord, JourneyInv, Staging
<1>2. CASE /\ ReadableFile(id, "snapshot") /\ ReadableFile(id, "explanation")
           /\ ExplanationHolds(explanation, snapshot) /\ asks' = [asks EXCEPT ![r] = a]
  <2>1. files[<<id, "snapshot">>].links > 0 /\ files[<<id, "explanation">>].links > 0
    BY <1>2 DEF ReadableFile
  <2>2. explanation.input = snapshot
    BY <1>2 DEF ExplanationHolds
  <2>3. GoodAsk(files, a) /\ ~Staging(a)
    BY <2>1, <2>2 DEF Opened, GoodAsk, GoodRequest, SavedIn, Staging
  <2> HIDE DEF a
  <2> QED BY <1>1, <1>2, <2>3, AskMoves
<1>3. CASE asks' = [asks EXCEPT ![r] = [IdleAsk EXCEPT !.reply = Refusal]]
  BY <1>1, <1>3, IdleIsGood, AskMoves
<1> QED BY <1>2, <1>3 DEF SaveRecord

LEMMA ReopenKeepsInv ==
  ASSUME JourneyInv, NEW r \in Askers, NEW id \in Identifiers, Reopen(r, id)
  PROVE  JourneyInv'
<1> DEFINE a == Opened("reopen", id, NoArtifact, NoArtifact, NoArtifact)
<1>1. ~Staging(asks[r]) /\ captures' \in Nat /\ UNCHANGED <<files, orphans, flock>>
  BY DEF Reopen, JourneyInv, Staging
<1>2. Begun(a)
  BY DEF Begun, Opened
<1>3. asks' = [asks EXCEPT ![r] = Replied(a, AnswerFrom(a))]
  BY DEF Reopen
<1> HIDE DEF a
<1> QED BY <1>1, <1>2, <1>3, AnswerIsStored, AskMoves

LEMMA BusyIsBegun ==
  ASSUME JourneyInv, NEW r \in Askers, asks[r].pc # "idle"
  PROVE  GoodRequest(files, asks[r]) /\ Begun(asks[r]) /\ <<asks[r].id, KindOf(asks[r].op)>> \in Names
<1>1. GoodRequest(files, asks[r])
  BY DEF JourneyInv, GoodAsk
<1>2. Begun(asks[r])
  BY <1>1 DEF GoodRequest, Begun
<1> QED BY <1>1, <1>2, NamesOf, KindsAreKinds DEF Begun

\* Moving a request on changes nothing else of it.
LEMMA MovedOn ==
  ASSUME JourneyInv, NEW r \in Askers, asks[r].pc # "idle", NEW pc,
         pc \in {"write", "lock", "staged", "linked", "reread"},
         pc = "linked" => files[<<asks[r].id, KindOf(asks[r].op)>>].links > 0
  PROVE  GoodAsk(files, [asks[r] EXCEPT !.pc = pc])
<1> DEFINE a == [asks[r] EXCEPT !.pc = pc]
<1>1. GoodRequest(files, asks[r])
  BY BusyIsBegun
<1>2. /\ a.pc = pc /\ a.op = asks[r].op /\ a.id = asks[r].id /\ a.value = asks[r].value
      /\ a = [pc |-> a.pc, op |-> a.op, id |-> a.id, value |-> a.value, snapshot |-> a.snapshot,
              explanation |-> a.explanation, reply |-> a.reply]
  BY <1>1 DEF GoodRequest
<1> HIDE DEF a
<1>3. GoodAsk(files, a)
  BY <1>1, <1>2 DEF GoodAsk, GoodRequest
<1> QED BY <1>3 DEF a

LEMMA LookUpKeepsInv ==
  ASSUME JourneyInv, NEW r \in Askers, LookUp(r)
  PROVE  JourneyInv'
<1>1. /\ asks[r].pc # "idle" /\ ~Staging(asks[r]) /\ captures' \in Nat
      /\ UNCHANGED <<files, orphans, flock>>
  BY DEF LookUp, JourneyInv, Staging
<1>2. CASE asks' = [asks EXCEPT ![r] = Replied(asks[r], AnswerFrom(asks[r]))]
  BY <1>1, <1>2, BusyIsBegun, AnswerIsStored, AskMoves
<1>3. ASSUME NEW pc \in {"write", "lock"}, asks' = [asks EXCEPT ![r] = [asks[r] EXCEPT !.pc = pc]]
      PROVE  JourneyInv'
  <2>1. GoodAsk(files, [asks[r] EXCEPT !.pc = pc])
    BY <1>1, MovedOn
  <2>2. ~Staging([asks[r] EXCEPT !.pc = pc])
    BY <1>1, BusyIsBegun DEF Begun, Staging
  <2> QED BY <1>1, <1>3, <2>1, <2>2, AskMoves
<1>4. PICK pc \in {"write", "lock"} : pc = IF asks[r].pc = "look" THEN "write" ELSE "lock"
  OBVIOUS
<1>5. \/ asks' = [asks EXCEPT ![r] = Replied(asks[r], AnswerFrom(asks[r]))]
      \/ asks' = [asks EXCEPT ![r] = [asks[r] EXCEPT !.pc = pc]]
  BY <1>4 DEF LookUp
<1> QED BY <1>2, <1>3, <1>5

LEMMA ReadBackKeepsInv ==
  ASSUME JourneyInv, NEW r \in Askers, ReadBack(r)
  PROVE  JourneyInv'
<1>1. /\ asks[r].pc # "idle" /\ ~Staging(asks[r]) /\ captures' \in Nat
      /\ UNCHANGED <<files, orphans, flock>>
      /\ asks' = [asks EXCEPT ![r] = Replied(asks[r], AnswerFrom(asks[r]))]
  BY DEF ReadBack, JourneyInv, Staging
<1> QED BY <1>1, BusyIsBegun, AnswerIsStored, AskMoves

\* The request that staged its bytes is the one that holds the lock.
LEMMA LockHolder ==
  ASSUME JourneyInv, NEW r \in Askers, Staging(asks[r])
  PROVE  flock = {r} /\ Cardinality(flock) = 1 /\ \A q \in Askers \ {r} : ~Staging(asks[q])
<1>1. flock = {r}
  BY DEF JourneyInv, LockIsHeld
<1>2. \A q \in Askers \ {r} : ~Staging(asks[q])
  BY <1>1 DEF JourneyInv, LockIsHeld
<1> QED BY <1>1, <1>2, FS_Singleton

LEMMA StageKeepsInv ==
  ASSUME JourneyInv, NEW r \in Askers, Stage(r)
  PROVE  JourneyInv'
<1>1. asks[r].pc # "idle" /\ ~Staging(asks[r]) /\ UNCHANGED <<files, orphans, captures>> /\ captures \in Nat
  BY DEF Stage, JourneyInv, Staging
<1>2. CASE /\ flock = {} /\ BudgetOpen /\ flock' = {r} /\ asks' = [asks EXCEPT ![r].pc = "staged"]
  <2>1. /\ DOMAIN asks' = Askers /\ asks' = [q \in Askers |-> asks'[q]]
        /\ asks'[r] = [asks[r] EXCEPT !.pc = "staged"] /\ \A q \in Askers \ {r} : asks'[q] = asks[q]
    BY <1>2 DEF JourneyInv
  <2>2. GoodAsk(files, asks'[r])
    BY <1>1, <2>1, MovedOn
  <2>3. \A q \in Askers : GoodAsk(files, asks'[q])
    BY <2>1, <2>2 DEF JourneyInv
  <2>4. asks'[r].pc = "staged"
    BY <1>1, <2>1, BusyIsBegun DEF Begun
  <2>5. LockIsHeld'
    BY <1>2, <2>1, <2>4 DEF JourneyInv, LockIsHeld, Staging
  <2>6. Budget'
    <3>1. Entries < StoreFiles /\ Cardinality(flock) = 0 /\ orphans \in Nat
      BY <1>2, StoreCounts, FS_EmptySet DEF BudgetOpen, JourneyInv
    <3>2. Cardinality(flock') = 1
      BY <1>2, FS_Singleton
    <3>3. Stored' = Stored /\ TwiceLinked' = TwiceLinked
      BY <1>1 DEF Stored, TwiceLinked
    <3> QED BY <1>1, <3>1, <3>2, <3>3, StoreCounts, JourneyAssumption DEF Budget, Entries
  <2> QED BY <1>1, <2>1, <2>3, <2>5, <2>6 DEF JourneyInv
<1>3. CASE asks' = [asks EXCEPT ![r] = Replied(asks[r], Refusal)] /\ UNCHANGED flock
  BY <1>1, <1>3, BusyIsBegun, RefusedIsGood, AskMoves
<1> QED BY <1>2, <1>3 DEF Stage

LEMMA SyncFailsKeepsInv ==
  ASSUME JourneyInv, NEW r \in Askers, SyncFails(r)
  PROVE  JourneyInv'
<1>1. /\ asks[r].pc # "idle" /\ Staging(asks[r]) /\ UNCHANGED <<files, captures>>
      /\ orphans' = orphans + 1 /\ flock' = {}
      /\ asks' = [asks EXCEPT ![r] = Replied(asks[r], Refusal)]
  BY DEF SyncFails, Staging
<1>2. /\ DOMAIN asks' = Askers /\ asks' = [q \in Askers |-> asks'[q]]
      /\ asks'[r] = Replied(asks[r], Refusal) /\ \A q \in Askers \ {r} : asks'[q] = asks[q]
  BY <1>1 DEF JourneyInv
<1>3. GoodAsk(files, asks'[r]) /\ ~Staging(asks'[r])
  BY <1>1, <1>2, BusyIsBegun, RefusedIsGood
<1>4. \A q \in Askers : GoodAsk(files, asks'[q])
  BY <1>2, <1>3 DEF JourneyInv
<1>5. LockIsHeld'
  BY <1>1, <1>2, <1>3, LockHolder DEF LockIsHeld
<1>6. Budget'
  <2>1. Cardinality(flock) = 1 /\ Cardinality(flock') = 0
    BY <1>1, LockHolder, FS_EmptySet
  <2>2. Stored' = Stored /\ TwiceLinked' = TwiceLinked
    BY <1>1 DEF Stored, TwiceLinked
  <2>3. Entries' = Entries
    BY <1>1, <2>1, <2>2, StoreCounts DEF Entries, JourneyInv
  <2> QED BY <2>2, <2>3 DEF Budget, JourneyInv
<1> QED BY <1>1, <1>2, <1>4, <1>5, <1>6 DEF JourneyInv

LEMMA CrashKeepsInv ==
  ASSUME JourneyInv, JourneyCrash
  PROVE  JourneyInv'
<1>1. /\ orphans' = orphans + StagedFiles /\ flock' = {} /\ UNCHANGED <<files, captures>>
      /\ asks' = [r \in Askers |-> IF asks[r].pc = "idle" THEN asks[r] ELSE IdleAsk]
  BY DEF JourneyCrash
<1>2. \A q \in Askers : GoodAsk(files, asks'[q]) /\ ~Staging(asks'[q])
  BY <1>1, IdleIsGood DEF JourneyInv, Staging
<1>3. LockIsHeld'
  BY <1>1, <1>2 DEF LockIsHeld
<1>4. Budget'
  <2>1. StagedFiles = Cardinality(flock) /\ Cardinality(flock') = 0 /\ orphans \in Nat
    BY <1>1, LockCountsStaged, FS_EmptySet DEF JourneyInv
  <2>2. Stored' = Stored /\ TwiceLinked' = TwiceLinked
    BY <1>1 DEF Stored, TwiceLinked
  <2>3. Entries' = Entries
    BY <1>1, <2>1, <2>2, StoreCounts DEF Entries
  <2> QED BY <2>2, <2>3 DEF Budget, JourneyInv
<1>5. orphans' \in Nat
  BY <1>1, LockCountsStaged, StoreCounts DEF JourneyInv
<1> QED BY <1>1, <1>2, <1>3, <1>4, <1>5 DEF JourneyInv

\* The bytes of a request, linked under their free name, fit what is stored.
LEMMA LinkFits ==
  ASSUME JourneyInv, NEW r \in Askers, asks[r].pc = "staged",
         NEW gs, DOMAIN gs = Names, gs = [f \in Names |-> gs[f]],
         files[<<asks[r].id, KindOf(asks[r].op)>>].links = 0,
         gs[<<asks[r].id, KindOf(asks[r].op)>>] = [links |-> 2, value |-> asks[r].value],
         \A f \in Names \ {<<asks[r].id, KindOf(asks[r].op)>>} : gs[f] = files[f]
  PROVE  GoodFiles(gs) /\ FilesGrow(files, gs)
<1> DEFINE name == <<asks[r].id, KindOf(asks[r].op)>>
<1>1. GoodRequest(files, asks[r]) /\ name \in Names
  BY BusyIsBegun
<1>2. FilesGrow(files, gs)
  BY DEF FilesGrow
<1>3. \A f \in Names : \/ gs[f] = NoArtifact
                       \/ /\ gs[f].links \in {1, 2}
                          /\ gs[f] = [links |-> gs[f].links, value |-> gs[f].value]
  BY <1>1 DEF JourneyInv, GoodFiles
<1>4. ASSUME NEW id \in Identifiers
      PROVE  /\ gs[<<id, "snapshot">>].links > 0 => ContextIsExact(gs[<<id, "snapshot">>].value)
             /\ gs[<<id, "explanation">>].links > 0 => ExplainedIn(gs, id, gs[<<id, "explanation">>].value)
             /\ gs[<<id, "saved">>].links > 0 => SavedIn(gs, id, gs[<<id, "saved">>].value)
  <2>1. /\ <<id, "snapshot">> \in Names /\ <<id, "explanation">> \in Names /\ <<id, "saved">> \in Names
    BY DEF Names, ArtifactKinds
  <2>2. /\ asks[r].op = "capture" => KindOf(asks[r].op) = "snapshot" /\ ContextIsExact(asks[r].value)
        /\ asks[r].op = "explain" => KindOf(asks[r].op) = "explanation" /\ ExplainedIn(files, asks[r].id, asks[r].value)
        /\ asks[r].op = "save" => KindOf(asks[r].op) = "saved" /\ SavedIn(files, asks[r].id, asks[r].value)
        /\ asks[r].op \in {"capture", "explain", "save"}
    BY <1>1, KindsAreKinds DEF GoodRequest
  <2>3. gs[<<id, "snapshot">>].links > 0 => ContextIsExact(gs[<<id, "snapshot">>].value)
    <3>1. CASE <<id, "snapshot">> = name
      <4>1. asks[r].op = "capture"
        BY <2>2, <3>1
      <4> QED BY <2>2, <3>1, <4>1
    <3>2. CASE <<id, "snapshot">> # name
      BY <2>1, <3>2 DEF JourneyInv, GoodFiles
    <3> QED BY <3>1, <3>2
  <2>4. gs[<<id, "explanation">>].links > 0 => ExplainedIn(gs, id, gs[<<id, "explanation">>].value)
    <3>1. CASE <<id, "explanation">> = name
      <4>1. asks[r].op = "explain" /\ asks[r].id = id
        BY <2>2, <3>1
      <4> QED BY <1>2, <2>2, <3>1, <4>1, StillExplained
    <3>2. CASE <<id, "explanation">> # name
      <4>1. gs[<<id, "explanation">>] = files[<<id, "explanation">>]
        BY <2>1, <3>2
      <4>2. files[<<id, "explanation">>].links > 0 => ExplainedIn(files, id, files[<<id, "explanation">>].value)
        BY DEF JourneyInv, GoodFiles
      <4> QED BY <1>2, <4>1, <4>2, StillExplained
    <3> QED BY <3>1, <3>2
  <2>5. gs[<<id, "saved">>].links > 0 => SavedIn(gs, id, gs[<<id, "saved">>].value)
    <3>1. CASE <<id, "saved">> = name
      <4>1. asks[r].op = "save" /\ asks[r].id = id
        BY <2>2, <3>1
      <4> QED BY <1>2, <2>2, <3>1, <4>1, StillExplained
    <3>2. CASE <<id, "saved">> # name
      <4>1. gs[<<id, "saved">>] = files[<<id, "saved">>]
        BY <2>1, <3>2
      <4>2. files[<<id, "saved">>].links > 0 => SavedIn(files, id, files[<<id, "saved">>].value)
        BY DEF JourneyInv, GoodFiles
      <4> QED BY <1>2, <4>1, <4>2, StillExplained
    <3> QED BY <3>1, <3>2
  <2> QED BY <2>3, <2>4, <2>5
<1> QED BY <1>2, <1>3, <1>4 DEF GoodFiles

\* A request that staged its bytes has linked them, or found the name taken.
LEMMA LinkKeepsInv ==
  ASSUME JourneyInv, NEW r \in Askers, LinkExclusively(r)
  PROVE  JourneyInv'
<1> DEFINE name == <<asks[r].id, KindOf(asks[r].op)>>
<1>1. /\ asks[r].pc = "staged" /\ asks[r].pc # "idle" /\ Staging(asks[r])
      /\ asks' = [asks EXCEPT ![r].pc = "linked"] /\ UNCHANGED <<orphans, flock, captures>>
  BY DEF LinkExclusively, Staging
<1>2. name \in Names
  BY <1>1, BusyIsBegun
<1>3. /\ DOMAIN asks' = Askers /\ asks' = [q \in Askers |-> asks'[q]]
      /\ asks'[r] = [asks[r] EXCEPT !.pc = "linked"] /\ \A q \in Askers \ {r} : asks'[q] = asks[q]
  BY <1>1 DEF JourneyInv
<1>4. asks'[r].pc = "linked" /\ asks'[r].op = asks[r].op /\ asks'[r].id = asks[r].id
      /\ asks'[r].value = asks[r].value
  BY <1>1, <1>3, BusyIsBegun DEF Begun
<1>5. LockIsHeld'
  BY <1>1, <1>3, <1>4 DEF JourneyInv, LockIsHeld, Staging
<1>6. GoodFiles(files) /\ DOMAIN files = Names
  BY DEF JourneyInv, GoodFiles
<1>7. CASE files[name].links = 0 /\ files' = [files EXCEPT ![name] = [links |-> 2, value |-> asks[r].value]]
  <2>1. /\ DOMAIN files' = Names /\ files' = [f \in Names |-> files'[f]]
        /\ files'[name] = [links |-> 2, value |-> asks[r].value]
        /\ \A f \in Names \ {name} : files'[f] = files[f]
    BY <1>2, <1>6, <1>7
  <2>2. GoodFiles(files') /\ FilesGrow(files, files')
    BY <1>1, <1>7, <2>1, LinkFits
  <2>3. \A q \in Askers \ {r} : GoodAsk(files', asks'[q])
    BY <1>3, <2>2, AsksStayGood DEF JourneyInv
  <2>4. GoodAsk(files', asks'[r])
    <3>1. GoodAsk(files', asks[r])
      BY <2>2, AsksStayGood DEF JourneyInv
    <3>2. GoodRequest(files', asks[r])
      BY <1>1, <3>1 DEF GoodAsk
    <3>3. files'[name].links > 0
      BY <2>1
    <3>4. asks'[r] = [pc |-> asks'[r].pc, op |-> asks'[r].op, id |-> asks'[r].id, value |-> asks'[r].value,
                      snapshot |-> asks'[r].snapshot, explanation |-> asks'[r].explanation,
                      reply |-> asks'[r].reply]
      BY <1>3, <3>2 DEF GoodRequest
    <3> QED BY <1>4, <3>2, <3>3, <3>4 DEF GoodAsk, GoodRequest
  <2>5. Budget'
    <3>1. Stored' = Stored \cup {name} /\ name \notin Stored
      BY <1>2, <1>7, <2>1 DEF Stored
    <3>2. TwiceLinked' = TwiceLinked \cup {name} /\ name \notin TwiceLinked
      BY <1>2, <1>7, <2>1 DEF TwiceLinked
    <3>3. /\ Cardinality(Stored') = Cardinality(Stored) + 1
          /\ Cardinality(TwiceLinked') = Cardinality(TwiceLinked) + 1
      BY <3>1, <3>2, StoreCounts, FS_AddElement
    <3> QED BY <1>1, <3>3, StoreCounts, JourneyAssumption DEF Budget, Entries, JourneyInv
  <2>6. \A q \in Askers : GoodAsk(files', asks'[q])
    BY <2>3, <2>4
  <2> QED BY <1>1, <1>3, <1>5, <2>2, <2>5, <2>6 DEF JourneyInv
<1>8. CASE files[name].links # 0 /\ files' = files
  <2>1. files[name].links > 0
    BY <1>2, <1>6, <1>8 DEF GoodFiles, NoArtifact
  <2>2. GoodAsk(files, asks'[r])
    BY <1>1, <1>3, <2>1, MovedOn
  <2>3. \A q \in Askers : GoodAsk(files', asks'[q])
    BY <1>3, <1>8, <2>2 DEF JourneyInv
  <2>4. Budget'
    BY <1>1, <1>8 DEF JourneyInv, Budget, Entries, Stored, TwiceLinked
  <2> QED BY <1>1, <1>3, <1>5, <1>6, <1>8, <2>3, <2>4 DEF JourneyInv
<1> QED BY <1>7, <1>8 DEF LinkExclusively

LEMMA PublishKeepsInv ==
  ASSUME JourneyInv, NEW r \in Askers, Publish(r)
  PROVE  JourneyInv'
<1> DEFINE name == <<asks[r].id, KindOf(asks[r].op)>>
<1>1. /\ asks[r].pc = "linked" /\ asks[r].pc # "idle" /\ Staging(asks[r])
      /\ asks' = [asks EXCEPT ![r].pc = "reread"] /\ flock' = {} /\ UNCHANGED <<orphans, captures>>
      /\ files' = [files EXCEPT ![name].links = 1]
  BY DEF Publish, Staging
<1>2. name \in Names /\ GoodRequest(files, asks[r])
  BY <1>1, BusyIsBegun
<1>3. files[name].links > 0
  BY <1>1, <1>2 DEF GoodRequest
<1>4. GoodFiles(files) /\ DOMAIN files = Names
  BY DEF JourneyInv, GoodFiles
<1>5. files[name].links \in {1, 2} /\ files[name] = [links |-> files[name].links, value |-> files[name].value]
  BY <1>2, <1>3, <1>4 DEF GoodFiles, NoArtifact
<1>6. /\ DOMAIN files' = Names /\ files' = [f \in Names |-> files'[f]]
      /\ files'[name] = [links |-> 1, value |-> files[name].value]
      /\ \A f \in Names \ {name} : files'[f] = files[f]
  <2>1. files'[name] = [files[name] EXCEPT !.links = 1]
    BY <1>1, <1>2, <1>4
  <2> QED BY <1>1, <1>2, <1>4, <1>5, <2>1
<1>7. \A f \in Names : /\ files'[f].value = files[f].value
                       /\ files'[f].links > 0 <=> files[f].links > 0
  BY <1>3, <1>6
<1>8. FilesGrow(files, files')
  BY <1>7 DEF FilesGrow
<1>9. GoodFiles(files')
  <2>1. ASSUME NEW id \in Identifiers
        PROVE  /\ files'[<<id, "snapshot">>].links > 0 => ContextIsExact(files'[<<id, "snapshot">>].value)
               /\ files'[<<id, "explanation">>].links > 0 => ExplainedIn(files', id, files'[<<id, "explanation">>].value)
               /\ files'[<<id, "saved">>].links > 0 => SavedIn(files', id, files'[<<id, "saved">>].value)
    <3>1. <<id, "snapshot">> \in Names /\ <<id, "explanation">> \in Names /\ <<id, "saved">> \in Names
      BY DEF Names, ArtifactKinds
    <3>2. /\ files[<<id, "snapshot">>].links > 0 => ContextIsExact(files[<<id, "snapshot">>].value)
          /\ files[<<id, "explanation">>].links > 0 => ExplainedIn(files, id, files[<<id, "explanation">>].value)
          /\ files[<<id, "saved">>].links > 0 => SavedIn(files, id, files[<<id, "saved">>].value)
      BY <1>4 DEF GoodFiles
    <3> QED BY <1>7, <1>8, <3>1, <3>2, StillExplained
  <2>2. \A f \in Names : \/ files'[f] = NoArtifact
                         \/ /\ files'[f].links \in {1, 2}
                            /\ files'[f] = [links |-> files'[f].links, value |-> files'[f].value]
    BY <1>4, <1>6 DEF GoodFiles
  <2> QED BY <1>6, <2>1, <2>2 DEF GoodFiles
<1>10. /\ DOMAIN asks' = Askers /\ asks' = [q \in Askers |-> asks'[q]]
       /\ asks'[r] = [asks[r] EXCEPT !.pc = "reread"] /\ \A q \in Askers \ {r} : asks'[q] = asks[q]
  BY <1>1 DEF JourneyInv
<1>11. GoodAsk(files, asks'[r]) /\ asks'[r].pc = "reread"
  BY <1>1, <1>2, <1>10, MovedOn DEF GoodRequest
<1>12. \A q \in Askers : GoodAsk(files', asks'[q])
  BY <1>8, <1>10, <1>11, AsksStayGood DEF JourneyInv
<1>13. LockIsHeld'
  <2>1. \A q \in Askers : ~Staging(asks'[q])
    BY <1>1, <1>10, <1>11, LockHolder DEF Staging
  <2> QED BY <1>1, <2>1 DEF LockIsHeld
<1>14. Budget'
  <2>1. Cardinality(flock) = 1 /\ Cardinality(flock') = 0
    BY <1>1, LockHolder, FS_EmptySet
  <2>2. Stored' = Stored
    BY <1>7 DEF Stored
  <2>3. TwiceLinked' = TwiceLinked \ {name}
    BY <1>2, <1>6 DEF TwiceLinked
  <2>4. Cardinality(TwiceLinked') >= Cardinality(TwiceLinked) - 1 /\ Cardinality(TwiceLinked') \in Nat
    <3>1. PICK T : T = TwiceLinked
      OBVIOUS
    <3>2. IsFiniteSet(T) /\ Cardinality(T) \in Nat
      BY <3>1, StoreCounts
    <3>3. Cardinality(T \ {name}) = IF name \in T THEN Cardinality(T) - 1 ELSE Cardinality(T)
      BY <3>2, FS_RemoveElement
    <3>4. Cardinality(T \ {name}) \in Nat
      BY <3>2, FS_RemoveElement, FS_CardinalityType
    <3> QED BY <2>3, <3>1, <3>2, <3>3, <3>4
  <2> QED BY <1>1, <2>1, <2>2, <2>4, StoreCounts, JourneyAssumption DEF Budget, Entries, JourneyInv
<1> QED BY <1>1, <1>9, <1>10, <1>12, <1>13, <1>14 DEF JourneyInv

LEMMA JourneyStarts ==
  ASSUME JourneyInit
  PROVE  JourneyInv
<1>1. files = [f \in Names |-> NoArtifact] /\ asks = [r \in Askers |-> IdleAsk]
  BY DEF JourneyInit, Names
<1>2. GoodFiles(files)
  <2>1. \A f \in Names : files[f] = NoArtifact /\ ~(files[f].links > 0)
    BY <1>1 DEF NoArtifact
  <2>2. \A id \in Identifiers : /\ <<id, "snapshot">> \in Names /\ <<id, "explanation">> \in Names
                                /\ <<id, "saved">> \in Names
    BY DEF Names, ArtifactKinds
  <2> QED BY <1>1, <2>1, <2>2 DEF GoodFiles
<1>3. \A r \in Askers : GoodAsk(files, asks[r]) /\ ~Staging(asks[r])
  BY <1>1, IdleIsGood
<1>4. LockIsHeld
  BY <1>3 DEF LockIsHeld, JourneyInit
<1>5. Budget
  <2>1. Stored = {} /\ TwiceLinked = {}
    BY <1>1 DEF Stored, TwiceLinked, NoArtifact
  <2>2. Cardinality({}) = 0
    BY FS_EmptySet
  <2> QED BY <2>1, <2>2, JourneyAssumption DEF Budget, Entries, JourneyInit
<1> QED BY <1>1, <1>2, <1>3, <1>4, <1>5 DEF JourneyInv, JourneyInit

LEMMA JourneyIdles ==
  ASSUME JourneyInv, UNCHANGED <<files, orphans, flock, asks, captures>>
  PROVE  JourneyInv'
<1>1. LockIsHeld' /\ Budget'
  BY DEF JourneyInv, LockIsHeld, Budget, Entries, Stored, TwiceLinked
<1> QED BY <1>1 DEF JourneyInv

LEMMA JourneySteps ==
  ASSUME JourneyInv, [JourneyNext]_journeyVars
  PROVE  JourneyInv'
<1>1. CASE UNCHANGED journeyVars
  BY <1>1, JourneyIdles DEF journeyVars
<1>2. CASE ChangeCustody
  BY <1>2, JourneyIdles DEF ChangeCustody
<1>3. CASE JourneyCrash
  BY <1>3, CrashKeepsInv
<1>4. ASSUME NEW r \in Askers, NEW d \in Detectors, NEW i \in DOMAIN Predictions,
             Capture(r, d, Predictions[i].target)
      PROVE  JourneyInv'
  BY <1>4, CaptureKeepsInv
<1>5. ASSUME NEW r \in Askers, NEW id \in Identifiers, Explain(r, id) \/ SaveRecord(r, id) \/ Reopen(r, id)
      PROVE  JourneyInv'
  BY <1>5, ExplainKeepsInv, SaveKeepsInv, ReopenKeepsInv
<1>6. ASSUME NEW r \in Askers,
             LookUp(r) \/ Stage(r) \/ SyncFails(r) \/ LinkExclusively(r) \/ Publish(r) \/ ReadBack(r)
      PROVE  JourneyInv'
  BY <1>6, LookUpKeepsInv, StageKeepsInv, SyncFailsKeepsInv, LinkKeepsInv, PublishKeepsInv, ReadBackKeepsInv
<1> QED BY <1>1, <1>2, <1>3, <1>4, <1>5, <1>6, Zenon DEF JourneyNext

\* The inductive invariant of the journey: no stored file is ever replaced,
\* every request still in flight would write what fits the stored files of its
\* identifier, every answer given is stored, the lock is held by exactly the
\* request that has bytes staged, and the store passes its limit by no more
\* than the second names of the files being published (JourneyStore.write,
\* JourneyStore.write_budget).
THEOREM JourneyInvariant == JourneySpec => []JourneyInv
<1>1. JourneyInit => JourneyInv
  BY JourneyStarts
<1>2. JourneyInv /\ [JourneyNext]_journeyVars => JourneyInv'
  BY JourneySteps
<1> QED BY <1>1, <1>2, PTL DEF JourneySpec

\* An answer given is the artifact stored for good, with its exact context, its
\* one snapshot and its one explanation, for every number of requests,
\* identifiers and saved predictions, and wherever the process dies.
THEOREM OneStory == JourneySpec => []JourneyIsOneStory
<1>1. ASSUME JourneyInv  PROVE JourneyIsOneStory
  <2>1. ASSUME NEW r \in Askers, asks[r].pc = "idle", asks[r].reply.status = "ok"
        PROVE  /\ files[<<asks[r].id, KindOf(asks[r].op)>>].value = asks[r].reply.value
               /\ asks[r].op = "capture" => ContextIsExact(asks[r].reply.value)
               /\ asks[r].op = "explain" =>
                     asks[r].reply.value.input = files[<<asks[r].id, "snapshot">>].value
               /\ asks[r].op \in {"save", "reopen"} =>
                     /\ asks[r].reply.value.snapshot = files[<<asks[r].id, "snapshot">>].value
                     /\ asks[r].reply.value.explanation = files[<<asks[r].id, "explanation">>].value
                     /\ asks[r].reply.value.explanation.input = asks[r].reply.value.snapshot
    <3>1. GoodReply(files, asks[r]) /\ GoodFiles(files)
      BY <1>1, <2>1 DEF JourneyInv, GoodAsk
    <3>2. PICK id \in Identifiers : id = asks[r].id
      BY <2>1, <3>1 DEF GoodReply
    <3>3. /\ files[<<id, "snapshot">>].links > 0 => ContextIsExact(files[<<id, "snapshot">>].value)
          /\ files[<<id, "explanation">>].links > 0 => ExplainedIn(files, id, files[<<id, "explanation">>].value)
          /\ files[<<id, "saved">>].links > 0 => SavedIn(files, id, files[<<id, "saved">>].value)
      BY <3>1 DEF GoodFiles
    <3>4. /\ files[<<id, KindOf(asks[r].op)>>].links > 0
          /\ files[<<id, KindOf(asks[r].op)>>].value = asks[r].reply.value
      BY <2>1, <3>1, <3>2 DEF GoodReply
    <3>5. asks[r].op = "capture" => ContextIsExact(asks[r].reply.value)
      BY <3>3, <3>4, KindsAreKinds
    <3>6. asks[r].op = "explain" => ExplainedIn(files, id, asks[r].reply.value)
      BY <3>3, <3>4, KindsAreKinds
    <3>7. asks[r].op \in {"save", "reopen"} => SavedIn(files, id, asks[r].reply.value)
      BY <3>3, <3>4, KindsAreKinds
    <3> QED BY <3>2, <3>4, <3>5, <3>6, <3>7 DEF ExplainedIn, SavedIn
  <2>2. TwiceLinked = {f \in DOMAIN files : files[f].links = 2}
    BY <1>1 DEF TwiceLinked, JourneyInv, GoodFiles
  <2>3. StoredFiles <= StoreFiles + Cardinality({f \in DOMAIN files : files[f].links = 2})
    BY <1>1, <2>2, StoreCounts DEF JourneyInv, Budget
  <2> QED BY <2>1, <2>3 DEF JourneyIsOneStory
<1> QED BY <1>1, JourneyInvariant, PTL
================================================================================
