------------------------------- MODULE Sessions -------------------------------
(***************************************************************************)
(* Authentication in the control API (internal/core/authentication.go,      *)
(* totp.go, session_management.go, identity.go, and the routes of           *)
(* internal/httpapi that call them): password login, the second factor,     *)
(* enrolment and removal of that factor, and browser sessions.              *)
(*                                                                          *)
(* A request is several database transactions with nothing held between     *)
(* them: it resolves its session, refreshes or expires it, is authorised,   *)
(* and writes.  The steps of different requests interleave, and a request   *)
(* may be abandoned after any of them (it is refused, its context ends with *)
(* the connection, a transaction fails).                                    *)
(* A transaction reads the clock in its own step.                           *)
(*                                                                          *)
(* Tokens, hashes and secrets are abstracted to the row they select: a      *)
(* token names its session, a TOTP code its secret and counter.  One unit   *)
(* of time is one TOTP period.  What a request presents (a code, an earlier *)
(* session's cookie, a target) is chosen when it is used.  Left out because *)
(* they only refuse or delay a request: the limiters of logins and codes,   *)
(* the derivation slots and the CSRF proof.                                 *)
(***************************************************************************)
EXTENDS Integers, Sequences, FiniteSets, FiniteSetsExt

CONSTANTS
  Callers,        \* requests that may be in flight together
  Identities,
  AbsoluteTTL,    \* passwordSessionAbsoluteTTL
  IdleTTL,        \* passwordSessionIdleTTL
  Touch,          \* passwordSessionTouch
  RecentTTL,      \* recentAuthenticationTTL
  ChallengeTTL,   \* mfaLoginChallengeTTL
  SetupTTL,       \* totpSetupTTL
  MaxAttempts,    \* totpMaximumAttempts
  RecoveryCodes,  \* recoveryCodeCount
  MaxTime, MaxSessions, MaxChallenges, MaxChanges

ASSUME SessionsAssumption ==
  /\ {AbsoluteTTL, IdleTTL, Touch, RecentTTL, ChallengeTTL, SetupTTL} \subseteq Nat \ {0}
  /\ {MaxAttempts, RecoveryCodes} \subseteq Nat \ {0}
  /\ {MaxTime, MaxSessions, MaxChallenges, MaxChanges} \subseteq Nat

VARIABLES
  clock,
  password,    \* password_credentials: the version of each identity's password
  sessions,    \* the sessions table, a row per session ever opened
  factors,     \* totp_factors with their unused recovery codes
  setups,      \* totp_setup_challenges
  challenges,  \* mfa_login_challenges
  calls,       \* what each request in flight holds between its transactions
  spent        \* every code accepted so far, and what it was accepted for

rows == <<sessions, factors, setups, challenges>>
vars == <<clock, password, sessions, factors, setups, challenges, calls, spent>>

None == 0
\* A request between two transactions: what it does next, for which class of
\* route, identity and session, and what it has read: a login the version of
\* the password, a request due to refresh its session the time.
Call(phase, class, i, s, seen) ==
  [phase |-> phase, class |-> class, identity |-> i, session |-> s, seen |-> seen]
Idle == Call("none", "none", None, None, None)

-------------------------------------------------------------------------------
(* What the rows say.                                                       *)

Live(s) == ~sessions[s].revoked
Open(s) ==
  /\ Live(s)
  /\ sessions[s].authenticatedAt <= clock
  /\ sessions[s].authenticatedAt + AbsoluteTTL > clock
  /\ sessions[s].lastSeen + IdleTTL > clock
Recent(s) == sessions[s].authenticatedAt >= clock - RecentTTL

\* The policy of identity.factors.manage and identity.sessions.manage.
Authorize(s) == Open(s) /\ Recent(s)
\* The same conditions, read again inside the transaction that writes.
requireSubjectSessionTx_Unrevoked(s) ==
  sessions[s].authenticatedAt + AbsoluteTTL > clock /\ Recent(s)
requireSubjectSessionTx(s) == Open(s) /\ Recent(s)

ActiveFactors(i) == {f \in DOMAIN factors : factors[f].identity = i /\ factors[f].status = "active"}
loadActiveTOTPFactorTx(i) == CHOOSE f \in ActiveFactors(i) : TRUE

revokeIdentitySessionsTx_Weak(i, kept) ==
  [s \in DOMAIN sessions |->
     IF sessions[s].identity = i /\ s # kept /\ sessions[s].level = "password"
     THEN [sessions[s] EXCEPT !.revoked = TRUE] ELSE sessions[s]]
revokeIdentitySessionsTx(i, kept) ==
  [s \in DOMAIN sessions |->
     IF Live(s) /\ sessions[s].identity = i /\ s # kept
     THEN [sessions[s] EXCEPT !.revoked = TRUE] ELSE sessions[s]]

-------------------------------------------------------------------------------
(* Codes.                                                                   *)

Totp(secret, counter) == [kind |-> "totp", of |-> secret, n |-> counter]
RecoveryCode(f, n) == [kind |-> "recovery", of |-> f, n |-> n]
Wrong == [kind |-> "wrong", of |-> None, n |-> 0]

matchTOTP_Again(secret, code, last) ==
  /\ code.kind = "totp" /\ code.of = secret
  /\ code.n \in {clock, clock - 1, clock + 1} /\ code.n >= 0 /\ code.n >= last
matchTOTP(secret, code, last) ==
  /\ code.kind = "totp" /\ code.of = secret
  /\ code.n \in {clock, clock - 1, clock + 1} /\ code.n >= 0 /\ code.n > last

\* The codes worth submitting for identity i: any other is Wrong.
Submitted(i) ==
  {Wrong} \cup
  UNION {{Totp(factors[f].secret, n) : n \in {clock - 1, clock, clock + 1} \cap Nat}
         \cup {RecoveryCode(f, n) : n \in 1..RecoveryCodes} : f \in ActiveFactors(i)}

verifyCurrentFactorTx(f, code) ==
  \/ matchTOTP(factors[f].secret, code, factors[f].lastUsed)
  \/ code.kind = "recovery" /\ code.of = f /\ code.n \in factors[f].codes
\* What an accepted code leaves of its factor.
Proved(f, code) ==
  IF code.kind = "totp" THEN [factors EXCEPT ![f].lastUsed = code.n]
                        ELSE [factors EXCEPT ![f].codes = @ \ {code.n}]
Spend(code, purpose, n) == spent' = spent \cup {[code |-> code, for |-> purpose, n |-> n]}

-------------------------------------------------------------------------------
Init ==
  /\ clock = 0
  /\ password = [i \in Identities |-> 1]
  /\ sessions = <<>> /\ factors = <<>> /\ setups = <<>> /\ challenges = <<>>
  /\ calls = [c \in Callers |-> Idle]
  /\ spent = {}

Tick == clock < MaxTime /\ clock' = clock + 1 /\ UNCHANGED <<password, rows, calls, spent>>

In(c, phase, class) == calls[c].phase = phase /\ calls[c].class = class
Ends(c) == calls' = [calls EXCEPT ![c] = Idle]
Goes(c, call) == calls' = [calls EXCEPT ![c] = call]
\* New passwords and factors begun, bounded together.
Changes == Len(setups) + MapThenSumSet(LAMBDA i : password[i] - 1, Identities)

\* The request is refused, its client goes away, or a transaction fails: what
\* it has committed stays.
Abandon(c) == calls[c] # Idle /\ Ends(c) /\ UNCHANGED <<clock, password, rows, spent>>

-------------------------------------------------------------------------------
(* POST /api/v1/login.                                                      *)

\* The credential is read before the slow derivation.
loadPasswordCandidate(c, i) ==
  /\ calls[c] = Idle
  /\ Goes(c, Call("derive", "login", i, None, password[i]))
  /\ UNCHANGED <<clock, password, rows, spent>>

revalidatePasswordCandidateTx_Trusting(i, seen) == TRUE
revalidatePasswordCandidateTx(i, seen) == password[i] = seen
resolvePreviousSessionIDTx(s, i) ==
  IF s # None /\ Live(s) /\ sessions[s].identity = i THEN s ELSE None
rotatePreviousSessionTx(s) ==
  IF s # None /\ Live(s) THEN [sessions EXCEPT ![s].revoked = TRUE] ELSE sessions

NewSession(i, level, factor, challenge, version) ==
  [identity |-> i, authenticatedAt |-> clock, lastSeen |-> clock, revoked |-> FALSE,
   level |-> level, factor |-> factor, challenge |-> challenge, password |-> version]

\* The transaction of a login whose password was right: a session if the
\* identity has no second factor, a challenge if it has one.
PasswordLogin(c) == \E previous \in {None} \cup DOMAIN sessions :
  LET i == calls[c].identity IN
  /\ In(c, "derive", "login")
  /\ revalidatePasswordCandidateTx(i, calls[c].seen)
  /\ \/ /\ ActiveFactors(i) # {}
        /\ Len(challenges) < MaxChallenges
        /\ challenges' = Append(
             [k \in DOMAIN challenges |->
                [challenges[k] EXCEPT !.consumed = @ \/ challenges[k].identity = i]],
             [identity |-> i, previous |-> resolvePreviousSessionIDTx(previous, i),
              expires |-> clock + ChallengeTTL, consumed |-> FALSE, attempts |-> 0])
        /\ UNCHANGED sessions
     \/ /\ ActiveFactors(i) = {}
        /\ Len(sessions) < MaxSessions
        /\ sessions' = Append(rotatePreviousSessionTx(previous),
                              NewSession(i, "password", None, None, calls[c].seen))
        /\ UNCHANGED challenges
  /\ Ends(c)
  /\ UNCHANGED <<clock, password, factors, setups, spent>>

-------------------------------------------------------------------------------
(* POST /api/v1/login/mfa.                                                  *)

\* A challenge that can no longer be met is consumed.
ConsumeChallenge(c, k, i) ==
  /\ \/ challenges[k].expires <= clock
     \/ challenges[k].attempts >= MaxAttempts
     \/ ActiveFactors(i) = {}
  /\ challenges' = [challenges EXCEPT ![k].consumed = TRUE]
  /\ Ends(c)
  /\ UNCHANGED <<sessions, factors, spent>>

\* A wrong code is counted against the challenge, in the same transaction.
CountAttempt(c, k, i) ==
  /\ challenges' = [challenges EXCEPT ![k].attempts = @ + 1,
                                      ![k].consumed = challenges[k].attempts + 1 >= MaxAttempts]
  /\ Ends(c)
  /\ UNCHANGED <<sessions, factors, spent>>

\* A right one opens the session that the password alone did not.
OpenSession(c, k, i, f, code) ==
  /\ Len(sessions) < MaxSessions
  /\ factors' = Proved(f, code)
  /\ challenges' = [challenges EXCEPT ![k].consumed = TRUE]
  /\ sessions' = Append(rotatePreviousSessionTx(challenges[k].previous),
                        NewSession(i, code.kind, f, k, None))
  /\ Spend(code, "session", Len(sessions) + 1)
  /\ Ends(c)

CompleteMFALogin(c) == \E k \in DOMAIN challenges :
  LET i == challenges[k].identity
      f == loadActiveTOTPFactorTx(i)
  IN
  /\ calls[c] = Idle
  /\ ~challenges[k].consumed
  /\ \/ ConsumeChallenge(c, k, i)
     \/ /\ challenges[k].expires > clock
        /\ challenges[k].attempts < MaxAttempts
        /\ ActiveFactors(i) # {}
        /\ \E code \in Submitted(i) :
             \/ ~verifyCurrentFactorTx(f, code) /\ CountAttempt(c, k, i)
             \/ verifyCurrentFactorTx(f, code) /\ OpenSession(c, k, i, f, code)
  /\ UNCHANGED <<clock, password, setups>>

-------------------------------------------------------------------------------
(* Requests under a session (authenticateBrowserSession, then a route).     *)

\* Routes that manage the factor or sessions, and the others (logout, reads).
\* The authorisation of the first is only used to refuse, so it is read here
\* with the session.
Classes == {"manage", "other"}
Allowed(s, class) == class = "manage" => Authorize(s)

\* AuthenticateSession reads the row: expired, due for a refresh, or neither.
AuthenticateSession(c, s, class) ==
  LET i == sessions[s].identity
      due == sessions[s].lastSeen + Touch <= clock
  IN
  /\ calls[c] = Idle
  /\ Live(s)
  /\ \/ ~Open(s) /\ Goes(c, Call("expire", "any", None, s, None))
     \/ Open(s) /\ Allowed(s, class) /\ due /\ Goes(c, Call("touch", class, i, s, clock))
     \/ Open(s) /\ Allowed(s, class) /\ ~due /\ Goes(c, Call("write", class, i, s, None))
  /\ UNCHANGED <<clock, password, rows, spent>>

expireSession(c) ==
  LET s == calls[c].session IN
  /\ calls[c].phase = "expire"
  /\ sessions' = [sessions EXCEPT ![s].revoked = TRUE]
  /\ Ends(c)
  /\ UNCHANGED <<clock, password, factors, setups, challenges, spent>>

\* The refresh writes the time sampled before the row was read, if the session
\* still stands.
TouchSession(c) ==
  LET s == calls[c].session IN
  /\ calls[c].phase = "touch"
  /\ Live(s)
  /\ sessions' = [sessions EXCEPT ![s].lastSeen = calls[c].seen]
  /\ calls' = [calls EXCEPT ![c].phase = "write", ![c].seen = None]
  /\ UNCHANGED <<clock, password, factors, setups, challenges, spent>>

\* POST /api/v1/logout.
RevokeSession(c) ==
  LET s == calls[c].session IN
  /\ In(c, "write", "other")
  /\ Live(s)
  /\ sessions' = [sessions EXCEPT ![s].revoked = TRUE]
  /\ Ends(c)
  /\ UNCHANGED <<clock, password, factors, setups, challenges, spent>>

\* The transaction of a managing request, by a session that stands.
Subject(c) == In(c, "write", "manage") /\ requireSubjectSessionTx(calls[c].session)

RevokeManagedSession(c) == \E target \in DOMAIN sessions :
  /\ Subject(c)
  /\ Live(target) /\ sessions[target].identity = calls[c].identity
  /\ sessions' = [sessions EXCEPT ![target].revoked = TRUE]
  /\ Ends(c)
  /\ UNCHANGED <<clock, password, factors, setups, challenges, spent>>

RevokeAllManagedSessions(c) == \E kept \in {None, calls[c].session} :
  /\ Subject(c)
  /\ sessions' = revokeIdentitySessionsTx(calls[c].identity, kept)
  /\ Ends(c)
  /\ UNCHANGED <<clock, password, factors, setups, challenges, spent>>

-------------------------------------------------------------------------------
(* The second factor.                                                       *)

OpenSetup(k) == ~setups[k].consumed
replaceSetups_Kept(i) == setups
replaceSetups(i) ==
  [k \in DOMAIN setups |->
     IF OpenSetup(k) /\ setups[k].identity = i THEN [setups[k] EXCEPT !.consumed = TRUE]
     ELSE setups[k]]

\* The proof a factor's owner gives: a code of the active factor.
ProvesFactor_Any(i, code) == ActiveFactors(i) # {}
ProvesFactor(i, code) ==
  ActiveFactors(i) # {} /\ verifyCurrentFactorTx(loadActiveTOTPFactorTx(i), code)

BeginTOTPEnrollment(c) ==
  LET i == calls[c].identity
      f == loadActiveTOTPFactorTx(i)
  IN
  /\ Subject(c)
  /\ Changes < MaxChanges
  /\ \/ ActiveFactors(i) = {} /\ UNCHANGED <<factors, spent>>
     \/ \E code \in Submitted(i) :
          /\ ProvesFactor(i, code)
          /\ factors' = Proved(f, code)
          /\ Spend(code, "setup", Len(setups) + 1)
  /\ setups' = Append(replaceSetups(i),
       [identity |-> i, session |-> calls[c].session, consumed |-> FALSE, attempts |-> 0,
        replaces |-> IF ActiveFactors(i) = {} THEN None ELSE f,
        expires |-> clock + SetupTTL])
  /\ Ends(c)
  /\ UNCHANGED <<clock, password, sessions, challenges>>

\* loadTOTPSetupTx: a setup is confirmed by the session that began it.
loadTOTPSetupTx(c, k) ==
  OpenSetup(k) /\ setups[k].identity = calls[c].identity /\ setups[k].session = calls[c].session

\* A setup past its time, or a wrong code for it.
RefuseConfirmation(c) == \E k \in DOMAIN setups :
  /\ Subject(c)
  /\ loadTOTPSetupTx(c, k)
  /\ setups' = IF setups[k].expires <= clock THEN [setups EXCEPT ![k].consumed = TRUE]
               ELSE [setups EXCEPT ![k].attempts = @ + 1,
                       ![k].consumed = setups[k].attempts + 1 >= MaxAttempts]
  /\ Ends(c)
  /\ UNCHANGED <<clock, password, sessions, factors, challenges, spent>>

ConfirmTOTPEnrollment(c) == \E k \in DOMAIN setups :
  LET i == calls[c].identity
      new == [identity |-> i, secret |-> k, status |-> "active", lastUsed |-> -1,
              codes |-> 1..RecoveryCodes]
  IN
  /\ Subject(c)
  /\ loadTOTPSetupTx(c, k)
  /\ setups[k].expires > clock
  /\ ActiveFactors(i) = {setups[k].replaces} \ {None}
  /\ \E n \in {clock - 1, clock, clock + 1} \cap Nat :
       /\ matchTOTP(k, Totp(k, n), -1)
       /\ factors' = Append([f \in DOMAIN factors |->
                       IF f \in ActiveFactors(i) THEN [factors[f] EXCEPT !.status = "replaced"]
                       ELSE factors[f]], [new EXCEPT !.lastUsed = n])
       /\ Spend(Totp(k, n), "factor", Len(factors) + 1)
  /\ setups' = [setups EXCEPT ![k].consumed = TRUE]
  /\ sessions' = revokeIdentitySessionsTx(i, None)
  /\ Ends(c)
  /\ UNCHANGED <<clock, password, challenges>>

DisableTOTP(c) ==
  LET i == calls[c].identity
      f == loadActiveTOTPFactorTx(i)
  IN
  /\ Subject(c)
  /\ \E code \in Submitted(i) :
       /\ ProvesFactor(i, code)
       /\ factors' = [Proved(f, code) EXCEPT ![f].status = "removed"]
       /\ Spend(code, "removal", f)
  /\ setups' = replaceSetups(i)
  /\ sessions' = revokeIdentitySessionsTx(i, None)
  /\ Ends(c)
  /\ UNCHANGED <<clock, password, challenges>>

-------------------------------------------------------------------------------
\* A new password ends every session of its identity.
SetPasswordCredential(i) ==
  /\ Changes < MaxChanges
  /\ password' = [password EXCEPT ![i] = @ + 1]
  /\ sessions' = revokeIdentitySessionsTx(i, None)
  /\ UNCHANGED <<clock, factors, setups, challenges, calls, spent>>

Next ==
  \/ Tick
  \/ \E i \in Identities : SetPasswordCredential(i)
  \/ \E c \in Callers :
       \/ Abandon(c)
       \/ \E i \in Identities : loadPasswordCandidate(c, i)
       \/ PasswordLogin(c) \/ CompleteMFALogin(c)
       \/ \E s \in DOMAIN sessions, class \in Classes : AuthenticateSession(c, s, class)
       \/ expireSession(c) \/ TouchSession(c)
       \/ RevokeSession(c) \/ RevokeManagedSession(c) \/ RevokeAllManagedSessions(c)
       \/ BeginTOTPEnrollment(c)
       \/ RefuseConfirmation(c) \/ ConfirmTOTPEnrollment(c) \/ DisableTOTP(c)

Spec == Init /\ [][Next]_vars

-------------------------------------------------------------------------------
(* Properties.                                                              *)

\* Once a factor is active, every session that stands was opened with that
\* factor: enrolment, replacement and removal leave no session from before,
\* and no login that overlaps them slips one in afterwards.
SecondFactorHonoured ==
  \A s \in DOMAIN sessions : Live(s) =>
    sessions[s].factor = (IF ActiveFactors(sessions[s].identity) = {} THEN None
                          ELSE loadActiveTOTPFactorTx(sessions[s].identity))

\* A TOTP or recovery code is accepted at most once, whatever it is used for:
\* confirming the factor, opening a session, a new setup or the removal.
CodesSpentOnce == \A x, y \in spent : x.code = y.code => x = y

\* An identity has at most one active factor, one open setup and one open
\* challenge, and a challenge opens at most one session.
OneOfEach ==
  /\ \A i \in Identities :
       /\ Cardinality(ActiveFactors(i)) <= 1
       /\ Cardinality({k \in DOMAIN setups : OpenSetup(k) /\ setups[k].identity = i}) <= 1
       /\ Cardinality({k \in DOMAIN challenges : ~challenges[k].consumed /\ challenges[k].identity = i}) <= 1
  /\ \A r, s \in DOMAIN sessions :
       sessions[r].challenge = sessions[s].challenge /\ sessions[r].challenge # None => r = s

\* A factor is only ever replaced or removed by someone who gave a code of
\* that factor for it, at the start of the setup or with the removal.
FactorChangeProved ==
  \A f \in DOMAIN factors : factors[f].status # "active" =>
    \E x \in spent :
      /\ x.for \in {"setup", "removal"}
      /\ x.code \in {RecoveryCode(f, n) : n \in 1..RecoveryCodes}
                    \cup {Totp(factors[f].secret, n) : n \in 0..(MaxTime + 1)}

\* A session opened by the password alone stands only while that password is
\* the current one, even if the password changed while the login was deriving.
PasswordCurrent ==
  \A s \in DOMAIN sessions :
    Live(s) /\ sessions[s].level = "password" => sessions[s].password = password[sessions[s].identity]

\* Requests under a session change factors, setups and other sessions only
\* while that session stands: a revocation between a request's authorisation
\* and its transaction stops it ("a revoked or stale session cannot race the
\* mutation", self_service.go).
RevokedCannotAct ==
  [][\A c \in Callers :
       /\ calls[c].phase = "write" /\ calls'[c] # calls[c]
       /\ rows' # rows
       => Live(calls[c].session)]_vars

================================================================================
