---------------------------- MODULE SessionsProofs ----------------------------
(***************************************************************************)
(* What authentication promises, proved for any number of identities,       *)
(* requests in flight, sessions, factors and challenges, and any lifetimes: *)
(* the second factor is honoured, a code is accepted once, a new password   *)
(* ends what the old one opened, and a revoked session changes nothing.     *)
(***************************************************************************)
EXTENDS Sessions, TLAPS

-------------------------------------------------------------------------------
(* The rows.                                                                *)

SessionRow ==
  [identity : Identities, authenticatedAt : Nat, lastSeen : Nat, revoked : BOOLEAN,
   level : {"password", "totp", "recovery"}, factor : Nat, challenge : Nat, password : Nat]
FactorRow ==
  [identity : Identities, secret : Nat, status : {"active", "replaced", "removed"},
   lastUsed : Int, codes : SUBSET Nat]
SetupRow ==
  [identity : Identities, session : Nat, consumed : BOOLEAN, attempts : Nat,
   replaces : Nat, expires : Nat]
ChallengeRow ==
  [identity : Identities, previous : Nat, expires : Nat, consumed : BOOLEAN, attempts : Nat]
Code == [kind : {"totp", "recovery", "wrong"}, of : Nat, n : Nat]

\* A request past its first transaction names an identity, one past
\* AuthenticateSession a session.
CallRow ==
  [phase : {"none", "derive", "expire", "touch", "write"},
   class : {"none", "login", "any"} \cup Classes,
   identity : Identities \cup {None}, session : Nat, seen : Nat]
CallInv ==
  /\ calls \in [Callers -> CallRow]
  /\ \A c \in Callers :
       /\ calls[c].phase \in {"derive", "touch", "write"} => calls[c].identity \in Identities
       /\ calls[c].phase \in {"expire", "touch", "write"} => calls[c].session \in DOMAIN sessions

TypeInv ==
  /\ clock \in Nat
  /\ password \in [Identities -> Nat]
  /\ sessions \in Seq(SessionRow)
  /\ factors \in Seq(FactorRow)
  /\ setups \in Seq(SetupRow)
  /\ challenges \in Seq(ChallengeRow)
  /\ \A k \in DOMAIN challenges : challenges[k].previous \in {None} \cup DOMAIN sessions
  /\ CallInv

\* The setup that a factor's secret comes from is consumed, and it is no other
\* factor's.
SecretInv ==
  \A f \in DOMAIN factors :
    /\ factors[f].secret \in DOMAIN setups /\ setups[factors[f].secret].consumed
    /\ \A g \in DOMAIN factors : factors[g].secret = factors[f].secret => g = f

\* A factor remembers every code it has accepted, and the secret of a setup that
\* is still open has no code accepted.
Recorded(code) ==
  \/ /\ code.kind = "totp"
     /\ code.of \in DOMAIN setups /\ setups[code.of].consumed
     /\ \A f \in DOMAIN factors : factors[f].secret = code.of => code.n <= factors[f].lastUsed
  \/ /\ code.kind = "recovery"
     /\ code.of \in DOMAIN factors /\ code.n \notin factors[code.of].codes
SpentInv == \A x \in spent : x.code \in Code /\ Recorded(x.code)

CodeInv == SecretInv /\ SpentInv

-------------------------------------------------------------------------------
(* What the writes do to the rows.                                          *)

\* Sessions age: they keep what they were opened with, and revocation is final.
Ages(new) ==
  /\ new \in Seq(SessionRow) /\ Len(new) = Len(sessions)
  /\ \A s \in DOMAIN sessions :
       /\ new[s].identity = sessions[s].identity /\ new[s].factor = sessions[s].factor
       /\ new[s].level = sessions[s].level /\ new[s].password = sessions[s].password
       /\ ~new[s].revoked => ~sessions[s].revoked

\* Rows numbered from one are a sequence.
LEMMA RowsMade ==
  ASSUME NEW S, NEW n \in Nat, NEW f, f = [k \in 1..n |-> f[k]], \A k \in 1..n : f[k] \in S
  PROVE  f \in Seq(S) /\ Len(f) = n
<1>1. f \in [1..n -> S]
  OBVIOUS
<1> QED
  BY <1>1

LEMMA Appended ==
  ASSUME NEW S, NEW q \in Seq(S), NEW e \in S
  PROVE  /\ Append(q, e) \in Seq(S) /\ Len(Append(q, e)) = Len(q) + 1
         /\ \A k \in DOMAIN Append(q, e) :
              \/ k \in DOMAIN q /\ Append(q, e)[k] = q[k]
              \/ k = Len(q) + 1 /\ Append(q, e)[k] = e
         /\ \A k \in DOMAIN q : k \in DOMAIN Append(q, e) /\ Append(q, e)[k] = q[k]
  OBVIOUS

LEMMA SameAges == ASSUME sessions \in Seq(SessionRow) PROVE Ages(sessions)
  BY DEF Ages

\* A row that is the old one but for its times, or revoked.
Aged(row, s) ==
  /\ row \in SessionRow
  /\ row.identity = sessions[s].identity /\ row.factor = sessions[s].factor
  /\ row.level = sessions[s].level /\ row.password = sessions[s].password
  /\ ~row.revoked => ~sessions[s].revoked

LEMMA RevokedRow ==
  ASSUME sessions \in Seq(SessionRow), NEW s \in DOMAIN sessions
  PROVE  LET row == [sessions[s] EXCEPT !.revoked = TRUE] IN Aged(row, s) /\ row.revoked
<1>1. sessions[s] \in SessionRow
  OBVIOUS
<1> QED
  BY ZenonT(60), <1>1 DEF Aged, SessionRow

LEMMA RowAges ==
  ASSUME sessions \in Seq(SessionRow), NEW s \in DOMAIN sessions, NEW row, Aged(row, s)
  PROVE  Ages([sessions EXCEPT ![s] = row])
  BY DEF Ages, Aged

LEMMA RevokedAges ==
  ASSUME sessions \in Seq(SessionRow), NEW s \in DOMAIN sessions
  PROVE  Ages([sessions EXCEPT ![s].revoked = TRUE])
  BY RevokedRow, RowAges

LEMMA TouchedAges ==
  ASSUME sessions \in Seq(SessionRow), NEW s \in DOMAIN sessions, NEW t \in Nat
  PROVE  Ages([sessions EXCEPT ![s].lastSeen = t])
<1> DEFINE row == [sessions[s] EXCEPT !.lastSeen = t]
<1>1. sessions[s] \in SessionRow
  OBVIOUS
<1>2. Aged(row, s)
  BY ZenonT(60), <1>1 DEF Aged, SessionRow
<1> QED
  BY <1>2, RowAges

\* revokeIdentitySessionsTx leaves no session of the identity but the kept one.
LEMMA IdentityAges ==
  ASSUME sessions \in Seq(SessionRow), NEW i, NEW kept
  PROVE  /\ Ages(revokeIdentitySessionsTx(i, kept))
         /\ \A s \in DOMAIN sessions : sessions[s].identity = i /\ s # kept =>
              revokeIdentitySessionsTx(i, kept)[s].revoked
<1> DEFINE new == revokeIdentitySessionsTx(i, kept)
<1>1. new = [s \in 1..Len(sessions) |-> new[s]]
  BY DEF revokeIdentitySessionsTx
<1>2. ASSUME NEW s \in DOMAIN sessions
      PROVE  Aged(new[s], s) /\ (sessions[s].identity = i /\ s # kept => new[s].revoked)
  <2>1. CASE Live(s) /\ sessions[s].identity = i /\ s # kept
    <3>1. new[s] = [sessions[s] EXCEPT !.revoked = TRUE]
      BY <1>2, <2>1 DEF revokeIdentitySessionsTx
    <3> QED
      BY <3>1, RevokedRow
  <2>2. CASE ~(Live(s) /\ sessions[s].identity = i /\ s # kept)
    <3>1. new[s] = sessions[s]
      BY <1>2, <2>2 DEF revokeIdentitySessionsTx
    <3> QED
      BY <2>2, <3>1 DEF Aged, Live
  <2> QED
    BY <2>1, <2>2
<1> HIDE DEF new
<1>3. new \in Seq(SessionRow) /\ Len(new) = Len(sessions)
  <2>1. DOMAIN sessions = 1..Len(sessions) /\ Len(sessions) \in Nat
    OBVIOUS
  <2>2. \A s \in 1..Len(sessions) : new[s] \in SessionRow
    BY <1>2, <2>1 DEF Aged
  <2> QED
    BY <1>1, <2>1, <2>2, RowsMade
<1>4. Ages(new)
  BY <1>2, <1>3 DEF Ages, Aged
<1> QED
  BY <1>2, <1>4 DEF new

LEMMA RotatedAges ==
  ASSUME sessions \in Seq(SessionRow), NEW s \in {None} \cup DOMAIN sessions
  PROVE  Ages(rotatePreviousSessionTx(s))
  BY SameAges, RevokedAges DEF rotatePreviousSessionTx, None

\* A consumed setup stays consumed.
Works(new) ==
  /\ new \in Seq(SetupRow) /\ Len(new) = Len(setups)
  /\ \A k \in DOMAIN setups : setups[k].consumed => new[k].consumed

LEMMA SetupWorks ==
  ASSUME setups \in Seq(SetupRow), NEW k \in DOMAIN setups, NEW row \in SetupRow,
         setups[k].consumed => row.consumed
  PROVE  Works([setups EXCEPT ![k] = row])
  BY DEF Works

LEMMA ConsumedSetup ==
  ASSUME setups \in Seq(SetupRow), NEW k \in DOMAIN setups
  PROVE  /\ Works([setups EXCEPT ![k].consumed = TRUE])
         /\ [setups EXCEPT ![k].consumed = TRUE][k].consumed
<1> DEFINE row == [setups[k] EXCEPT !.consumed = TRUE]
<1>1. setups[k] \in SetupRow
  OBVIOUS
<1>2. row \in SetupRow /\ row.consumed
  BY ZenonT(60), <1>1 DEF SetupRow
<1> HIDE DEF row
<1>3. Works([setups EXCEPT ![k] = row]) /\ [setups EXCEPT ![k] = row][k] = row
  BY <1>2, SetupWorks
<1> QED
  BY ZenonT(60), <1>2, <1>3 DEF row

LEMMA AttemptedSetup ==
  ASSUME setups \in Seq(SetupRow), NEW k \in DOMAIN setups, OpenSetup(k), NEW b \in BOOLEAN
  PROVE  Works([setups EXCEPT ![k].attempts = @ + 1, ![k].consumed = b])
<1> DEFINE a == setups[k].attempts + 1
           row == [setups[k] EXCEPT !.attempts = a, !.consumed = b]
<1>1. setups[k] \in SetupRow
  OBVIOUS
<1>2. a \in Nat
  BY <1>1 DEF SetupRow
<1> HIDE DEF a
<1>5. row \in SetupRow
  BY ZenonT(60), <1>1, <1>2 DEF SetupRow
<1> HIDE DEF row
<1>3. Works([setups EXCEPT ![k] = row])
  BY <1>5, SetupWorks DEF OpenSetup
<1>4. [setups EXCEPT ![k].attempts = @ + 1, ![k].consumed = b] = [setups EXCEPT ![k] = row]
  BY ZenonT(60) DEF row, a
<1> QED
  BY <1>3, <1>4

LEMMA ReplacedSetups ==
  ASSUME setups \in Seq(SetupRow), NEW i
  PROVE  Works(replaceSetups(i))
<1> DEFINE new == replaceSetups(i)
<1>1. new = [k \in 1..Len(setups) |-> new[k]]
  BY DEF replaceSetups
<1>2. ASSUME NEW k \in DOMAIN setups
      PROVE  new[k] \in SetupRow /\ (setups[k].consumed => new[k].consumed)
  <2>0. setups[k] \in SetupRow
    OBVIOUS
  <2>1. [setups[k] EXCEPT !.consumed = TRUE] \in SetupRow
    BY ZenonT(60), <2>0 DEF SetupRow
  <2>2. new[k] \in {setups[k], [setups[k] EXCEPT !.consumed = TRUE]}
    BY DEF replaceSetups
  <2>3. setups[k].consumed => new[k] = setups[k]
    BY DEF replaceSetups, OpenSetup
  <2> QED
    BY ZenonT(60), <2>0, <2>1, <2>2, <2>3
<1> HIDE DEF new
<1>3. new \in Seq(SetupRow) /\ Len(new) = Len(setups)
  <2>1. DOMAIN setups = 1..Len(setups) /\ Len(setups) \in Nat
    OBVIOUS
  <2> QED
    BY <1>1, <1>2, <2>1, RowsMade
<1>4. Works(new)
  BY <1>2, <1>3 DEF Works
<1> QED
  BY <1>4 DEF new

\* A factor keeps its secret and what it has accepted.
Remembers(new) ==
  /\ new \in Seq(FactorRow) /\ Len(new) = Len(factors)
  /\ \A f \in DOMAIN factors :
       /\ new[f].identity = factors[f].identity /\ new[f].secret = factors[f].secret
       /\ factors[f].lastUsed <= new[f].lastUsed /\ new[f].codes \subseteq factors[f].codes

\* A factor also records a code that it accepts.
Records(new, f, code) ==
  /\ Remembers(new)
  /\ code.kind = "totp" => new[f].lastUsed = code.n
  /\ code.kind # "totp" => code.n \notin new[f].codes

LEMMA ProvedRecords ==
  ASSUME factors \in Seq(FactorRow), NEW f \in DOMAIN factors, NEW code \in Code,
         verifyCurrentFactorTx(f, code)
  PROVE  /\ Records(Proved(f, code), f, code)
         /\ \A g \in DOMAIN factors : Proved(f, code)[g].status = factors[g].status
<1>0. factors[f] \in FactorRow /\ code.n \in Int
  BY DEF Code
<1>3. ASSUME NEW row \in FactorRow
      PROVE  LET new == [factors EXCEPT ![f] = row]
             IN  /\ new \in Seq(FactorRow) /\ Len(new) = Len(factors)
                 /\ \A g \in DOMAIN factors : new[g] = IF g = f THEN row ELSE factors[g]
  OBVIOUS
<1>4. ASSUME NEW g \in DOMAIN factors PROVE factors[g].lastUsed \in Int
  <2>1. factors[g] \in FactorRow
    OBVIOUS
  <2> QED
    BY <2>1 DEF FactorRow
<1>1. CASE code.kind = "totp"
  <2> DEFINE row == [factors[f] EXCEPT !.lastUsed = code.n]
  <2>1. code.n > factors[f].lastUsed
    BY <1>1 DEF verifyCurrentFactorTx, matchTOTP
  <2>2. /\ row \in FactorRow /\ row.identity = factors[f].identity /\ row.secret = factors[f].secret
        /\ row.codes = factors[f].codes /\ row.status = factors[f].status /\ row.lastUsed = code.n
        /\ factors[f].lastUsed \in Int
    BY SMTT(60), <1>0 DEF FactorRow
  <2>3. Proved(f, code) = [factors EXCEPT ![f] = row]
    BY <1>1 DEF Proved
  <2> HIDE DEF row
  <2> QED
    <3> DEFINE new == Proved(f, code)
    <3>1. /\ new \in Seq(FactorRow) /\ Len(new) = Len(factors)
          /\ \A g \in DOMAIN factors : new[g] = IF g = f THEN row ELSE factors[g]
      BY <1>3, <2>2, <2>3
    <3> HIDE DEF new
    <3>2. /\ Remembers(new) /\ new[f].lastUsed = code.n
          /\ \A g \in DOMAIN factors : new[g].status = factors[g].status
      BY <1>0, <1>4, <2>1, <2>2, <3>1 DEF Remembers
    <3> QED
      BY <1>1, <3>2 DEF Records, new
<1>2. CASE code.kind # "totp"
  <2> DEFINE row == [factors[f] EXCEPT !.codes = @ \ {code.n}]
  <2>2. /\ row \in FactorRow /\ row.identity = factors[f].identity /\ row.secret = factors[f].secret
        /\ row.codes = factors[f].codes \ {code.n} /\ row.status = factors[f].status
        /\ row.lastUsed = factors[f].lastUsed
    BY ZenonT(60), <1>0 DEF FactorRow
  <2>3. Proved(f, code) = [factors EXCEPT ![f] = row]
    BY <1>2 DEF Proved
  <2> HIDE DEF row
  <2> QED
    BY <1>2, <1>3, <1>4, <2>2, <2>3 DEF Records, Remembers
<1> QED
  BY <1>1, <1>2

-------------------------------------------------------------------------------
(* Sessions that stand.                                                     *)

\* A row may stand: it was opened with the identity's active factor, and by the
\* password alone only with the current one.
Standing(row) ==
  /\ row.factor = (IF ActiveFactors(row.identity) = {} THEN None
                   ELSE loadActiveTOTPFactorTx(row.identity))
  /\ row.level = "password" => row.password = password[row.identity]

SessionInv == \A s \in DOMAIN sessions : Live(s) => Standing(sessions[s])

\* The factor and the password of an identity stay.
Unaltered(i) == ActiveFactors(i)' = ActiveFactors(i) /\ password'[i] = password[i]

LEMMA RowStands ==
  ASSUME NEW row, NEW old, Standing(old), Unaltered(old.identity),
         row.identity = old.identity, row.factor = old.factor, row.level = old.level,
         row.password = old.password
  PROVE  Standing(row)'
  BY ZenonT(60) DEF Standing, Unaltered, loadActiveTOTPFactorTx

\* Sessions stand on when they only age, a new one stands by itself, and the
\* identity whose factor or password changed has lost all of them.
LEMMA SessionsStand ==
  ASSUME TypeInv, SessionInv, NEW new, Ages(new),
         sessions' = new \/ \E row \in SessionRow : sessions' = Append(new, row) /\ Standing(row)',
         \A i \in Identities :
           Unaltered(i) \/ \A s \in DOMAIN sessions : sessions[s].identity = i => new[s].revoked
  PROVE  SessionInv'
<1>1. /\ DOMAIN new = DOMAIN sessions /\ DOMAIN new = 1..Len(new) /\ Len(new) \in Nat
      /\ new \in Seq(SessionRow)
  BY DEF TypeInv, Ages
<1>2. ASSUME NEW s \in DOMAIN sessions, ~new[s].revoked PROVE Standing(new[s])'
  <2>1. sessions[s].identity \in Identities
    <3>1. sessions[s] \in SessionRow
      BY DEF TypeInv
    <3> QED
      BY <3>1 DEF SessionRow
  <2>2. Live(s) /\ Unaltered(sessions[s].identity)
    BY <1>2, <2>1 DEF Ages, Live
  <2>3. Standing(sessions[s])
    BY <2>2 DEF SessionInv
  <2> QED
    BY <2>2, <2>3, RowStands DEF Ages
<1>3. CASE sessions' = new
  BY SMTT(60), <1>1, <1>2, <1>3 DEF SessionInv, Live
<1>4. ASSUME NEW row \in SessionRow, sessions' = Append(new, row), Standing(row)'
      PROVE  SessionInv'
  <2> SUFFICES ASSUME NEW s \in DOMAIN sessions', ~sessions'[s].revoked PROVE Standing(sessions[s])'
    BY DEF SessionInv, Live
  <2>1. \/ s \in DOMAIN new /\ sessions'[s] = new[s]
        \/ sessions'[s] = row
    <3>1. new \in Seq(SessionRow) /\ s \in DOMAIN Append(new, row)
      BY ZenonT(60), <1>1, <1>4
    <3>2. \/ s \in DOMAIN new /\ Append(new, row)[s] = new[s]
          \/ s = Len(new) + 1 /\ Append(new, row)[s] = row
      BY <3>1, Appended
    <3> QED
      BY SMTT(60), <1>4, <3>2
  <2> QED
    BY ZenonT(60), <1>1, <1>2, <1>4, <2>1
<1> QED
  BY <1>3, <1>4

-------------------------------------------------------------------------------
(* Codes that were accepted.                                                *)

LEMMA RecordedKept ==
  ASSUME TypeInv, NEW code \in Code, Recorded(code), NEW ks, Works(ks), Remembers(factors'),
         setups' = ks \/ \E row \in SetupRow : setups' = Append(ks, row)
  PROVE  Recorded(code)'
<1>1. \A k \in DOMAIN setups : k \in DOMAIN setups' /\ (setups[k].consumed => setups'[k].consumed)
  BY DEF Works, TypeInv
<1>2. DOMAIN factors' = DOMAIN factors
  BY DEF Remembers, TypeInv
<1>3. ASSUME NEW f \in DOMAIN factors
      PROVE  factors[f].lastUsed \in Int /\ factors'[f].lastUsed \in Int
  <2>1. factors[f] \in FactorRow /\ factors'[f] \in FactorRow
    BY <1>2 DEF Remembers, TypeInv
  <2> QED
    BY <2>1 DEF FactorRow
<1>4. CASE code.kind = "totp"
  <2>1. code.n \in Nat
    BY DEF Code
  <2>2. /\ code.of \in DOMAIN setups /\ setups[code.of].consumed
        /\ \A f \in DOMAIN factors : factors[f].secret = code.of => code.n <= factors[f].lastUsed
    BY <1>4 DEF Recorded
  <2>3. /\ code.of \in DOMAIN setups' /\ setups'[code.of].consumed
        /\ \A f \in DOMAIN factors' : factors'[f].secret = code.of => code.n <= factors'[f].lastUsed
    BY <1>1, <1>2, <1>3, <2>1, <2>2 DEF Remembers
  <2> QED
    BY <1>4, <2>3 DEF Recorded
<1>5. CASE code.kind # "totp"
  BY <1>2, <1>5 DEF Remembers, Recorded
<1> QED
  BY <1>4, <1>5

\* Setups that are worked on or begun and factors that remember keep the invariant.
LEMMA CodesKept ==
  ASSUME TypeInv, CodeInv, NEW ks, Works(ks), Remembers(factors'),
         setups' = ks \/ \E row \in SetupRow : setups' = Append(ks, row),
         \A x \in spent' : x \in spent \/ (x.code \in Code /\ Recorded(x.code)')
  PROVE  CodeInv'
<1>1. \A k \in DOMAIN setups : k \in DOMAIN setups' /\ (setups[k].consumed => setups'[k].consumed)
  BY DEF Works, TypeInv
<1>2. DOMAIN factors' = DOMAIN factors
  BY DEF Remembers, TypeInv
<1>3. SecretInv'
  BY <1>1, <1>2 DEF CodeInv, SecretInv, Remembers
<1>4. ASSUME NEW x \in spent PROVE x.code \in Code /\ Recorded(x.code)'
  <2>1. x.code \in Code /\ Recorded(x.code)
    BY DEF CodeInv, SpentInv
  <2> QED
    BY <2>1, RecordedKept
<1> QED
  BY <1>3, <1>4 DEF CodeInv, SpentInv

\* A code that a factor accepts was not accepted before, and is recorded.
LEMMA CodeSpent ==
  ASSUME TypeInv, CodeInv, CodesSpentOnce, NEW f \in DOMAIN factors, NEW code \in Code,
         verifyCurrentFactorTx(f, code), Records(factors', f, code),
         NEW purpose, NEW n, Spend(code, purpose, n), NEW ks, Works(ks),
         setups' = ks \/ \E row \in SetupRow : setups' = Append(ks, row)
  PROVE  CodeInv' /\ CodesSpentOnce'
<1> DEFINE new == [code |-> code, for |-> purpose, n |-> n]
<1>1. spent' = spent \cup {new} /\ new.code = code
  BY DEF Spend
<1> HIDE DEF new
<1>2. factors[f].lastUsed \in Int /\ code.n \in Nat
  <2>1. factors[f] \in FactorRow
    BY DEF TypeInv
  <2> QED
    BY <2>1 DEF FactorRow, Code
<1>3. \/ code.kind = "totp" /\ code.of = factors[f].secret /\ code.n > factors[f].lastUsed
      \/ code.kind = "recovery" /\ code.of = f /\ code.n \in factors[f].codes
  BY DEF verifyCurrentFactorTx, matchTOTP
<1>4. ASSUME NEW x \in spent PROVE x.code # code
  <2>1. Recorded(x.code) /\ x.code.n \in Nat
    BY DEF CodeInv, SpentInv, Code
  <2> QED
    BY <1>2, <1>3, <2>1 DEF Recorded
<1>5. CodesSpentOnce'
  BY <1>1, <1>4 DEF CodesSpentOnce
<1>6. /\ DOMAIN factors' = DOMAIN factors /\ Remembers(factors')
      /\ \A g \in DOMAIN factors : factors'[g].secret = factors[g].secret
  BY DEF Records, Remembers, TypeInv
<1>7. Recorded(code)'
  <2>1. CASE code.kind = "totp"
    <3>1. /\ factors[f].secret \in DOMAIN setups /\ setups[factors[f].secret].consumed
          /\ \A g \in DOMAIN factors : factors[g].secret = factors[f].secret => g = f
      BY DEF CodeInv, SecretInv
    <3>2. \A k \in DOMAIN setups : k \in DOMAIN setups' /\ (setups[k].consumed => setups'[k].consumed)
      BY DEF Works, TypeInv
    <3>3. code.of = factors[f].secret /\ factors'[f].lastUsed = code.n
      BY <1>3, <2>1 DEF Records
    <3> QED
      BY <1>2, <1>6, <2>1, <3>1, <3>2, <3>3 DEF Recorded
  <2>2. CASE code.kind # "totp"
    BY <1>3, <1>6, <2>2 DEF Recorded, Records
  <2> QED
    BY <2>1, <2>2
<1> QED
  BY <1>1, <1>5, <1>6, <1>7, CodesKept

-------------------------------------------------------------------------------
(* The requests in flight.                                                  *)

LEMMA IdleRow == Idle \in CallRow /\ Idle.phase = "none"
  BY DEF Idle, Call, CallRow, None

LEMMA CallKept ==
  ASSUME CallInv, NEW c \in Callers, NEW x \in CallRow, Goes(c, x),
         DOMAIN sessions \subseteq DOMAIN sessions',
         x.phase \in {"derive", "touch", "write"} => x.identity \in Identities,
         x.phase \in {"expire", "touch", "write"} => x.session \in DOMAIN sessions'
  PROVE  CallInv'
  BY DEF CallInv, Goes

LEMMA EndsKept ==
  ASSUME CallInv, NEW c \in Callers, Ends(c), DOMAIN sessions \subseteq DOMAIN sessions'
  PROVE  CallInv'
  BY ZenonT(60), IdleRow, CallKept DEF Ends, Goes

LEMMA SubmittedCodes ==
  ASSUME TypeInv, NEW i, NEW code \in Submitted(i)
  PROVE  code \in Code
<1>1. CASE code = Wrong
  BY <1>1 DEF Wrong, Code, None
<1>2. ASSUME NEW f \in ActiveFactors(i), NEW n \in Nat, code = Totp(factors[f].secret, n)
      PROVE  code \in Code
  <2>1. factors[f] \in FactorRow
    BY DEF ActiveFactors, TypeInv
  <2> QED
    BY <1>2, <2>1 DEF Totp, Code, FactorRow
<1>3. ASSUME NEW f \in ActiveFactors(i), NEW n \in 1..RecoveryCodes, code = RecoveryCode(f, n)
      PROVE  code \in Code
  <2>1. f \in Nat /\ n \in Nat
    BY SMTT(60), SessionsAssumption DEF ActiveFactors, TypeInv
  <2> QED
    BY <1>3, <2>1 DEF RecoveryCode, Code
<1> QED
  BY <1>1, <1>2, <1>3 DEF Submitted

\* The active factor of an identity that has one.
LEMMA ActiveFactor ==
  ASSUME NEW i, ActiveFactors(i) # {}
  PROVE  /\ loadActiveTOTPFactorTx(i) \in ActiveFactors(i)
         /\ loadActiveTOTPFactorTx(i) \in DOMAIN factors
         /\ factors[loadActiveTOTPFactorTx(i)].identity = i
  BY DEF loadActiveTOTPFactorTx, ActiveFactors

\* Factors that keep their identity and status are active for the same identities.
LEMMA SameActive ==
  ASSUME TypeInv, NEW i, Remembers(factors'),
         \A f \in DOMAIN factors : factors[f].identity = i => factors'[f].status = factors[f].status
  PROVE  ActiveFactors(i)' = ActiveFactors(i)
<1>1. DOMAIN factors' = DOMAIN factors
  BY DEF Remembers, TypeInv
<1> QED
  BY <1>1 DEF ActiveFactors, Remembers

LEMMA SameRemembers == ASSUME TypeInv PROVE Remembers(factors)
<1>1. ASSUME NEW f \in DOMAIN factors PROVE factors[f].lastUsed \in Int
  <2>1. factors[f] \in FactorRow
    BY DEF TypeInv
  <2> QED
    BY <2>1 DEF FactorRow
<1> QED
  BY <1>1 DEF TypeInv, Remembers

LEMMA SameWorks == ASSUME TypeInv PROVE Works(setups)
  BY DEF TypeInv, Works

-------------------------------------------------------------------------------
(* The invariant, and the steps that only touch sessions.                   *)

Inv == TypeInv /\ SessionInv /\ CodeInv /\ CodesSpentOnce

\* Sessions age and nothing else is written.
LEMMA AgesKeeps ==
  ASSUME Inv, Ages(sessions'), CallInv', clock' \in Nat,
         UNCHANGED <<password, factors, setups, challenges, spent>>
  PROVE  Inv'
<1>1. DOMAIN sessions' = DOMAIN sessions
  BY DEF Inv, TypeInv, Ages
<1>2. TypeInv'
  BY <1>1 DEF Inv, TypeInv, Ages
<1>3. SessionInv'
  BY SessionsStand DEF Inv, Unaltered, ActiveFactors
<1>4. CodeInv' /\ CodesSpentOnce'
  BY DEF Inv, CodeInv, SecretInv, SpentInv, Recorded, CodesSpentOnce
<1> QED
  BY <1>2, <1>3, <1>4 DEF Inv

LEMMA QuietKeeps ==
  ASSUME Inv, CallInv', clock' \in Nat, UNCHANGED <<password, sessions, factors, setups, challenges, spent>>
  PROVE  Inv'
  BY SameAges, AgesKeeps DEF Inv, TypeInv

LEMMA TickKeeps == ASSUME Inv, Tick PROVE Inv'
  BY QuietKeeps DEF Tick, rows, Inv, TypeInv, CallInv

LEMMA AbandonKeeps == ASSUME Inv, NEW c \in Callers, Abandon(c) PROVE Inv'
  BY QuietKeeps, EndsKept DEF Abandon, rows, Inv, TypeInv

LEMMA CandidateKeeps ==
  ASSUME Inv, NEW c \in Callers, NEW i \in Identities, loadPasswordCandidate(c, i)
  PROVE  Inv'
<1> DEFINE x == Call("derive", "login", i, None, password[i])
<1>1. x \in CallRow /\ x.phase = "derive" /\ x.identity = i
  BY DEF Inv, TypeInv, CallRow, Call, None
<1>2. Goes(c, x) /\ UNCHANGED <<clock, password, sessions, factors, setups, challenges, spent>>
  BY DEF loadPasswordCandidate, rows
<1> HIDE DEF x
<1>3. CallInv'
  BY ZenonT(60), <1>1, <1>2, CallKept DEF Inv, TypeInv
<1> QED
  BY <1>2, <1>3, QuietKeeps DEF Inv, TypeInv

LEMMA AuthenticateKeeps ==
  ASSUME Inv, NEW c \in Callers, NEW s \in DOMAIN sessions, NEW class \in Classes,
         AuthenticateSession(c, s, class)
  PROVE  Inv'
<1> DEFINE i == sessions[s].identity
<1>1. i \in Identities /\ s \in Nat /\ clock \in Nat
  <2>1. sessions[s] \in SessionRow
    BY DEF Inv, TypeInv
  <2>2. s \in Nat /\ clock \in Nat
    BY DEF Inv, TypeInv
  <2> QED
    BY <2>1, <2>2 DEF SessionRow
<1>2. UNCHANGED <<clock, password, sessions, factors, setups, challenges, spent>>
  BY DEF AuthenticateSession, rows
<1>3. \E x \in CallRow : /\ Goes(c, x) /\ x.session = s /\ x.phase \in {"expire", "touch", "write"}
                         /\ x.phase # "expire" => x.identity = i
  <2>1. /\ Call("expire", "any", None, s, None) \in CallRow
        /\ Call("touch", class, i, s, clock) \in CallRow
        /\ Call("write", class, i, s, None) \in CallRow
    BY <1>1 DEF Call, CallRow, None
  <2> HIDE DEF i
  <2> QED
    BY <2>1 DEF AuthenticateSession, Call, i
<1> HIDE DEF i
<1>4. CallInv'
  BY SMTT(60), <1>1, <1>2, <1>3, CallKept DEF Inv, TypeInv
<1> QED
  BY <1>1, <1>2, <1>4, QuietKeeps

LEMMA ExpireKeeps ==
  ASSUME Inv, NEW c \in Callers, expireSession(c) \/ RevokeSession(c)
  PROVE  Inv'
<1>1. calls[c].session \in DOMAIN sessions
  BY DEF Inv, TypeInv, CallInv, expireSession, RevokeSession, In
<1>2. /\ sessions' = [sessions EXCEPT ![calls[c].session].revoked = TRUE] /\ Ends(c)
      /\ UNCHANGED <<clock, password, factors, setups, challenges, spent>>
  BY DEF expireSession, RevokeSession
<1>3. Ages(sessions')
  BY ZenonT(60), <1>1, <1>2, RevokedAges DEF Inv, TypeInv
<1>4. CallInv'
  BY <1>2, <1>3, EndsKept DEF Inv, TypeInv, Ages
<1> QED
  BY <1>2, <1>3, <1>4, AgesKeeps DEF Inv, TypeInv

LEMMA TouchKeeps == ASSUME Inv, NEW c \in Callers, TouchSession(c) PROVE Inv'
<1> DEFINE x == [calls[c] EXCEPT !.phase = "write", !.seen = None]
<1>1. /\ calls[c] \in CallRow /\ calls[c].session \in DOMAIN sessions
      /\ calls[c].identity \in Identities /\ calls[c].seen \in Nat
  <2>1. calls[c] \in CallRow
    BY DEF Inv, TypeInv, CallInv
  <2> QED
    BY <2>1 DEF Inv, TypeInv, CallInv, TouchSession, CallRow
<1>2. /\ sessions' = [sessions EXCEPT ![calls[c].session].lastSeen = calls[c].seen]
      /\ calls' = [calls EXCEPT ![c].phase = "write", ![c].seen = None]
      /\ UNCHANGED <<clock, password, factors, setups, challenges, spent>>
  BY DEF TouchSession
<1>3. Ages(sessions')
  BY ZenonT(60), <1>1, <1>2, TouchedAges DEF Inv, TypeInv
<1>4. x \in CallRow /\ x.session = calls[c].session /\ x.identity = calls[c].identity /\ x.phase = "write"
  BY ZenonT(60), <1>1 DEF CallRow, None
<1>5. Goes(c, x)
  BY ZenonT(60), <1>2 DEF Goes
<1> HIDE DEF x
<1>6. DOMAIN sessions' = DOMAIN sessions
  BY <1>3 DEF Inv, TypeInv, Ages
<1>7. CallInv'
  BY <1>1, <1>4, <1>5, <1>6, CallKept DEF Inv, TypeInv
<1> QED
  BY <1>2, <1>3, <1>7, AgesKeeps DEF Inv, TypeInv

LEMMA ManagedKeeps ==
  ASSUME Inv, NEW c \in Callers, RevokeManagedSession(c) \/ RevokeAllManagedSessions(c)
  PROVE  Inv'
<1>1. Ends(c) /\ UNCHANGED <<clock, password, factors, setups, challenges, spent>>
  BY DEF RevokeManagedSession, RevokeAllManagedSessions
<1>2. Ages(sessions')
  BY SMTT(60), RevokedAges, IdentityAges DEF RevokeManagedSession, RevokeAllManagedSessions, Inv, TypeInv
<1>3. CallInv'
  BY <1>1, <1>2, EndsKept DEF Inv, TypeInv, Ages
<1> QED
  BY <1>1, <1>2, <1>3, AgesKeeps DEF Inv, TypeInv

LEMMA PasswordKeeps == ASSUME Inv, NEW i \in Identities, SetPasswordCredential(i) PROVE Inv'
<1>1. /\ password' = [password EXCEPT ![i] = @ + 1] /\ sessions' = revokeIdentitySessionsTx(i, None)
      /\ UNCHANGED <<clock, factors, setups, challenges, calls, spent>>
  BY DEF SetPasswordCredential
<1>2. Ages(sessions') /\ \A s \in DOMAIN sessions : sessions[s].identity = i => sessions'[s].revoked
  BY <1>1, IdentityAges DEF Inv, TypeInv, None
<1>3. DOMAIN sessions' = DOMAIN sessions
  BY SMTT(60), <1>2 DEF Inv, TypeInv, Ages
<1>4. TypeInv'
  BY SMTT(60), <1>1, <1>2, <1>3 DEF Inv, TypeInv, Ages, CallInv
<1>5. SessionInv'
  BY ZenonT(60), <1>1, <1>2, SessionsStand DEF Inv, Unaltered, ActiveFactors, TypeInv
<1>6. CodeInv' /\ CodesSpentOnce'
  BY <1>1 DEF Inv, CodeInv, SecretInv, SpentInv, Recorded, CodesSpentOnce
<1> QED
  BY <1>4, <1>5, <1>6 DEF Inv

-------------------------------------------------------------------------------
(* Logins.                                                                  *)

\* Challenges are well formed over a sessions table of the given size or larger.
ChallengesOver(new, len) ==
  /\ new \in Seq(ChallengeRow)
  /\ \A k \in DOMAIN new : new[k].previous \in 0..len

\* A session is opened by a request that ends.
LEMMA OpeningKeeps ==
  ASSUME Inv, NEW c \in Callers, Ends(c), NEW new, Ages(new), NEW row \in SessionRow,
         sessions' = Append(new, row), Standing(row)', UNCHANGED <<clock, password, setups>>,
         ChallengesOver(challenges', Len(sessions)), Remembers(factors'),
         \A f \in DOMAIN factors : factors'[f].status = factors[f].status,
         CodeInv', CodesSpentOnce'
  PROVE  Inv'
<1>1. sessions' \in Seq(SessionRow) /\ Len(sessions') = Len(sessions) + 1 /\ Len(sessions) \in Nat
  BY Appended DEF Ages, Inv, TypeInv
<1>2. DOMAIN sessions = 1..Len(sessions) /\ DOMAIN sessions' = 1..(Len(sessions) + 1)
  BY <1>1 DEF Inv, TypeInv
<1>3. CallInv'
  BY <1>1, <1>2, EndsKept DEF Inv, TypeInv
<1>4. \A k \in DOMAIN challenges' : challenges'[k].previous \in {None} \cup DOMAIN sessions'
  BY <1>1, <1>2 DEF ChallengesOver, None
<1>5. TypeInv'
  BY <1>1, <1>3, <1>4 DEF Inv, TypeInv, Remembers, ChallengesOver
<1>6. \A i \in Identities : Unaltered(i)
  BY SMTT(60), SameActive DEF Inv, Unaltered
<1>7. SessionInv'
  BY <1>6, SessionsStand DEF Inv
<1> QED
  BY <1>5, <1>7 DEF Inv

LEMMA OldChallenges == ASSUME Inv PROVE ChallengesOver(challenges, Len(sessions))
<1>1. DOMAIN sessions = 1..Len(sessions) /\ Len(sessions) \in Nat
  BY DEF Inv, TypeInv
<1> QED
  BY <1>1 DEF Inv, TypeInv, ChallengesOver, None

\* The password alone opens a session of an identity without a factor.
LEMMA PasswordSession ==
  ASSUME Inv, NEW c \in Callers, Ends(c), NEW previous \in {None} \cup DOMAIN sessions,
         NEW i \in Identities, password[i] \in Nat, ActiveFactors(i) = {},
         sessions' = Append(rotatePreviousSessionTx(previous),
                            NewSession(i, "password", None, None, password[i])),
         UNCHANGED <<clock, password, factors, setups, challenges, spent>>
  PROVE  Inv'
<1> DEFINE new == rotatePreviousSessionTx(previous)
<1>1. PICK row : row = NewSession(i, "password", None, None, password[i])
  OBVIOUS
<1>2. row \in SessionRow /\ row.identity = i /\ row.factor = None /\ row.password = password[i]
  BY <1>1 DEF NewSession, SessionRow, None, Inv, TypeInv
<1>3. ActiveFactors(i)' = {}
  BY DEF ActiveFactors
<1>4. Standing(row)'
  BY SMTT(60), <1>2, <1>3 DEF Standing
<1>5. CodeInv' /\ CodesSpentOnce'
  BY DEF Inv, CodeInv, SecretInv, SpentInv, Recorded, CodesSpentOnce
<1>6. ChallengesOver(challenges', Len(sessions)) /\ Remembers(factors')
  BY OldChallenges, SameRemembers DEF Inv
<1>7. sessions' = Append(new, row) /\ Ages(new)
  BY <1>1, RotatedAges DEF Inv, TypeInv
<1> HIDE DEF new
<1> QED
  BY SMTT(60), <1>2, <1>4, <1>5, <1>6, <1>7, OpeningKeeps

\* A challenge is written, and nothing else.
LEMMA ChallengeKeeps ==
  ASSUME Inv, NEW c \in Callers, Ends(c), ChallengesOver(challenges', Len(sessions)),
         UNCHANGED <<clock, password, sessions, factors, setups, spent>>
  PROVE  Inv'
<1>1. CallInv'
  BY EndsKept DEF Inv, TypeInv
<1>2. DOMAIN sessions = 1..Len(sessions) /\ Len(sessions) \in Nat
  BY DEF Inv, TypeInv
<1>3. TypeInv'
  BY <1>1, <1>2 DEF Inv, TypeInv, ChallengesOver, None
<1>4. SessionInv'
  BY DEF Inv, SessionInv, Live, Standing, ActiveFactors, loadActiveTOTPFactorTx
<1>5. CodeInv' /\ CodesSpentOnce'
  BY DEF Inv, CodeInv, SecretInv, SpentInv, Recorded, CodesSpentOnce
<1> QED
  BY <1>3, <1>4, <1>5 DEF Inv

LEMMA ChallengeRowKept ==
  ASSUME Inv, NEW k \in DOMAIN challenges, NEW b \in BOOLEAN, NEW a \in Nat
  PROVE  LET row == [challenges[k] EXCEPT !.attempts = a, !.consumed = b]
         IN  row \in ChallengeRow /\ row.previous = challenges[k].previous
<1>1. challenges[k] \in ChallengeRow
  BY DEF Inv, TypeInv
<1> QED
  BY ZenonT(60), <1>1 DEF ChallengeRow

LEMMA ChallengeOpened ==
  ASSUME Inv, NEW c \in Callers, Ends(c), NEW i \in Identities,
         NEW previous \in {None} \cup DOMAIN sessions,
         challenges' = Append(
             [k \in DOMAIN challenges |->
                [challenges[k] EXCEPT !.consumed = @ \/ challenges[k].identity = i]],
             [identity |-> i, previous |-> resolvePreviousSessionIDTx(previous, i),
              expires |-> clock + ChallengeTTL, consumed |-> FALSE, attempts |-> 0]),
         UNCHANGED <<clock, password, sessions, factors, setups, spent>>
  PROVE  Inv'
<1> DEFINE q == [k \in DOMAIN challenges |->
                   [challenges[k] EXCEPT !.consumed = @ \/ challenges[k].identity = i]]
           row == [identity |-> i, previous |-> resolvePreviousSessionIDTx(previous, i),
                   expires |-> clock + ChallengeTTL, consumed |-> FALSE, attempts |-> 0]
<1>1. DOMAIN sessions = 1..Len(sessions) /\ Len(sessions) \in Nat
  BY DEF Inv, TypeInv
<1>2. ASSUME NEW k \in DOMAIN challenges
      PROVE  q[k] \in ChallengeRow /\ q[k].previous \in 0..Len(sessions)
  <2> DEFINE b == challenges[k].consumed \/ challenges[k].identity = i
  <2>1. challenges[k] \in ChallengeRow /\ challenges[k].previous \in 0..Len(sessions)
    BY <1>1 DEF Inv, TypeInv, None
  <2>2. b \in BOOLEAN
    OBVIOUS
  <2>3. q[k] = [challenges[k] EXCEPT !.consumed = b]
    OBVIOUS
  <2> HIDE DEF b, q
  <2> QED
    BY <2>1, <2>2, <2>3 DEF ChallengeRow
<1>3. q = [k \in 1..Len(challenges) |-> q[k]] /\ DOMAIN challenges = 1..Len(challenges)
      /\ Len(challenges) \in Nat
  BY DEF Inv, TypeInv
<1>4. row \in ChallengeRow /\ row.previous \in 0..Len(sessions)
  <2>1. resolvePreviousSessionIDTx(previous, i) \in 0..Len(sessions)
    BY <1>1 DEF resolvePreviousSessionIDTx, None
  <2>2. clock \in Nat /\ ChallengeTTL \in Nat
    BY SessionsAssumption DEF Inv, TypeInv
  <2>3. clock + ChallengeTTL \in Nat /\ resolvePreviousSessionIDTx(previous, i) \in Nat
    BY <1>1, <2>1, <2>2
  <2> QED
    BY <2>1, <2>3 DEF ChallengeRow
<1> HIDE DEF q, row
<1>5. q \in Seq(ChallengeRow) /\ Len(q) = Len(challenges)
  BY <1>2, <1>3, RowsMade
<1>6. challenges' = Append(q, row)
  BY SMTT(60) DEF q, row
<1>7. ChallengesOver(challenges', Len(sessions))
  <2>1. \A k \in DOMAIN q : q[k].previous \in 0..Len(sessions)
    BY <1>2, <1>3, <1>5
  <2>2. /\ Append(q, row) \in Seq(ChallengeRow)
        /\ \A k \in DOMAIN Append(q, row) :
             \/ k \in DOMAIN q /\ Append(q, row)[k] = q[k]
             \/ k = Len(q) + 1 /\ Append(q, row)[k] = row
    BY <1>4, <1>5, Appended
  <2>3. \A k \in DOMAIN Append(q, row) : Append(q, row)[k].previous \in 0..Len(sessions)
    BY <1>4, <2>1, <2>2
  <2> QED
    BY ZenonT(60), <1>6, <2>2, <2>3 DEF ChallengesOver
<1> QED
  BY ZenonT(60), <1>7, ChallengeKeeps

LEMMA PasswordLoginKeeps == ASSUME Inv, NEW c \in Callers, PasswordLogin(c) PROVE Inv'
<1>1. PICK i : i = calls[c].identity
  OBVIOUS
<1>2. i \in Identities /\ calls[c].seen = password[i] /\ password[i] \in Nat
  BY <1>1 DEF Inv, TypeInv, CallInv, PasswordLogin, In, revalidatePasswordCandidateTx
<1> QED
  BY ZenonT(60), <1>1, <1>2, PasswordSession, ChallengeOpened DEF PasswordLogin

\* The second factor's code opens a session with that factor.
LEMMA FactorSession ==
  ASSUME Inv, NEW c \in Callers, NEW k \in DOMAIN challenges, NEW i \in Identities,
         ActiveFactors(i) # {}, NEW f, f = loadActiveTOTPFactorTx(i), NEW code \in Submitted(i),
         verifyCurrentFactorTx(f, code), OpenSession(c, k, i, f, code),
         UNCHANGED <<clock, password, setups>>
  PROVE  Inv'
<1>1. code \in Code /\ f \in ActiveFactors(i) /\ f \in DOMAIN factors /\ f \in Nat
  BY SubmittedCodes, ActiveFactor DEF Inv, TypeInv
<1>2. /\ factors' = Proved(f, code) /\ Records(factors', f, code)
      /\ \A g \in DOMAIN factors : factors'[g].status = factors[g].status
  BY SMTT(60), <1>1, ProvedRecords DEF OpenSession, Inv, TypeInv
<1>3. Remembers(factors')
  BY <1>2 DEF Records
<1>4. PICK new, row :
         /\ new = rotatePreviousSessionTx(challenges[k].previous)
         /\ row = NewSession(i, code.kind, f, k, None)
  OBVIOUS
<1>5. sessions' = Append(new, row) /\ Ends(c) /\ Spend(code, "session", Len(sessions) + 1)
  BY SMTT(60), <1>4 DEF OpenSession
<1>6. Ages(new)
  BY SMTT(60), <1>4, RotatedAges DEF Inv, TypeInv
<1>7. row \in SessionRow /\ row.identity = i /\ row.factor = f /\ row.level # "password"
  <2>1. code.kind \in {"totp", "recovery"} /\ k \in Nat /\ clock \in Nat
    BY DEF verifyCurrentFactorTx, matchTOTP, Inv, TypeInv
  <2> QED
    BY ZenonT(60), <1>1, <1>4, <2>1 DEF NewSession, SessionRow, None
<1>8. Standing(row)'
  <2>1. ActiveFactors(i)' = ActiveFactors(i)
    BY SMTT(60), <1>2, <1>3, SameActive DEF Inv
  <2> QED
    BY SMTT(60), <1>1, <1>7, <2>1 DEF Standing, loadActiveTOTPFactorTx
<1>9. CodeInv' /\ CodesSpentOnce'
  BY <1>1, <1>2, <1>5, SameWorks, CodeSpent DEF Inv
<1>10. ChallengesOver(challenges', Len(sessions))
  <2> DEFINE x == [challenges[k] EXCEPT !.consumed = TRUE]
  <2>1. challenges[k] \in ChallengeRow
    BY DEF Inv, TypeInv
  <2>2. x \in ChallengeRow /\ x.previous = challenges[k].previous
    BY ZenonT(60), <2>1 DEF ChallengeRow
  <2>3. challenges' = [challenges EXCEPT ![k] = x]
    BY DEF OpenSession
  <2> HIDE DEF x
  <2> QED
    BY <2>2, <2>3, OldChallenges DEF ChallengesOver
<1> QED
  BY <1>2, <1>3, <1>5, <1>6, <1>7, <1>8, <1>9, <1>10, OpeningKeeps

LEMMA MFALoginKeeps == ASSUME Inv, NEW c \in Callers, CompleteMFALogin(c) PROVE Inv'
<1>1. PICK k \in DOMAIN challenges :
         LET i == challenges[k].identity
             f == loadActiveTOTPFactorTx(i)
         IN  \/ ConsumeChallenge(c, k, i)
             \/ \E code \in Submitted(i) : CountAttempt(c, k, i)
             \/ /\ ActiveFactors(i) # {}
                /\ \E code \in Submitted(i) : verifyCurrentFactorTx(f, code) /\ OpenSession(c, k, i, f, code)
  BY DEF CompleteMFALogin
<1>2. challenges[k] \in ChallengeRow /\ challenges[k].identity \in Identities
      /\ challenges[k].attempts \in Nat
  <2>1. challenges[k] \in ChallengeRow
    BY SMTT(60) DEF Inv, TypeInv
  <2> QED
    BY <2>1 DEF ChallengeRow
<1>3. UNCHANGED <<clock, password, setups>>
  BY DEF CompleteMFALogin
<1>4. CASE ConsumeChallenge(c, k, challenges[k].identity) \/ CountAttempt(c, k, challenges[k].identity)
  <2> DEFINE a == challenges[k].attempts + 1
             b == challenges[k].attempts + 1 >= MaxAttempts
  <2>1. PICK x \in ChallengeRow :
           x.previous = challenges[k].previous /\ challenges' = [challenges EXCEPT ![k] = x]
    <3>1. CASE ConsumeChallenge(c, k, challenges[k].identity)
      <4> DEFINE x == [challenges[k] EXCEPT !.consumed = TRUE]
      <4>1. x \in ChallengeRow /\ x.previous = challenges[k].previous
        BY ZenonT(60), <1>2 DEF ChallengeRow
      <4>2. challenges' = [challenges EXCEPT ![k] = x]
        BY <3>1 DEF ConsumeChallenge
      <4> QED
        BY ZenonT(60), <4>1, <4>2
    <3>2. CASE CountAttempt(c, k, challenges[k].identity)
      <4> DEFINE x == [challenges[k] EXCEPT !.attempts = a, !.consumed = b]
      <4>1. a \in Nat /\ b \in BOOLEAN
        BY <1>2
      <4>2. challenges' = [challenges EXCEPT ![k] = x]
        BY ZenonT(60), <3>2 DEF CountAttempt
      <4> HIDE DEF a, b
      <4>3. x \in ChallengeRow /\ x.previous = challenges[k].previous
        BY ZenonT(60), <4>1, ChallengeRowKept
      <4> QED
        BY ZenonT(60), <4>2, <4>3
    <3> QED
      BY <1>4, <3>1, <3>2
  <2>2. ChallengesOver(challenges', Len(sessions))
    BY <2>1, OldChallenges DEF ChallengesOver
  <2>3. Ends(c) /\ UNCHANGED <<sessions, factors, spent>>
    BY <1>4 DEF ConsumeChallenge, CountAttempt
  <2> QED
    BY <1>3, <2>2, <2>3, ChallengeKeeps
<1> QED
  BY <1>1, <1>2, <1>3, <1>4, FactorSession

-------------------------------------------------------------------------------
(* The second factor.                                                       *)

LEMMA SubjectOf ==
  ASSUME Inv, NEW c \in Callers, Subject(c)
  PROVE  calls[c].identity \in Identities /\ calls[c].session \in DOMAIN sessions
  BY DEF Inv, TypeInv, CallInv, Subject, In

LEMMA FactorKeeps ==
  ASSUME Inv, NEW c \in Callers, Ends(c), Ages(sessions'), factors' \in Seq(FactorRow),
         setups' \in Seq(SetupRow), UNCHANGED <<clock, password, challenges>>, CodeInv', CodesSpentOnce',
         \A j \in Identities : \/ ActiveFactors(j)' = ActiveFactors(j)
                               \/ \A s \in DOMAIN sessions : sessions[s].identity = j => sessions'[s].revoked
  PROVE  Inv'
<1>1. DOMAIN sessions' = DOMAIN sessions
  BY SMTT(60) DEF Inv, TypeInv, Ages
<1>2. CallInv'
  BY <1>1, EndsKept DEF Inv, TypeInv
<1>3. TypeInv'
  BY SMTT(60), <1>1, <1>2 DEF Inv, TypeInv, Ages
<1>4. SessionInv'
  BY SMTT(60), SessionsStand DEF Inv, Unaltered
<1> QED
  BY <1>3, <1>4 DEF Inv

LEMMA RefuseKeeps == ASSUME Inv, NEW c \in Callers, RefuseConfirmation(c) PROVE Inv'
<1>1. Works(setups')
  <2>1. PICK k \in DOMAIN setups :
           /\ OpenSetup(k)
           /\ setups' = IF setups[k].expires <= clock THEN [setups EXCEPT ![k].consumed = TRUE]
                        ELSE [setups EXCEPT ![k].attempts = @ + 1,
                                ![k].consumed = setups[k].attempts + 1 >= MaxAttempts]
    BY ZenonT(60) DEF RefuseConfirmation, loadTOTPSetupTx
  <2> DEFINE b == setups[k].attempts + 1 >= MaxAttempts
  <2>2. b \in BOOLEAN
    OBVIOUS
  <2>3. \/ setups' = [setups EXCEPT ![k].consumed = TRUE]
        \/ setups' = [setups EXCEPT ![k].attempts = @ + 1, ![k].consumed = b]
    BY <2>1
  <2> HIDE DEF b
  <2> QED
    BY ZenonT(60), <2>1, <2>2, <2>3, ConsumedSetup, AttemptedSetup DEF Inv, TypeInv
<1>2. Ends(c) /\ UNCHANGED <<clock, password, sessions, factors, challenges, spent>>
  BY DEF RefuseConfirmation
<1>3. CodeInv' /\ CodesSpentOnce'
  BY <1>1, <1>2, SameRemembers, CodesKept DEF Inv, CodesSpentOnce
<1>4. \A j \in Identities : ActiveFactors(j)' = ActiveFactors(j)
  BY <1>2 DEF ActiveFactors
<1> QED
  BY SMTT(60), <1>1, <1>2, <1>3, <1>4, SameAges, FactorKeeps DEF Inv, TypeInv, Works

LEMMA BeginKeeps == ASSUME Inv, NEW c \in Callers, BeginTOTPEnrollment(c) PROVE Inv'
<1>1. PICK i, f : i = calls[c].identity /\ f = loadActiveTOTPFactorTx(i)
  OBVIOUS
<1>2. PICK row : row = [identity |-> i, session |-> calls[c].session, consumed |-> FALSE, attempts |-> 0,
                        replaces |-> IF ActiveFactors(i) = {} THEN None ELSE f,
                        expires |-> clock + SetupTTL]
  BY ZenonT(60)
<1>3. /\ setups' = Append(replaceSetups(i), row) /\ Ends(c)
      /\ UNCHANGED <<clock, password, sessions, challenges>>
      /\ \/ ActiveFactors(i) = {} /\ UNCHANGED <<factors, spent>>
         \/ \E code \in Submitted(i) :
              /\ ActiveFactors(i) # {} /\ verifyCurrentFactorTx(f, code) /\ factors' = Proved(f, code)
              /\ Spend(code, "setup", Len(setups) + 1)
  BY <1>1, <1>2 DEF BeginTOTPEnrollment, ProvesFactor
<1>4. i \in Identities /\ calls[c].session \in DOMAIN sessions
  BY ZenonT(60), <1>1, SubjectOf DEF BeginTOTPEnrollment
<1>5. row \in SetupRow
  <2>1. calls[c].session \in Nat /\ clock \in Nat /\ SetupTTL \in Nat
    BY SMTT(60), <1>4, SessionsAssumption DEF Inv, TypeInv
  <2>2. ActiveFactors(i) # {} => f \in Nat
    BY SMTT(60), <1>1, ActiveFactor DEF Inv, TypeInv
  <2>3. clock + SetupTTL \in Nat /\ (IF ActiveFactors(i) = {} THEN None ELSE f) \in Nat
    BY <2>1, <2>2 DEF None
  <2> QED
    BY <1>2, <1>4, <2>1, <2>3 DEF SetupRow
<1>6. Works(replaceSetups(i))
  BY ReplacedSetups DEF Inv, TypeInv
<1>7. setups' \in Seq(SetupRow)
  BY SMTT(60), <1>3, <1>5, <1>6, Appended DEF Works
<1>8. CASE ActiveFactors(i) = {} /\ UNCHANGED <<factors, spent>>
  <2>1. CodeInv' /\ CodesSpentOnce'
    BY SMTT(60), <1>3, <1>5, <1>6, <1>8, SameRemembers, CodesKept DEF Inv, CodesSpentOnce
  <2>2. \A j \in Identities : ActiveFactors(j)' = ActiveFactors(j)
    BY SMTT(60), <1>8 DEF ActiveFactors
  <2> QED
    BY SMTT(60), <1>3, <1>7, <1>8, <2>1, <2>2, SameAges, FactorKeeps DEF Inv, TypeInv
<1>9. ASSUME NEW code \in Submitted(i), ActiveFactors(i) # {}, verifyCurrentFactorTx(f, code),
             factors' = Proved(f, code), Spend(code, "setup", Len(setups) + 1)
      PROVE  Inv'
  <2>1. code \in Code /\ f \in DOMAIN factors
    BY SMTT(60), <1>1, <1>9, SubmittedCodes, ActiveFactor DEF Inv
  <2>2. /\ Records(factors', f, code)
        /\ \A g \in DOMAIN factors : factors'[g].status = factors[g].status
    BY <1>9, <2>1, ProvedRecords DEF Inv, TypeInv
  <2>3. CodeInv' /\ CodesSpentOnce'
    BY <1>3, <1>5, <1>6, <1>9, <2>1, <2>2, CodeSpent DEF Inv
  <2>4. Remembers(factors')
    BY <2>2 DEF Records
  <2>5. \A j \in Identities : ActiveFactors(j)' = ActiveFactors(j)
    BY SMTT(60), <2>2, <2>4, SameActive DEF Inv
  <2> QED
    BY ZenonT(60), <1>3, <1>7, <2>3, <2>4, <2>5, SameAges, FactorKeeps DEF Inv, TypeInv, Remembers
<1> QED
  BY <1>3, <1>8, <1>9

LEMMA DisableKeeps == ASSUME Inv, NEW c \in Callers, DisableTOTP(c) PROVE Inv'
<1>1. PICK i, f : i = calls[c].identity /\ f = loadActiveTOTPFactorTx(i)
  OBVIOUS
<1>2. PICK code \in Submitted(i) :
         /\ ActiveFactors(i) # {} /\ verifyCurrentFactorTx(f, code)
         /\ factors' = [Proved(f, code) EXCEPT ![f].status = "removed"]
         /\ Spend(code, "removal", f)
  BY <1>1 DEF DisableTOTP, ProvesFactor
<1>3. /\ setups' = replaceSetups(i) /\ sessions' = revokeIdentitySessionsTx(i, None) /\ Ends(c)
      /\ UNCHANGED <<clock, password, challenges>>
  BY <1>1 DEF DisableTOTP
<1>4. code \in Code /\ f \in DOMAIN factors /\ factors[f].identity = i
  BY <1>1, <1>2, SubmittedCodes, ActiveFactor DEF Inv
<1>5. PICK p : p = Proved(f, code)
  OBVIOUS
<1>6. Records(p, f, code) /\ \A g \in DOMAIN factors : p[g].status = factors[g].status
  BY SMTT(60), <1>2, <1>4, <1>5, ProvedRecords DEF Inv, TypeInv
<1>7. /\ Records(factors', f, code)
      /\ \A g \in DOMAIN factors : g # f => factors'[g].status = factors[g].status
  <2> DEFINE row == [p[f] EXCEPT !.status = "removed"]
  <2>1. /\ p \in Seq(FactorRow) /\ Len(p) = Len(factors) /\ DOMAIN p = DOMAIN factors
        /\ p[f] \in FactorRow
    BY <1>4, <1>6 DEF Records, Remembers, Inv, TypeInv
  <2>2. /\ row \in FactorRow /\ row.identity = p[f].identity /\ row.secret = p[f].secret
        /\ row.lastUsed = p[f].lastUsed /\ row.codes = p[f].codes
    BY ZenonT(60), <2>1 DEF FactorRow
  <2>3. factors' = [p EXCEPT ![f] = row]
    BY <1>2, <1>5
  <2> HIDE DEF row
  <2>4. /\ factors' \in Seq(FactorRow) /\ Len(factors') = Len(factors)
        /\ \A g \in DOMAIN factors : factors'[g] = IF g = f THEN row ELSE p[g]
    BY <1>4, <2>1, <2>2, <2>3
  <2> QED
    BY <1>4, <1>6, <2>2, <2>4 DEF Records, Remembers
<1>8. Works(setups')
  BY <1>3, ReplacedSetups DEF Inv, TypeInv
<1>9. CodeInv' /\ CodesSpentOnce'
  BY ZenonT(60), <1>2, <1>4, <1>7, <1>8, CodeSpent DEF Inv
<1>10. Ages(sessions') /\ \A s \in DOMAIN sessions : sessions[s].identity = i => sessions'[s].revoked
  BY <1>3, IdentityAges DEF Inv, TypeInv, None
<1>11. ASSUME NEW j \in Identities, j # i PROVE ActiveFactors(j)' = ActiveFactors(j)
  BY <1>4, <1>7, <1>11, SameActive DEF Inv, Records
<1>12. factors' \in Seq(FactorRow) /\ setups' \in Seq(SetupRow)
  BY SMTT(60), <1>7, <1>8 DEF Records, Remembers, Works
<1> QED
  BY SMTT(60), <1>3, <1>9, <1>10, <1>11, <1>12, FactorKeeps

\* The factors after the confirmation of setup k: the old ones, none of them active
\* for i, and the new one, which has accepted the code of counter n.
Confirmed(i, k, n) ==
  /\ factors' \in Seq(FactorRow) /\ Len(factors') = Len(factors) + 1
  /\ \A f \in DOMAIN factors :
       /\ f \in DOMAIN factors'
       /\ factors'[f].identity = factors[f].identity /\ factors'[f].secret = factors[f].secret
       /\ factors'[f].lastUsed = factors[f].lastUsed /\ factors'[f].codes = factors[f].codes
       /\ factors[f].identity # i => factors'[f].status = factors[f].status
  /\ \A f \in DOMAIN factors' \ DOMAIN factors :
       factors'[f].identity = i /\ factors'[f].secret = k /\ factors'[f].lastUsed = n

LEMMA ConfirmedFactors ==
  ASSUME Inv, NEW i \in Identities, NEW k \in DOMAIN setups, NEW n \in Nat, NEW new,
         new = [identity |-> i, secret |-> k, status |-> "active", lastUsed |-> -1,
                codes |-> 1..RecoveryCodes],
         factors' = Append([f \in DOMAIN factors |->
                      IF f \in ActiveFactors(i) THEN [factors[f] EXCEPT !.status = "replaced"]
                      ELSE factors[f]], [new EXCEPT !.lastUsed = n])
  PROVE  Confirmed(i, k, n)
<1> DEFINE q == [f \in DOMAIN factors |->
                   IF f \in ActiveFactors(i) THEN [factors[f] EXCEPT !.status = "replaced"]
                   ELSE factors[f]]
           row == [new EXCEPT !.lastUsed = n]
<1>1. /\ row \in FactorRow /\ row.identity = i /\ row.secret = k /\ row.lastUsed = n
  <2>1. k \in Nat /\ n \in Int /\ 1..RecoveryCodes \subseteq Nat
    <3>1. RecoveryCodes \in Nat
      BY SessionsAssumption
    <3>2. k \in Nat
      BY DEF Inv, TypeInv
    <3> QED
      BY <3>1, <3>2
  <2>2. row = [identity |-> i, secret |-> k, status |-> "active", lastUsed |-> n,
               codes |-> 1..RecoveryCodes]
    OBVIOUS
  <2> HIDE DEF row
  <2> QED
    BY <2>1, <2>2 DEF FactorRow
<1>2. ASSUME NEW f \in DOMAIN factors
      PROVE  /\ q[f] \in FactorRow /\ q[f].identity = factors[f].identity /\ q[f].secret = factors[f].secret
             /\ q[f].lastUsed = factors[f].lastUsed /\ q[f].codes = factors[f].codes
             /\ factors[f].identity # i => q[f].status = factors[f].status
  <2>1. factors[f] \in FactorRow
    BY DEF Inv, TypeInv
  <2>2. CASE f \in ActiveFactors(i)
    <3>1. q[f] = [factors[f] EXCEPT !.status = "replaced"] /\ factors[f].identity = i
      BY <2>2 DEF ActiveFactors
    <3> HIDE DEF q
    <3> QED
      BY SMTT(60), <2>1, <3>1 DEF FactorRow
  <2>3. CASE f \notin ActiveFactors(i)
    BY <2>1, <2>3
  <2> QED
    BY <2>2, <2>3
<1>3. /\ q = [f \in 1..Len(factors) |-> q[f]] /\ DOMAIN factors = 1..Len(factors) /\ Len(factors) \in Nat
  BY DEF Inv, TypeInv
<1>4. factors' = Append(q, row)
  OBVIOUS
<1> HIDE DEF q, row
<1>5. q \in Seq(FactorRow) /\ Len(q) = Len(factors) /\ DOMAIN q = DOMAIN factors
  <2>1. q \in Seq(FactorRow) /\ Len(q) = Len(factors)
    BY SMTT(60), <1>2, <1>3, RowsMade
  <2> QED
    BY <1>3, <2>1
<1>6. /\ Append(q, row) \in Seq(FactorRow) /\ Len(Append(q, row)) = Len(q) + 1
      /\ \A f \in DOMAIN Append(q, row) :
           \/ f \in DOMAIN q /\ Append(q, row)[f] = q[f]
           \/ f = Len(q) + 1 /\ Append(q, row)[f] = row
      /\ \A f \in DOMAIN q : f \in DOMAIN Append(q, row) /\ Append(q, row)[f] = q[f]
  BY SMTT(60), <1>1, <1>5, Appended
<1>7. /\ factors' \in Seq(FactorRow) /\ Len(factors') = Len(factors) + 1
      /\ \A f \in DOMAIN factors' \ DOMAIN factors : factors'[f] = row
      /\ \A f \in DOMAIN factors : f \in DOMAIN factors' /\ factors'[f] = q[f]
  BY ZenonT(60), <1>4, <1>5, <1>6
<1> QED
  BY ZenonT(60), <1>1, <1>2, <1>7 DEF Confirmed

LEMMA ConfirmKeeps == ASSUME Inv, NEW c \in Callers, ConfirmTOTPEnrollment(c) PROVE Inv'
<1>1. PICK i : i = calls[c].identity
  OBVIOUS
<1>2. PICK k \in DOMAIN setups, n \in Nat :
         /\ OpenSetup(k) /\ setups[k].identity = i
         /\ factors' = Append([f \in DOMAIN factors |->
                         IF f \in ActiveFactors(i) THEN [factors[f] EXCEPT !.status = "replaced"]
                         ELSE factors[f]],
                       [[identity |-> i, secret |-> k, status |-> "active", lastUsed |-> -1,
                         codes |-> 1..RecoveryCodes] EXCEPT !.lastUsed = n])
         /\ Spend(Totp(k, n), "factor", Len(factors) + 1)
         /\ setups' = [setups EXCEPT ![k].consumed = TRUE]
         /\ sessions' = revokeIdentitySessionsTx(i, None)
  BY ZenonT(60), <1>1 DEF ConfirmTOTPEnrollment, loadTOTPSetupTx
<1>3. Ends(c) /\ UNCHANGED <<clock, password, challenges>>
  BY DEF ConfirmTOTPEnrollment
<1>4. i \in Identities
  BY SMTT(60), <1>1, SubjectOf DEF ConfirmTOTPEnrollment
<1>5. Confirmed(i, k, n)
  BY ZenonT(60), <1>2, <1>4, ConfirmedFactors
<1>6. Works(setups') /\ setups'[k].consumed /\ ~setups[k].consumed
  BY ZenonT(60), <1>2, ConsumedSetup DEF Inv, TypeInv, OpenSetup
<1>7. DOMAIN setups' = DOMAIN setups
  BY <1>6 DEF Works, Inv, TypeInv
<1>8. PICK code, new : code = Totp(k, n) /\ new = [code |-> code, for |-> "factor", n |-> Len(factors) + 1]
  BY ZenonT(60)
<1>9. /\ code \in Code /\ code.kind = "totp" /\ code.of = k /\ code.n = n
      /\ spent' = spent \cup {new} /\ new.code = code
  <2>1. k \in Nat
    BY DEF Inv, TypeInv
  <2> QED
    BY <1>2, <1>8, <2>1 DEF Totp, Code, Spend
<1>10. SecretInv'
  <2>1. ASSUME NEW f \in DOMAIN factors'
        PROVE  factors'[f].secret \in DOMAIN setups' /\ setups'[factors'[f].secret].consumed
    BY SMTT(60), <1>5, <1>6, <1>7 DEF Confirmed, Inv, CodeInv, SecretInv, Works
  <2>2. ASSUME NEW f \in DOMAIN factors', NEW g \in DOMAIN factors', factors'[g].secret = factors'[f].secret
        PROVE  g = f
    <3>1. \A h \in DOMAIN factors : factors[h].secret # k
      BY SMTT(60), <1>6 DEF Inv, CodeInv, SecretInv
    <3>2. f \notin DOMAIN factors /\ g \notin DOMAIN factors => g = f
      BY <1>5 DEF Confirmed, Inv, TypeInv
    <3> QED
      BY SMTT(60), <1>5, <2>2, <3>1, <3>2 DEF Confirmed, Inv, CodeInv, SecretInv
  <2> QED
    BY <2>1, <2>2 DEF SecretInv
<1>11. ASSUME NEW x \in spent PROVE x.code \in Code /\ Recorded(x.code)' /\ x.code # code
  <2>1. x.code \in Code /\ Recorded(x.code)
    BY SMTT(60) DEF Inv, CodeInv, SpentInv
  <2>2. CASE x.code.kind = "totp"
    <3>1. /\ x.code.of \in DOMAIN setups /\ setups[x.code.of].consumed
          /\ \A f \in DOMAIN factors : factors[f].secret = x.code.of => x.code.n <= factors[f].lastUsed
      BY <2>1, <2>2 DEF Recorded
    <3>2. x.code.of # k
      BY SMTT(60), <1>6, <3>1
    <3>3. /\ x.code.of \in DOMAIN setups' /\ setups'[x.code.of].consumed
          /\ \A f \in DOMAIN factors' : factors'[f].secret = x.code.of => x.code.n <= factors'[f].lastUsed
      BY SMTT(60), <1>5, <1>6, <1>7, <3>1, <3>2 DEF Confirmed, Works
    <3> QED
      BY SMTT(60), <1>9, <2>1, <2>2, <3>2, <3>3 DEF Recorded
  <2>3. CASE x.code.kind # "totp"
    BY <1>5, <1>9, <2>1, <2>3 DEF Recorded, Confirmed
  <2> QED
    BY <2>2, <2>3
<1>12. Recorded(code)'
  <2>1. \A f \in DOMAIN factors' : factors'[f].secret = k => factors'[f].lastUsed = n
    BY <1>5, <1>6 DEF Confirmed, Inv, CodeInv, SecretInv
  <2> QED
    BY SMTT(60), <1>6, <1>7, <1>9, <2>1 DEF Recorded
<1>13. CodeInv' /\ CodesSpentOnce'
  BY <1>9, <1>10, <1>11, <1>12 DEF CodeInv, SpentInv, CodesSpentOnce, Inv
<1>14. Ages(sessions') /\ \A s \in DOMAIN sessions : sessions[s].identity = i => sessions'[s].revoked
  BY <1>2, IdentityAges DEF Inv, TypeInv, None
<1>15. ASSUME NEW j \in Identities, j # i PROVE ActiveFactors(j)' = ActiveFactors(j)
  BY <1>5, <1>15 DEF ActiveFactors, Confirmed
<1>16. factors' \in Seq(FactorRow) /\ setups' \in Seq(SetupRow)
  BY <1>5, <1>6 DEF Confirmed, Works
<1> QED
  BY <1>3, <1>13, <1>14, <1>15, <1>16, FactorKeeps

-------------------------------------------------------------------------------
(* The theorems.                                                            *)

LEMMA NextKeeps == ASSUME Inv, [Next]_vars PROVE Inv'
<1>1. CASE UNCHANGED vars
  <2>1. CallInv'
    BY <1>1 DEF vars, Inv, TypeInv, CallInv
  <2> QED
    BY SMTT(60), <1>1, <2>1, QuietKeeps DEF vars, Inv, TypeInv
<1>2. ASSUME NEW c \in Callers,
             \/ Abandon(c)
             \/ \E i \in Identities : loadPasswordCandidate(c, i)
             \/ PasswordLogin(c) \/ CompleteMFALogin(c)
             \/ \E s \in DOMAIN sessions, class \in Classes : AuthenticateSession(c, s, class)
             \/ expireSession(c) \/ TouchSession(c)
             \/ RevokeSession(c) \/ RevokeManagedSession(c) \/ RevokeAllManagedSessions(c)
             \/ BeginTOTPEnrollment(c)
             \/ RefuseConfirmation(c) \/ ConfirmTOTPEnrollment(c) \/ DisableTOTP(c)
      PROVE  Inv'
  BY SMTT(60), <1>2, AbandonKeeps, CandidateKeeps, PasswordLoginKeeps, MFALoginKeeps, AuthenticateKeeps, ExpireKeeps,
     TouchKeeps, ManagedKeeps, BeginKeeps, RefuseKeeps, ConfirmKeeps, DisableKeeps
<1> QED
  BY SMTT(60), <1>1, <1>2, TickKeeps, PasswordKeeps DEF Next

LEMMA InitInv == Init => Inv
<1> SUFFICES ASSUME Init PROVE Inv
  OBVIOUS
<1>1. CallInv
  BY IdleRow DEF Init, CallInv
<1>2. TypeInv
  BY <1>1 DEF Init, TypeInv
<1>3. SessionInv
  BY SMTT(60) DEF Init, SessionInv
<1>4. SecretInv /\ SpentInv /\ CodesSpentOnce
  BY SMTT(60) DEF Init, SecretInv, SpentInv, CodesSpentOnce
<1> QED
  BY SMTT(60), <1>2, <1>3, <1>4 DEF Init, Inv, CodeInv

\* What the listed invariants rest on: the shape of the rows and of the calls in
\* flight, what a standing session was opened with, and which codes were used.
THEOREM Invariance == Spec => []Inv
  BY InitInv, NextKeeps, PTL DEF Spec

\* Once a factor is active, every session that stands was opened with that factor:
\* whatever logins overlap the enrolment, replacement or removal of a factor, none
\* leaves or slips in a session that the factor in force did not open.
THEOREM FactorHonoured == Spec => []SecondFactorHonoured
<1>1. Inv => SecondFactorHonoured
  BY DEF Inv, SessionInv, Standing, SecondFactorHonoured
<1> QED
  BY <1>1, Invariance, PTL

\* A session opened by the password alone stands only while that password is the
\* current one, even if it changed while the login was deriving.
THEOREM PasswordsCurrent == Spec => []PasswordCurrent
<1>1. Inv => PasswordCurrent
  BY DEF Inv, SessionInv, Standing, PasswordCurrent
<1> QED
  BY <1>1, Invariance, PTL

\* A TOTP or recovery code is accepted at most once, whatever it is used for, by
\* however many requests it is submitted together.
THEOREM CodesOnce == Spec => []CodesSpentOnce
<1>1. Inv => CodesSpentOnce
  BY DEF Inv
<1> QED
  BY <1>1, Invariance, PTL

\* A request under a session changes rows only while that session stands: a
\* revocation between its authorisation and its transaction stops it.
THEOREM RevokedActsNot == Spec => RevokedCannotAct
<1>1. ASSUME Inv, [Next]_vars, NEW c \in Callers, calls[c].phase = "write", calls'[c] # calls[c], rows' # rows
      PROVE  Live(calls[c].session)
  <2>1. \A d \in Callers : \A x : Goes(d, x) => d = c
    BY <1>1 DEF Goes, Inv, TypeInv, CallInv
  <2>2. calls[c] # Idle /\ ~In(c, "derive", "login") /\ calls[c].phase \notin {"expire", "touch"}
    BY SMTT(60), <1>1, IdleRow DEF In
  <2>3. PICK d \in Callers :
             \/ PasswordLogin(d) \/ CompleteMFALogin(d)
             \/ expireSession(d) \/ TouchSession(d)
             \/ RevokeSession(d) \/ RevokeManagedSession(d) \/ RevokeAllManagedSessions(d)
             \/ BeginTOTPEnrollment(d)
             \/ RefuseConfirmation(d) \/ ConfirmTOTPEnrollment(d) \/ DisableTOTP(d)
    BY ZenonT(60), <1>1 DEF Next, vars, rows, Tick, SetPasswordCredential, Abandon, loadPasswordCandidate,
       AuthenticateSession
  <2>4. (\E x : Goes(d, x)) \/ TouchSession(d)
    BY ZenonT(60), <2>3 DEF PasswordLogin, CompleteMFALogin, ConsumeChallenge, CountAttempt, OpenSession, expireSession,
       RevokeSession, RevokeManagedSession, RevokeAllManagedSessions, BeginTOTPEnrollment,
       RefuseConfirmation, ConfirmTOTPEnrollment, DisableTOTP, Ends, Goes
  <2>5. d = c
    BY SMTT(60), <1>1, <2>1, <2>4 DEF TouchSession, Inv, TypeInv, CallInv
  <2>6. RevokeSession(c) \/ Subject(c)
    BY ZenonT(60), <2>2, <2>3, <2>5 DEF PasswordLogin, CompleteMFALogin, expireSession, TouchSession,
       RevokeManagedSession, RevokeAllManagedSessions, BeginTOTPEnrollment, RefuseConfirmation,
       ConfirmTOTPEnrollment, DisableTOTP
  <2> QED
    BY <2>6 DEF RevokeSession, Subject, requireSubjectSessionTx, Open
<1>2. Inv /\ [Next]_vars => [\A c \in Callers :
                               /\ calls[c].phase = "write" /\ calls'[c] # calls[c]
                               /\ rows' # rows
                               => Live(calls[c].session)]_vars
  BY <1>1
<1> QED
  BY <1>2, Invariance, PTL DEF Spec, RevokedCannotAct
===============================================================================
