------------------------------ MODULE Bootstrap ------------------------------
(***************************************************************************)
(* The capability that creates the first administrator                     *)
(* (internal/core/bootstrap.go, bootstrap_digest.go).  A code is registered *)
(* by its digest, by the installer ("sealed") or by the local command      *)
(* ("local"); at most one row is neither consumed nor invalidated.  A       *)
(* request for the first administrator is authorised in one transaction,    *)
(* waits for a slot of the password derivation, is checked again, derives   *)
(* the password and commits in another transaction.                         *)
(***************************************************************************)
EXTENDS Naturals

CONSTANTS Tries,      \* concurrent requests
          SourceLimit \* attempts of one address in a window

VARIABLES codes,      \* per code: none, active, expired (not yet invalidated), invalid, used
          admin,      \* administrators created
          tries,      \* per request: its step, the code it was authorised with, and what had expired by then
          limiter     \* the rate limit of the source address

bootstrapVars == <<codes, admin, tries, limiter>>

Codes == {"sealed", "local"}
ASSUME BootstrapAssumption == SourceLimit \in Nat \ {0}

Idle == [step |-> "idle", code |-> "sealed", past |-> {}]

InitBootstrap ==
  /\ codes = [c \in Codes |-> "none"] /\ admin = 0
  /\ tries = [t \in Tries |-> Idle]
  /\ limiter = [attempts |-> 0, blocked |-> FALSE]

platformAdministratorExistsTx == admin > 0

\* Rows that are neither consumed nor invalidated; expiry is noticed by a reader.
Unspent == {c \in Codes : codes[c] \in {"active", "expired"}}

\* An expired or (on request) an active row makes room for a new digest.
Invalidated == [c \in Codes |-> IF c \in Unspent THEN "invalid" ELSE codes[c]]

\* Registering c succeeds and leaves cs: an exact retry changes nothing.
registerBootstrapDigest(c, replace, replayActive, cs) ==
  /\ ~platformAdministratorExistsTx
  /\ \/ replayActive /\ codes[c] = "active" /\ cs = codes
     \/ /\ codes[c] = "none" /\ \A o \in Unspent : codes[o] = "expired" \/ replace
        /\ cs = [Invalidated EXCEPT ![c] = "active"]

\* stackfort-api bootstrap create [--replace].
CreateBootstrapCapability ==
  /\ \E replace \in BOOLEAN : registerBootstrapDigest("local", replace, FALSE, codes')
  /\ UNCHANGED <<admin, tries, limiter>>

Expire == \E c \in Codes : codes[c] = "active" /\ codes' = [codes EXCEPT ![c] = "expired"] /\ UNCHANGED <<admin, tries, limiter>>

\* The attempt is counted, and the address blocked beyond its limit; the first attempt
\* after the window and the block begins another window.
applyBootstrapRateLimitTx ==
  \/ limiter.attempts > 0 /\ limiter' = [attempts |-> 1, blocked |-> FALSE]
  \/ limiter' = IF limiter.blocked \/ limiter.attempts >= SourceLimit
                THEN [limiter EXCEPT !.blocked = TRUE] ELSE [limiter EXCEPT !.attempts = @ + 1]

\* A request reads the clock and then waits for the database: a transaction knows of
\* the codes that had expired at some moment since the request's step before it.
Expired == {c \in Codes : codes[c] = "expired"}
timestamp(t) == {tries[t].past, Expired}

\* Rows that the clock of a transaction does not rule out.
Valid(past) == Unspent \ past
Answered(t) == tries' = [tries EXCEPT ![t] = Idle]

authorizeBootstrapAttempt(t) ==
  /\ tries[t].step = "idle" /\ ~platformAdministratorExistsTx
  /\ applyBootstrapRateLimitTx
  /\ \E past \in timestamp(t) :
       IF limiter'.blocked THEN UNCHANGED <<codes, tries>>
       ELSE /\ codes' = [o \in Codes |-> IF o \in Unspent \cap past THEN "invalid" ELSE codes[o]]
            /\ \/ \E c \in Valid(past) : tries' = [tries EXCEPT ![t] = [step |-> "authorised", code |-> c, past |-> Expired]]
               \/ UNCHANGED tries
  /\ UNCHANGED admin

\* With a slot of the password derivation; a request may also be refused, fail, or be
\* given up while it waits for the slot.
validateBootstrapAuthorization(t) ==
  /\ tries[t].step = "authorised"
  /\ \/ /\ ~platformAdministratorExistsTx /\ \E past \in timestamp(t) : tries[t].code \in Valid(past)
        /\ tries' = [tries EXCEPT ![t] = [step |-> "derived", code |-> tries[t].code, past |-> Expired]]
     \/ Answered(t)
  /\ UNCHANGED <<codes, admin, limiter>>

\* Mutation: the commit trusts the authorisation of the request.
BootstrapAdministrator_Trusting(t) ==
  /\ tries[t].step = "derived" /\ Answered(t)
  /\ IF ~platformAdministratorExistsTx
     THEN admin' = admin + 1 /\ codes' = [codes EXCEPT ![tries[t].code] = "used"]
     ELSE UNCHANGED <<admin, codes>>
  /\ UNCHANGED limiter

\* Identity, credential, role and the consumed code commit together, or not at all.
BootstrapAdministrator(t) ==
  /\ tries[t].step = "derived" /\ Answered(t)
  /\ \/ /\ ~platformAdministratorExistsTx /\ \E past \in timestamp(t) : tries[t].code \in Valid(past)
        /\ admin' = admin + 1 /\ codes' = [codes EXCEPT ![tries[t].code] = "used"]
     \/ UNCHANGED <<admin, codes>>
  /\ UNCHANGED limiter

\* A request comes in; the panel goes on with those that it has.
RequestArrives == \E t \in Tries : authorizeBootstrapAttempt(t)
BootstrapRequest == \E t \in Tries : validateBootstrapAuthorization(t) \/ BootstrapAdministrator(t)

\* The process stops: its requests are gone.
RequestsLost == tries' = [t \in Tries |-> Idle]

\* The first administrator is created once, by a code that was not replaced, withdrawn
\* or used up to the commit and that had not expired when it was checked for the
\* derivation of the password, even where the older clock of that check let it pass;
\* a code that is out of force stays so.  Only an expiry after that check can be
\* overlooked, by a commit that read the clock and then waited for the database.
CodeHonoured ==
  [][/\ \A c \in Codes : codes[c] \in {"invalid", "used"} => codes'[c] = codes[c]
     /\ admin' > admin =>
          /\ admin = 0
          /\ \E t \in Tries : /\ codes[tries[t].code] \in {"active", "expired"} /\ codes'[tries[t].code] = "used"
                             /\ tries[t].step = "derived" /\ tries[t].code \notin tries[t].past]_bootstrapVars
==============================================================================
