----------------------------- MODULE Certificates -----------------------------
(***************************************************************************)
(* Certificate orders of the domains (internal/core/tls_certificate.go) and *)
(* the scheduler's queries over them (internal/certificates).  The order of *)
(* operation o makes certificate o.  A certificate's renewal time passes    *)
(* when it enters due; the scheduler reads the time on the certificate.     *)
(***************************************************************************)
EXTENDS Domains

CONSTANT
  LateNames       \* names n with "www." < n: "www." + n sorts before n

VARIABLE
  due             \* certificates whose next_renewal_at has passed

ASSUME CertificateAssumption == LateNames \subseteq Names

\* HTTP-01 issuance is for active domains with ACME certificates.
Eligible(d) == /\ domain[d].status = "active" /\ tls[d].enabled /\ tls[d].mode = "acme"
               /\ ~Wildcard(domain[d].target)
\* The stored names, apex first, against the names of the order, sorted.
NamesMatch(d) == domain[d].name \notin LateNames

Ordered(o) == certificate[o].status # "none"

\* replaces is 0 for an initial issue.
CanPrepare(d, replaces) ==
  /\ d \in Ids /\ Eligible(d) /\ NamesMatch(d)
  /\ IF replaces = 0
     THEN tls[d].ref = 0 /\ tls[d].status \in {"pending", "failed"}
     ELSE tls[d].ref = replaces /\ tls[d].status \in {"active", "failed"}
PrepareTLSCertificateOrder(o, d, replaces) ==
  /\ certificate' = [certificate EXCEPT ![o] =
       [status |-> "ordering", domain |-> d, replaces |-> replaces]]
  /\ tls' = [tls EXCEPT ![d].status = IF replaces = 0 THEN "issuing" ELSE "renewing"]
  /\ UNCHANGED <<domain, exception, mutated>>

StageTLSCertificate(o) ==
  /\ certificate' = [certificate EXCEPT ![o].status = "staged"]
  /\ UNCHANGED <<domain, tls, exception, mutated>>

\* Mutation: the table does not tie a certificate to enabled TLS.
Updatable_Always(o) == TRUE

\* The update of an order's domain aborts on the table's check when TLS has
\* been disabled since, by the removal of the domain.
Updatable(o) == tls[certificate[o].domain].enabled

\* Activation: the names must still be those of the order.
CanActivate(o) == /\ certificate[o].status = "staged" /\ Updatable(o)
                  /\ ~Wildcard(domain[certificate[o].domain].target)
ActivateTLSCertificate(o) ==
  LET d == certificate[o].domain IN
  /\ certificate' = [Retired(d) EXCEPT ![o].status = "active"]
  /\ tls' = [tls EXCEPT ![d] = [@ EXCEPT !.status = "active", !.ref = o, !.retry = FALSE]]
  /\ UNCHANGED <<domain, exception, mutated>>

\* A final failure of a renewal stores a retry time with the domain's TLS state.
FailTLSCertificateOrder(o, final) ==
  LET d == certificate[o].domain IN
  /\ tls' = [tls EXCEPT ![d] =
       [@ EXCEPT !.status = "failed", !.retry = @ \/ (final /\ certificate[o].replaces # 0)]]
  /\ UNCHANGED <<domain, certificate, exception, mutated>>

-------------------------------------------------------------------------------
(* What the scheduler finds to do, while the operations in unfinished are   *)
(* pending or running.                                                     *)

ListPendingTLSCertificateIssuances(unfinished) ==
  {d \in Ids : /\ Eligible(d) /\ tls[d].status = "pending" /\ tls[d].ref = 0
               /\ ~\E o \in Ids : Ordered(o) /\ certificate[o].domain = d /\ o \in unfinished}

ListDueTLSCertificateRenewals(unfinished) ==
  {c \in due : /\ certificate[c].status = "active"
               /\ Eligible(certificate[c].domain) /\ tls[certificate[c].domain].ref = c
               /\ ~\E o \in Ids : certificate[o].replaces = c /\ Ordered(o) /\ o \in unfinished}
===============================================================================
