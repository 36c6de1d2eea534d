------------------------------- MODULE Domains -------------------------------
(***************************************************************************)
(* The domain records of one hosting account (internal/core/domain.go,      *)
(* waf_exceptions.go): domains, their current target, cache and WAF policy, *)
(* TLS intent and WAF exceptions, and the mutations operations make to      *)
(* them.  Every mutation is one serialized transaction; it is recorded      *)
(* under its operation, and a replay of the operation changes nothing.      *)
(*                                                                         *)
(* An operation is named by its number.  Rows it creates carry it as their  *)
(* identifier: the domain of a create, the target and cache generation of   *)
(* an edit, the WAF exception, the certificate of an order.  0 is "none".   *)
(* TLS names and challenge follow from the target: a wildcard redirect has  *)
(* the extra name *.name and needs DNS-01, every other target is HTTP-01.   *)
(***************************************************************************)
EXTENDS Naturals, FiniteSets, Sequences

CONSTANTS
  MaxOps,         \* operations of a behaviour
  Names,          \* domain names
  Below,          \* <<n, m>>: n is a subdomain of m
  Versions,       \* PHP versions
  Allowed,        \* targets the package allows (its PHP versions and features)
  MaxDomains,     \* domain limit of the package
  MaxExceptions   \* wafconfig.MaximumExceptions

VARIABLES
  domain,         \* domains, with current target, cache and WAF policy
  tls,            \* domain_tls_states
  certificate,    \* tls_certificates, with their orders
  exception,      \* domain_waf_exceptions
  mutated         \* domain_lifecycle_mutations

rows == <<domain, tls, certificate, exception, mutated>>

Ids == 1..MaxOps
Targets == {"static", "redirect", "wildcard", "oci"} \union Versions
Presets == {"disabled", "respect_origin", "fastcgi"}
WAFModes == {"off", "detection_only", "blocking"}

ASSUME DomainAssumption ==
  /\ MaxOps \in Nat \ {0} /\ MaxDomains \in Nat /\ MaxExceptions \in Nat
  /\ Below \subseteq Names \X Names /\ \A n \in Names : <<n, n>> \notin Below
  /\ Allowed \subseteq Targets /\ "static" \in Allowed
  /\ Versions \intersect {"static", "redirect", "wildcard", "oci"} = {}
  /\ "public_html" \notin Names

NoDomain == [status |-> "none", name |-> "", target |-> "static", root |-> "", tid |-> 0,
             preset |-> "disabled", generation |-> 0, waf |-> "off"]
NoTLS == [enabled |-> FALSE, mode |-> "acme", status |-> "disabled", ref |-> 0, retry |-> FALSE]
NoCertificate == [status |-> "none", domain |-> 0, replaces |-> 0]
NoException == [status |-> "none", domain |-> 0, removal |-> 0]

DomainsInit ==
  /\ domain = [d \in Ids |-> NoDomain]
  /\ tls = [d \in Ids |-> NoTLS]
  /\ certificate = [c \in Ids |-> NoCertificate]
  /\ exception = [e \in Ids |-> NoException]
  /\ mutated = {}

Live == {d \in Ids : domain[d].status \in {"pending", "active", "suspended"}}
Rooted(t) == t = "static" \/ t \in Versions
Wildcard(t) == t = "wildcard"

-------------------------------------------------------------------------------
(* The checks of a target.                                                 *)

validateTargetAgainstPackage(t) == t \in Allowed
validateCacheTarget(preset, t) == preset = "disabled" \/ t \in Versions \union {"oci"}

\* A name may not lie below, or be, a live wildcard redirect; a new wildcard
\* redirect may have no live domain below it.
ensureNoWildcardConflict(name, d, t) ==
  /\ ~\E e \in Live \ {d} : /\ Wildcard(domain[e].target)
                            /\ name = domain[e].name \/ <<name, domain[e].name>> \in Below
  /\ Wildcard(t) => ~\E e \in Live \ {d} : <<domain[e].name, name>> \in Below

\* Where resolveDocumentRootTx roots domain d: at the root it shares, at the
\* path asked for, or by default at its own name under a parent domain.
MayRoot(d, r) ==
  Rooted(r.target) /\ r.share # 0 =>
    r.share \in Live \ {d} /\ Rooted(domain[r.share].target)
resolveDocumentRoot(d, name, r) ==
  IF ~Rooted(r.target) THEN ""
  ELSE IF r.share # 0 THEN domain[r.share].root
  ELSE IF r.root # "" THEN r.root
  ELSE IF \E e \in Live \ {d} : <<name, domain[e].name>> \in Below THEN name
  ELSE "public_html"

-------------------------------------------------------------------------------
(* The mutations: Can... is what the transaction checks, the operator of    *)
(* the function's name what it writes for operation o and request r.        *)

CanCreate(o, r) ==
  /\ Cardinality(Live) < MaxDomains
  /\ validateCacheTarget(r.preset, r.target)
  /\ validateTargetAgainstPackage(r.target)
  /\ ensureNoWildcardConflict(r.name, o, r.target)
  /\ \A d \in Live : domain[d].name # r.name
  /\ MayRoot(o, r)
CreateDomain(o, r) ==
  /\ domain' = [domain EXCEPT ![o] =
       [status |-> "pending", name |-> r.name, target |-> r.target,
        root |-> resolveDocumentRoot(o, r.name, r), tid |-> o,
        preset |-> r.preset, generation |-> o, waf |-> r.waf]]
  /\ tls' = [tls EXCEPT ![o] =
       [enabled |-> r.tls # "none", mode |-> IF r.tls = "imported" THEN "imported" ELSE "acme",
        status |-> IF r.tls = "none" THEN "disabled" ELSE "pending", ref |-> 0, retry |-> FALSE]]
  /\ mutated' = mutated \union {o}
  /\ UNCHANGED <<certificate, exception>>

Retired(d) == [c \in Ids |-> IF certificate[c].status = "active" /\ certificate[c].domain = d
                             THEN [certificate[c] EXCEPT !.status = "retired"] ELSE certificate[c]]

\* A target of other TLS names or challenge drops the certificate in use.  Of
\* an imported certificate only the names can change; that drops it as well.
refreshTLSIntent(d, t) ==
  IF Wildcard(domain[d].target) = Wildcard(t) THEN UNCHANGED <<tls, certificate>>
  ELSE /\ tls' = [tls EXCEPT ![d].status = IF @ = "disabled" THEN @ ELSE "pending",
                             ![d].ref = 0, ![d].retry = FALSE]
       /\ certificate' = Retired(d)

Given(new, old) == IF new = "keep" THEN old ELSE new

CanUpdate(o, r) ==
  /\ r.on \in Live
  /\ r.do = "purge" => domain[r.on].preset = "fastcgi"
  /\ r.target # "keep" =>
       /\ validateTargetAgainstPackage(r.target)
       /\ ensureNoWildcardConflict(domain[r.on].name, r.on, r.target)
       /\ MayRoot(r.on, r)
  /\ validateCacheTarget(Given(r.preset, domain[r.on].preset), Given(r.target, domain[r.on].target))
\* Every edit rotates the cache generation; only one with a target takes a new
\* target identifier.
UpdateDomain(o, r) ==
  LET d == r.on  old == domain[d] IN
  /\ domain' = [domain EXCEPT ![d] =
       [old EXCEPT !.status = IF @ = "suspended" THEN @ ELSE "pending",
                   !.target = Given(r.target, @),
                   !.root = IF r.target = "keep" THEN @ ELSE resolveDocumentRoot(d, old.name, r),
                   !.tid = IF r.target = "keep" THEN @ ELSE o,
                   !.preset = Given(r.preset, @), !.waf = Given(r.waf, @),
                   !.generation = o]]
  /\ refreshTLSIntent(d, Given(r.target, old.target))
  /\ mutated' = mutated \union {o}
  /\ UNCHANGED exception

ChangeAllowed(do) == IF do = "suspend" THEN {"pending", "active"} ELSE {"suspended"}
CanChange(o, r) == r.on \in Ids /\ domain[r.on].status \in ChangeAllowed(r.do)
changeDomainStatus(o, r) ==
  /\ domain' = [domain EXCEPT ![r.on].status = IF r.do = "suspend" THEN "suspended" ELSE "pending"]
  /\ mutated' = mutated \union {o}
  /\ UNCHANGED <<tls, certificate, exception>>

CanRemove(o, r) == r.on \in Live
RemoveDomain(o, r) ==
  /\ domain' = [domain EXCEPT ![r.on].status = "removed"]
  /\ certificate' = Retired(r.on)
  /\ tls' = [tls EXCEPT ![r.on] = [@ EXCEPT !.enabled = FALSE, !.status = "disabled",
                                            !.ref = 0, !.retry = FALSE]]
  /\ mutated' = mutated \union {o}
  /\ UNCHANGED exception

Exceptions(d) == {e \in Ids : exception[e].status = "active" /\ exception[e].domain = d}
\* In a package with exceptions, and each with a scope of its own: a request without
\* either is refused and changes nothing.
CanExcept(o, r) ==
  /\ r.on \in Live /\ domain[r.on].waf # "off"
  /\ Cardinality(Exceptions(r.on)) < MaxExceptions
CreateDomainWAFException(o, r) ==
  /\ exception' = [exception EXCEPT ![o] = [status |-> "active", domain |-> r.on, removal |-> 0]]
  /\ UNCHANGED <<domain, tls, certificate, mutated>>

CanUnexcept(o, r) == r.share \in Ids /\ exception[r.share].domain = r.on
                     /\ exception[r.share].status = "active"
RemoveDomainWAFException(o, r) ==
  /\ exception' = [exception EXCEPT ![r.share] = [@ EXCEPT !.status = "removed", !.removal = o]]
  /\ UNCHANGED <<domain, tls, certificate, mutated>>

\* The transaction finds what operation o already did.
Replayed(o, r) ==
  \/ o \in mutated
  \/ r.do = "except" /\ exception[o].status # "none"
  \/ r.do = "unexcept" /\ r.share \in Ids /\ exception[r.share].removal = o

\* Mutation: rows are confirmed by domain, whatever their target is now.
ConfirmDomainActivation_AnyTarget(expected) ==
  /\ domain' = [d \in Ids |-> IF domain[d].status = "pending" /\ \E t \in Ids : <<d, t>> \in expected
                              THEN [domain[d] EXCEPT !.status = "active"] ELSE domain[d]]
  /\ UNCHANGED <<tls, certificate, exception, mutated>>

\* Promotes the rows still pending on the target the document was made from.
ConfirmDomainActivation(expected) ==
  /\ domain' = [d \in Ids |-> IF domain[d].status = "pending" /\ <<d, domain[d].tid>> \in expected
                              THEN [domain[d] EXCEPT !.status = "active"] ELSE domain[d]]
  /\ UNCHANGED <<tls, certificate, exception, mutated>>
===============================================================================
