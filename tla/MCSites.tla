------------------------------- MODULE MCSites -------------------------------
(***************************************************************************)
(* Small instances of Sites: what the clients ask for.  Domain 1 is the one *)
(* the first operation creates; "b" is a subdomain of "a".                  *)
(***************************************************************************)
EXTENDS Sites

Subdomains == {<<"b", "a">>}

Ask(do, d) ==
  [by |-> "client", do |-> do, on |-> d, name |-> "", target |-> "keep", root |-> "", share |-> 0,
   preset |-> "keep", waf |-> "keep", tls |-> "auto"]
AskCreate(n, t) ==
  [Ask("create", 0) EXCEPT !.name = n, !.target = t, !.preset = "disabled", !.waf = "off"]

\* An application with cache and WAF, a static domain below it, and all that
\* can be done to the first.
AllRequests ==
  {[AskCreate("a", "8.3") EXCEPT !.preset = "fastcgi", !.waf = "blocking"],
   [AskCreate("b", "static") EXCEPT !.root = "p"],
   [Ask("edit", 1) EXCEPT !.target = "wildcard", !.preset = "disabled"],
   [Ask("edit", 1) EXCEPT !.target = "static", !.preset = "disabled"],
   [Ask("unexcept", 1) EXCEPT !.share = 2]} \union
  {Ask(do, 1) : do \in {"purge", "suspend", "resume", "remove", "except", "issue"}}

\* One domain, and a change of its policy.
PolicyRequests == {AskCreate("a", "static"), [Ask("edit", 1) EXCEPT !.waf = "blocking"]}
\* One domain, removed.
RemovalRequests == {AskCreate("a", "static"), Ask("remove", 1)}
\* One domain, whose certificates are the scheduler's.
DomainRequests == {AskCreate("a", "static")}
===============================================================================
