----------------------------- MODULE RequestGuards -----------------------------
(***************************************************************************)
(* What net/guards.py lets through: which URLs may be requested and which   *)
(* responses may be handed to a caller.  Both transports ask it, before     *)
(* every request and after every response.                                  *)
(***************************************************************************)
EXTENDS Naturals

CONSTANTS
    Rules,         \* the allowlist: [scheme, host, port], "any" and 0 for None
    MaxRedirects   \* max_redirects

ASSUME MaxRedirectsAssumption == MaxRedirects \in Nat

\* The port a URL or a rule without one means; fixtures have none.
DefaultPort == [http |-> 80, https |-> 443, fixture |-> 0]

EffectivePort(u) == IF u.port = 0 THEN DefaultPort[u.scheme] ELSE u.port

\* A rule without a scheme takes every scheme; one without a port takes every
\* port, unless it names a scheme that has a default port.
MatchesRule(u, r) ==
    /\ r.host = u.host
    /\ r.scheme \in {"any", u.scheme}
    /\ r.port # 0 => r.port = EffectivePort(u)
    /\ r.port = 0 /\ r.scheme \in {"http", "https"}
          => EffectivePort(u) = DefaultPort[r.scheme]

\* _matches_allowlist.
MatchesAllowlist(u) == \E r \in Rules : MatchesRule(u, r)

\* What the addresses a name resolves to are, as _is_forbidden_ip sorts them.
Addresses == {"global", "forbidden"}

\* _validate_resolved_host: at least one address, and none of them forbidden.
ResolvesPublicly(addresses) == addresses # {} /\ addresses \subseteq {"global"}

\* validate_url; a fixture is a directory and resolves to nothing.
ValidateUrl(u, addresses) ==
    /\ u.scheme \in {"http", "https", "fixture"}
    /\ MatchesAllowlist(u)
    /\ u.scheme # "fixture" => ResolvesPublicly(addresses)

\* A response as far as the guards look at it: the media type it declares,
\* whether the length it declares and the bytes that come fit in
\* response_max_bytes.
Response == [mime: {"approved", "other", "missing"},
             length: {"undeclared", "fits", "over", "invalid"},
             body: {"fits", "over"}]

ValidateMime(r) == r.mime = "approved"

ValidateContentLength(r) == r.length \in {"undeclared", "fits"}

\* consume_limited stops at the first byte too many.
ConsumeLimited(r) == r.body = "fits"

Accepts(r) == ValidateMime(r) /\ ValidateContentLength(r) /\ ConsumeLimited(r)

\* A server may answer a conditional request with 304: no body, and seldom a
\* media type.
Unchanged == {r \in Response : r.mime # "other" /\ r.length = "undeclared" /\ r.body = "fits"}

\* What the guards may say of a URL, by what its name resolves to at the time;
\* of a response; of a redirect after so many others.
UrlVerdicts(u) == {ValidateUrl(u, addresses) : addresses \in SUBSET Addresses}

ResponseVerdicts(unchanged) ==
    {Accepts(r) : r \in IF unchanged THEN Unchanged ELSE Response}

\* Faulty: the limit itself may be used up once more.
RedirectVerdictsInclusive(target, hops) ==
    {hops <= MaxRedirects /\ verdict : verdict \in UrlVerdicts(target)}

\* redirect_target: the limit, then the same question about the new URL.
RedirectVerdicts(target, hops) ==
    {hops < MaxRedirects /\ verdict : verdict \in UrlVerdicts(target)}
===============================================================================
