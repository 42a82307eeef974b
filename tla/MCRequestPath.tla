---------------------------- MODULE MCRequestPath ----------------------------
EXTENDS RequestPath, TLC

CONSTANTS h1, h2, a, lo

Get(p, peer, xff, tok) ==
  [path |-> p, peer |-> peer, xff |-> xff, realIP |-> NoHeader, token |-> tok,
   update |-> [f \in {} |-> 0]]
Post(peer, xff, tok, update) ==
  [Get("/api/v1/settings", peer, xff, tok) EXCEPT !.update = update]

\* A client that makes up a header, and one behind the local proxy.
Visits == { Get("/", a, lo, FALSE), Get("/", lo, a, FALSE) }

\* Logins, edits of each field with a session, with the token and from this host.
Edits ==
  { Get("/api/v1/settings/session", a, NoHeader, TRUE),
    Get("/healthz", a, NoHeader, FALSE),
    Post(a, NoHeader, FALSE, [default_locale |-> "es"]),
    Post(lo, NoHeader, FALSE, [default_locale |-> "xx"]),
    Post(lo, NoHeader, TRUE, [compact_numbers |-> "compact"]) }

Server(token, local, trusted, whitelist, limited, clients) ==
  [token |-> token, localOnly |-> local, trusted |-> trusted, whitelist |-> whitelist,
   scope |-> {"/api/v1/settings", "/settings"}, limited |-> limited, clients |-> clients]

ServerConfigs ==
  { Server(FALSE, FALSE, {lo}, {}, TRUE, Visits),
    Server(TRUE, FALSE, {}, {a}, FALSE, Edits),
    Server(FALSE, TRUE, {}, {}, FALSE, Edits) }

Interchangeable == Permutations(Handlers)
=============================================================================
