--------------------------- MODULE ServiceTokens ---------------------------
(***************************************************************************)
(* Calls to other services in the name of this backend (submission.rs):    *)
(* the team of a user (HpsTeamResolver, with a cache of teams), a bot's    *)
(* game token (GameTokenIssuer) and the logs achievement                   *)
(* (LogsAchievementGranter, which repeats a call after a transient error). *)
(* All of them use one cached service token of Keycloak; a call that is    *)
(* refused fetches a new token and is made once more.  The calls run       *)
(* concurrently and nothing keeps two of them from fetching at once.       *)
(***************************************************************************)
EXTENDS Integers, Sequences, FiniteSetsExt

CONSTANTS Callers,    \* requests that need another service
          Users,      \* whose team is asked for
          Lifetimes,  \* expires_in of a new token
          Safety,     \* SERVICE_TOKEN_TTL_SAFETY_SEC
          MinTtl,     \* SERVICE_TOKEN_MIN_TTL_SEC
          TeamTtl,    \* TEAM_CACHE_TTL
          CallTime,   \* the longest a response is under way: the timeouts
          Retries,    \* ACHIEVEMENT_TRANSIENT_RETRIES
          MaxTime,    \* bound
          MaxTokens,  \* bound: tokens Keycloak issues
          Nil

\* Assumed of the constants.
TokenAssumption ==
    /\ {CallTime, Safety, MinTtl, TeamTtl, Retries, MaxTime} \subseteq Nat
    /\ Lifetimes \subseteq Nat
    /\ CallTime <= Safety

VARIABLES now,
          issued,     \* Keycloak's tokens: lifetime and end
          revoked,    \* tokens the services no longer accept
          auth,       \* auth_token: the cached token
          cache,      \* team_cache: when an entry expires, and when the
                      \* platform said so
          call        \* the callers

vars == <<now, issued, revoked, auth, cache, call>>

Rest(refused, own) ==
    [at |-> "idle", kind |-> Nil, user |-> Nil, token |-> 0, own |-> own, again |-> FALSE,
     tries |-> 0, since |-> 0, refused |-> refused]

Resting == Rest(FALSE, FALSE)

Init == /\ now = 0
        /\ issued = <<>> /\ revoked = {}
        /\ auth = Nil
        /\ cache = [u \in Users |-> Nil]
        /\ call = [c \in Callers |-> Resting]

\* Time passes while no response is under way for longer than its timeout.
Tick ==
    /\ now < MaxTime
    /\ \A c \in Callers : call[c].at \in {"store", "answer"} => now < call[c].since + CallTime
    /\ now' = now + 1
    /\ UNCHANGED <<issued, revoked, auth, cache, call>>

\* A service stops accepting a token before its end.
Revoke(t) ==
    /\ t \in DOMAIN issued \ revoked
    /\ revoked' = revoked \cup {t}
    /\ UNCHANGED <<now, issued, auth, cache, call>>

-----------------------------------------------------------------------------
(* The token. *)

\* resolve_team_id serves an entry that has not expired.
Fresh(u) == cache[u] # Nil /\ cache[u].expires > now

\* A request that cannot be answered from the team cache.
Start(c, kind, u) ==
    /\ call[c].at = "idle"
    /\ kind = "team" => ~Fresh(u)
    /\ call' = [call EXCEPT ![c] = [Resting EXCEPT !.at = "token", !.kind = kind,
                                                           !.user = u]]
    /\ UNCHANGED <<now, issued, revoked, auth, cache>>

\* current_or_fetch_token
CurrentOrFetch(c) ==
    /\ call[c].at = "token"
    /\ call' = IF auth # Nil /\ auth.expires > now
               THEN [call EXCEPT ![c].at = "call", ![c].token = auth.token]
               ELSE [call EXCEPT ![c].at = "fetch"]
    /\ UNCHANGED <<now, issued, revoked, auth, cache>>

\* fetch_service_token: Keycloak issues a token, and the response is under way.
Fetch(c, life) ==
    /\ call[c].at = "fetch"
    /\ Len(issued) < MaxTokens
    /\ issued' = Append(issued, [life |-> life, ends |-> now + life])
    /\ call' = [call EXCEPT ![c].at = "store", ![c].token = Len(issued'), ![c].own = TRUE,
                            ![c].since = now]
    /\ UNCHANGED <<now, revoked, auth, cache>>

EffectiveTtl(life) == Max({life - Safety, MinTtl})

\* The response arrives; its lifetime counts from now.
Store(c) ==
    /\ call[c].at = "store"
    /\ auth' = [token |-> call[c].token,
                expires |-> now + EffectiveTtl(issued[call[c].token].life)]
    /\ call' = [call EXCEPT ![c].at = "call", ![c].since = 0]
    /\ UNCHANGED <<now, issued, revoked, cache>>

FetchFails(c) ==
    /\ call[c].at = "fetch"
    /\ call' = [call EXCEPT ![c] = Resting]
    /\ UNCHANGED <<now, issued, revoked, auth, cache>>

-----------------------------------------------------------------------------
(* The call. *)

Accepted(t) == t \notin revoked /\ now < issued[t].ends

\* The service answers a call whose token it accepts.
Answered(c, kind) == call[c].at = "call" /\ call[c].kind = kind /\ Accepted(call[c].token)

\* fetch_team_id_with_token: the team is on its way.
TeamFound(c) ==
    /\ Answered(c, "team")
    /\ call' = [call EXCEPT ![c].at = "answer", ![c].since = now]
    /\ UNCHANGED <<now, issued, revoked, auth, cache>>

\* issue_team_bot_token_with_cookie: an empty token is an error like any other.
TokenIssued(c) ==
    /\ Answered(c, "token")
    /\ call' = [call EXCEPT ![c] = Resting]
    /\ UNCHANGED <<now, issued, revoked, auth, cache>>

\* grant_logs_achievement_with_cookie: granted, granted before or not accepted
\* all end the call.
Granted(c) ==
    /\ Answered(c, "grant")
    /\ call' = [call EXCEPT ![c] = Resting]
    /\ UNCHANGED <<now, issued, revoked, auth, cache>>

\* Mutated form: the second attempt takes the cached token.
AfterRefusalCached(c) == [call EXCEPT ![c].at = "token", ![c].again = TRUE, ![c].tries = 0]

\* refresh_token is called without a look at the cache.
AfterRefusal(c) == [call EXCEPT ![c].at = "fetch", ![c].again = TRUE, ![c].tries = 0]

\* The service refuses the token (or the caller): once more with a new token.
CallRefused(c) ==
    /\ call[c].at = "call"
    /\ ~Accepted(call[c].token)
    /\ call' = IF call[c].again THEN [call EXCEPT ![c] = Rest(TRUE, call[c].own)]
               ELSE AfterRefusal(c)
    /\ UNCHANGED <<now, issued, revoked, auth, cache>>

\* A timeout or a transient error; only the achievement is asked for again.
CallFails(c) ==
    /\ call[c].at = "call"
    /\ call' = IF call[c].kind = "grant" /\ call[c].tries < Retries
               THEN [call EXCEPT ![c].tries = @ + 1]
               ELSE [call EXCEPT ![c] = Resting]
    /\ UNCHANGED <<now, issued, revoked, auth, cache>>

\* resolve_team_id caches the team from now on.
Answer(c) ==
    /\ call[c].at = "answer"
    /\ cache' = [cache EXCEPT ![call[c].user] =
                    [expires |-> now + TeamTtl, asof |-> call[c].since]]
    /\ call' = [call EXCEPT ![c] = Resting]
    /\ UNCHANGED <<now, issued, revoked, auth>>

\* The request is dropped, or its response never comes.
Drop(c) ==
    /\ call[c].at # "idle"
    /\ call' = [call EXCEPT ![c] = Resting]
    /\ UNCHANGED <<now, issued, revoked, auth, cache>>

Next == \/ Tick
        \/ \E t \in 1..MaxTokens : Revoke(t)
        \/ \E c \in Callers :
              \/ \E kind \in {"team", "token", "grant"}, u \in Users : Start(c, kind, u)
              \/ CurrentOrFetch(c) \/ Store(c) \/ FetchFails(c)
              \/ \E life \in Lifetimes : Fetch(c, life)
              \/ TeamFound(c) \/ TokenIssued(c) \/ Granted(c)
              \/ CallRefused(c) \/ CallFails(c) \/ Answer(c) \/ Drop(c)

Spec == Init /\ [][Next]_vars

-----------------------------------------------------------------------------
(* Properties. *)

TypeOK ==
    /\ now \in 0..MaxTime /\ revoked \subseteq DOMAIN issued
    /\ auth # Nil => auth.token \in DOMAIN issued
    /\ \A c \in Callers :
          /\ call[c].at \in {"idle", "token", "fetch", "store", "call", "answer"}
          /\ call[c].at \in {"store", "call", "answer"} => call[c].token \in DOMAIN issued
          /\ call[c].tries <= Retries

\* A stale cached token alone never fails a call: a call that ends refused had
\* its last token from Keycloak itself, whatever other calls stored meanwhile.
RefusedOnlyWhenFresh ==
    \A c \in Callers : call[c].refused => call[c].own

\* While the cached token is handed out it has not expired at Keycloak, unless
\* Keycloak gave it less time than the margin and the minimum together.
CachedTokenLives ==
    auth # Nil /\ auth.expires > now /\ issued[auth.token].life >= MinTtl + Safety
        => now < issued[auth.token].ends

\* A team that is served from the cache was the user's team at most the time to
\* live and one response ago, though a slow response may overwrite a newer one.
ServedTeamIsRecent ==
    \A u \in Users : Fresh(u) => now < cache[u].asof + TeamTtl + CallTime
=============================================================================
