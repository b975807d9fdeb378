------------------------------ MODULE RateLimit -------------------------------
(***************************************************************************)
(* core/throttling.py: rate_limit, a fixed window for the POSTs of one     *)
(* address to one view, counted in the shared cache one command at a time; *)
(* and TrustedProxyMiddleware (core/middleware.py), which says whose       *)
(* address a request counts for.  The limiter fails open without the cache.*)
(*                                                                         *)
(* The count of a key is kept up to LIMIT here: what comes on top of it is *)
(* refused all the same.                                                   *)
(***************************************************************************)
EXTENDS Naturals

CONSTANTS
  Posts,               \* the POSTs that are served at once
  Views,               \* the key prefixes: "login", "api-token", ...
  Addresses, Proxies,  \* of the clients; TRUSTED_PROXIES
  NoHeader, Junk,      \* a header that is not there, an entry that is no address
  NoPost, NoClient,
  LIMIT,               \* of rate_limit, times RATE_LIMIT_SCALE
  MaxLimiterFaults     \* bound: outages of the cache, requests that die

\* What can stand in REMOTE_ADDR.
Hops == Addresses \cup Proxies

\* A request that is being counted: its view, the address it counts for, and its
\* client, where what the client itself wrote has no part in that address.
Tickets == [view : Views, client : Addresses \cup {NoClient}, addr : Hops]

ASSUME LimiterConstants ==
  /\ Addresses \cap Proxies = {} /\ NoHeader # Junk
  /\ {NoHeader, Junk} \cap Hops = {} /\ NoPost \notin Tickets /\ NoClient \notin Addresses
  /\ LIMIT \in Nat \ {0} /\ MaxLimiterFaults \in Nat

VARIABLES
  cacheThere,     \* is the cache within reach?
  hits,           \* ratelimit:<view>:<REMOTE_ADDR>:<window>, 0 without such a key
  posted,         \* the requests between cache.add and cache.incr
  late,           \* ... those whose key is gone by now
  admitted,       \* history: each client's requests, disguised ones aside, that a
                  \*   view's counter let through since that of its address was made
  limiterFaults

limiterVars == <<cacheThere, hits, posted, late, admitted, limiterFaults>>

LimiterTypeOK ==
  /\ cacheThere \in BOOLEAN /\ limiterFaults \in 0 .. MaxLimiterFaults
  /\ hits \in [Views -> [Hops -> 0 .. LIMIT]]
  /\ posted \in [Posts -> Tickets \cup {NoPost}]
  /\ late \subseteq Posts
  /\ admitted \in [Views -> [Addresses -> 0 .. LIMIT + 1]]

LimiterInit ==
  /\ cacheThere = TRUE /\ limiterFaults = 0
  /\ hits = [v \in Views |-> [h \in Hops |-> 0]]
  /\ posted = [p \in Posts |-> NoPost] /\ late = {}
  /\ admitted = [v \in Views |-> [i \in Addresses |-> 0]]

-----------------------------------------------------------------------------
(* TrustedProxyMiddleware: whose request it is                               *)

\* X-Forwarded-For as a proxy leaves it that appends its peer to what the client
\* sent, and as a second proxy leaves it behind the first.
Chains(i) ==
  {<<i>>} \cup {<<i, h>> : h \in Proxies}
  \cup {<<j, i>> : j \in Hops \cup {Junk}}
  \cup {<<j, i, h>> : j \in Hops \cup {Junk}, h \in Proxies}

\* The ways a request of client i comes in: from the client itself, whatever its
\* headers say; through a proxy that writes X-Real-IP; or through one or two that
\* append to X-Forwarded-For and pass X-Real-IP on as the client sent it
\* (deploy/nginx.conf).
Arrivals(i) ==
  [peer : {i}, realIP : Hops \cup {NoHeader}, forwarded : {<<>>} \cup {<<j>> : j \in Hops}]
  \cup [peer : Proxies, realIP : {i}, forwarded : {<<>>, <<i>>}]
  \cup [peer : Proxies, realIP : Hops \cup {NoHeader}, forwarded : Chains(i)]

\* What the client wrote itself and the middleware goes by: an X-Real-IP, or an
\* entry of the chain that is no address.
Disguise(i, request) ==
  /\ request.peer \in Proxies
  /\ \/ request.realIP \notin {i, NoHeader}
     \/ \E n \in DOMAIN request.forwarded : request.forwarded[n] = Junk

Foreign(chain) == {n \in DOMAIN chain : chain[n] \notin Proxies}

\* Mutant of Nearest: the chain is read from the left.
Farthest(chain) == CHOOSE n \in Foreign(chain) : \A m \in Foreign(chain) : n <= m

\* The last hop that is no proxy of ours.
Nearest(chain) == CHOOSE n \in Foreign(chain) : \A m \in Foreign(chain) : m <= n

\* REMOTE_ADDR as the middleware leaves it.  A chain with anything else than
\* addresses in it, or with proxies only, leaves the peer.
RemoteAddr(request) ==
  LET chain == request.forwarded IN
  IF request.peer \notin Proxies THEN request.peer
  ELSE IF request.realIP \in Hops THEN request.realIP
  ELSE IF (\A n \in DOMAIN chain : chain[n] \in Hops) /\ Foreign(chain) # {}
       THEN chain[Nearest(chain)]
  ELSE request.peer

-----------------------------------------------------------------------------
(* rate_limit.  A refused request (429) leaves only its count behind, and so *)
(* does one that is let through.                                             *)

\* Whose request it is and what it counts for, over all the ways of client i.
Origins ==
  [i \in Addresses |->
     {[client |-> IF Disguise(i, request) THEN NoClient ELSE i, addr |-> RemoteAddr(request)] :
        request \in Arrivals(i)}]

\* The count goes up by this request, which is let through up to the limit.
CountIn(v, i, addr) ==
  IF hits[v][addr] < LIMIT
  THEN /\ hits' = [hits EXCEPT ![v][addr] = @ + 1]
       /\ admitted' = [admitted EXCEPT ![v] =
                         [j \in Addresses |-> IF j = i /\ @[j] <= LIMIT THEN @[j] + 1 ELSE @[j]]]
  ELSE UNCHANGED <<hits, admitted>>

\* cache.add makes the counter of the window; or there is one, and the request
\* goes on to increment it; or there is no cache, and it is let through.
Post(p, v, origin) ==
  LET addr == origin.addr IN
  /\ posted[p] = NoPost
  /\ \/ ~cacheThere /\ UNCHANGED <<hits, admitted, posted>>
     \/ cacheThere /\ hits[v][addr] = 0 /\ CountIn(v, origin.client, addr) /\ UNCHANGED posted
     \/ /\ cacheThere /\ hits[v][addr] > 0
        /\ posted' = [posted EXCEPT ![p] = [view |-> v, client |-> origin.client, addr |-> addr]]
        /\ UNCHANGED <<hits, admitted>>
  /\ UNCHANGED <<cacheThere, late, limiterFaults>>

LimiterFault ==
  limiterFaults < MaxLimiterFaults /\ limiterFaults' = limiterFaults + 1

Over(p) == posted' = [posted EXCEPT ![p] = NoPost] /\ late' = late \ {p}

\* cache.incr.  Where the key has gone, it finds that of the address anew; or it
\* raises ValueError, and the request counts as the first whether or not the
\* cache.add that follows makes a key; or it counts in a window that is over.
Increment(p) ==
  /\ posted[p] # NoPost /\ Over(p)
  /\ \/ cacheThere /\ CountIn(posted[p].view, posted[p].client, posted[p].addr)
     \/ (~cacheThere \/ p \in late) /\ UNCHANGED <<hits, admitted>>
  /\ UNCHANGED <<cacheThere, limiterFaults>>

\* The cache counts it and the answer is lost: it is let through.
AnswerIsLost(p) ==
  LET t == posted[p] IN
  /\ t # NoPost /\ Over(p) /\ cacheThere /\ LimiterFault
  /\ hits' = [hits EXCEPT ![t.view][t.addr] = IF @ < LIMIT THEN @ + 1 ELSE @]
  /\ UNCHANGED <<cacheThere, admitted>>

-----------------------------------------------------------------------------
(* Time and troubles *)

\* Another window is another key; and a Redis that is full evicts keys with a
\* timeout.
CounterGoes(v, h) ==
  /\ hits[v][h] > 0
  /\ hits' = [hits EXCEPT ![v][h] = 0]
  /\ admitted' = [admitted EXCEPT ![v] = [i \in Addresses |-> IF i = h THEN 0 ELSE @[i]]]
  /\ late' = late \cup {p \in Posts : /\ posted[p] # NoPost
                                      /\ posted[p].view = v /\ posted[p].addr = h}
  /\ UNCHANGED <<cacheThere, posted, limiterFaults>>

CacheGoes ==
  /\ cacheThere /\ LimiterFault /\ cacheThere' = FALSE
  /\ UNCHANGED <<hits, posted, late, admitted>>

CacheComesBack ==
  /\ ~cacheThere /\ cacheThere' = TRUE
  /\ UNCHANGED <<hits, posted, late, admitted, limiterFaults>>

\* The worker is killed.
PostDies(p) ==
  /\ posted[p] # NoPost /\ Over(p) /\ LimiterFault
  /\ UNCHANGED <<cacheThere, hits, admitted>>

-----------------------------------------------------------------------------

LimiterNext ==
  \/ \E p \in Posts, v \in Views, i \in Addresses :
       \E origin \in Origins[i] : Post(p, v, origin)
  \/ \E p \in Posts : Increment(p) \/ AnswerIsLost(p) \/ PostDies(p)
  \/ \E v \in Views, h \in Hops : CounterGoes(v, h)
  \/ CacheGoes \/ CacheComesBack

LimiterSpec == LimiterInit /\ [][LimiterNext]_limiterVars

-----------------------------------------------------------------------------
(* Properties *)

\* core/throttling.py: "Keyed on REMOTE_ADDR, not X-Forwarded-For, which clients
\* can spoof".  Through whichever proxies its requests come, and whatever
\* addresses it puts into X-Forwarded-For, no client gets more than LIMIT requests
\* past one counter of a view, however the commands that count them interleave.
\* A request that comes with an X-Real-IP of its own, or with junk in the chain,
\* behind a proxy that lets that through, is counted as the middleware takes it.
AddressBounded == \A v \in Views, i \in Addresses : admitted[v][i] <= LIMIT

=============================================================================
