---------------------------- MODULE ClientCache ----------------------------
(***************************************************************************)
(* The HTTP clients a process keeps: AsyncHTTPClient.__new__, close and    *)
(* configure and HTTPClient (src/tornado/httpclient.py), on                *)
(* Configurable.__new__ and configure (src/tornado/util.py).  Constructing *)
(* a client looks into the cache of its class for the current loop first.  *)
(***************************************************************************)
EXTENDS Naturals

CONSTANTS
    Loop,      \* IOLoops the application runs
    Private,   \* loops made by an HTTPClient
    Impl,      \* implementation classes; each has a cache, and so has "base"
    Option,    \* values of a keyword argument
    MaxClients

ASSUME CacheAssumption ==
    /\ MaxClients \in Nat
    /\ Impl # {}                              \* configurable_default() is one
    /\ "base" \notin Impl /\ "unset" \notin Impl

VARIABLES
    clients,   \* the clients constructed, in order
    cache,     \* cache[class][loop]: _async_clients()
    impl,      \* Configurable's __impl_class and
    kwargs,    \* __impl_kwargs of AsyncHTTPClient
    sync,      \* the HTTPClient of each private loop: none, open or closed
    handed     \* ghost: the last constructor call and what it returned

cacheVars == <<clients, cache, impl, kwargs, sync, handed>>

NoClient == 0
Unset == "unset"
Class == Impl \cup {"base"}
AllLoops == Loop \cup Private
Client == 1 .. MaxClients

CacheInit ==
    /\ clients = [c \in {} |-> 0]
    /\ cache = [cls \in Class |-> [l \in AllLoops |-> NoClient]]
    /\ impl = Unset
    /\ kwargs = Unset
    /\ sync = [l \in Private |-> "none"]
    /\ handed = [client |-> NoClient, loop |-> Unset, forced |-> FALSE]

Made == DOMAIN clients
New == 1 + (CHOOSE n \in 0 .. MaxClients : Made = 1 .. n)

\* configurable_default()
Default == CHOOSE i \in Impl : TRUE

\* configured_class(), which also remembers the default.
Configured == IF impl = Unset THEN Default ELSE impl

-----------------------------------------------------------------------------
(* Seeded mistakes, used by no behaviour of the specification. *)

\* close() forgets its cache before it takes the client out of it.
EvictNothing(c) == cache

-----------------------------------------------------------------------------
\* Configurable.__new__: the configured class for the base class, with the
\* configured arguments under the caller's; a subclass is its own class.
\* initialize() sets io_loop.
Make(cls, loop, opt, cached) ==
    [class  |-> IF cls = "base" THEN Configured ELSE cls,
     option |-> IF opt = Unset /\ cls = "base" THEN kwargs ELSE opt,
     loop   |-> loop,
     cache  |-> IF cached THEN cls ELSE Unset,   \* _instance_cache
     open   |-> TRUE]

\* AsyncHTTPClient(force_instance, option).
Hit(cls, loop, forced) == ~forced /\ cache[cls][loop] # NoClient

Construct(cls, loop, forced, opt) ==
    IF Hit(cls, loop, forced)
    THEN /\ handed' = [client |-> cache[cls][loop], loop |-> loop, forced |-> forced]
         /\ UNCHANGED <<clients, cache, impl>>
    ELSE /\ New \in Client
         /\ clients' = [c \in Made \cup {New} |->
                          IF c = New THEN Make(cls, loop, opt, ~forced) ELSE clients[c]]
         /\ cache' = IF forced THEN cache ELSE [cache EXCEPT ![cls][loop] = New]
         /\ impl' = IF cls = "base" THEN Configured ELSE impl
         /\ handed' = [client |-> New, loop |-> loop, forced |-> forced]

ConstructAsync(cls, loop, forced, opt) ==
    /\ Construct(cls, loop, forced, opt)
    /\ UNCHANGED <<kwargs, sync>>

\* `if self in self._instance_cache.values(): del self._instance_cache[self.io_loop]`
Evict(c) ==
    LET cls == clients[c].cache IN
    IF cls # Unset /\ \E l \in AllLoops : cache[cls][l] = c
    THEN [cache EXCEPT ![cls][clients[c].loop] = NoClient]
    ELSE cache

\* AsyncHTTPClient.close(), any number of times.
CloseClient(c) ==
    /\ cache' = Evict(c)
    /\ clients' = [clients EXCEPT ![c].cache = Unset, ![c].open = FALSE]
    /\ UNCHANGED <<impl, kwargs, sync>>
    /\ handed' = [handed EXCEPT !.client = IF @ = c THEN NoClient ELSE @]

\* HTTPClient(): a client of its own loop, made inside run_sync().
ConstructSync(loop, cls, opt) ==
    /\ sync[loop] = "none"
    /\ Construct(cls, loop, FALSE, opt)
    /\ sync' = [sync EXCEPT ![loop] = "open"]
    /\ UNCHANGED kwargs

\* HTTPClient.close() closes its loop, not the client in it.
CloseSync(loop) ==
    /\ sync[loop] = "open"
    /\ sync' = [sync EXCEPT ![loop] = "closed"]
    /\ UNCHANGED <<clients, cache, impl, kwargs, handed>>

\* Configurable.configure(): the class, None for the default, and arguments.
SetImpl(i, opt) == impl' = i /\ kwargs' = opt

\* AsyncHTTPClient.configure(impl, option); cached clients stay as they are.
Configure(i, opt) ==
    /\ SetImpl(i, opt)
    /\ UNCHANGED <<clients, cache, sync, handed>>

CacheNext ==
    \/ \E cls \in Class, l \in Loop, forced \in BOOLEAN, opt \in Option \cup {Unset} :
          ConstructAsync(cls, l, forced, opt)
    \/ \E l \in Private, cls \in Class, opt \in Option \cup {Unset} : ConstructSync(l, cls, opt)
    \/ \E c \in Made : CloseClient(c)
    \/ \E l \in Private : CloseSync(l)
    \/ \E i \in Impl \cup {Unset}, opt \in Option \cup {Unset} : Configure(i, opt)

CacheSpec == CacheInit /\ [][CacheNext]_cacheVars

-----------------------------------------------------------------------------
\* Every entry of a cache is an open client of that loop and class that will
\* take itself out when it is closed; a client that thinks it is cached is;
\* the client handed out last is open and of the loop it was asked for.
CachedAreOpen ==
    /\ \A cls \in Class, l \in AllLoops : cache[cls][l] # NoClient =>
          LET c == clients[cache[cls][l]] IN
          c.open /\ c.loop = l /\ c.cache = cls /\ (cls = "base" \/ c.class = cls)
    /\ \A c \in Made : clients[c].cache # Unset => cache[clients[c].cache][clients[c].loop] = c
    /\ handed.client # NoClient =>
          LET c == clients[handed.client] IN
          c.open /\ c.loop = handed.loop /\ (handed.forced => c.cache = Unset)
=============================================================================
