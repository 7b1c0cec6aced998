----------------------------- MODULE KvServices -----------------------------
(***************************************************************************)
(* The storages on a service of keys and values that has no rename:        *)
(* cloudflare-kv, cloudflare-cache, etcd, memcached and http.  A value is  *)
(* put whole by one command; a stream is collected in memory first.        *)
(***************************************************************************)
EXTENDS StorageCall

AllOps == {"write", "read", "exists", "delete", "clear", "setStream", "getStream"}

Present == {n \in Names : held[n] # None}

\* One command removes everything.
RemovesAll(c) == Sends(c, Without(Names))

\* A stream that throws at the next use once its signal has fired.
CollectsStream(c) ==
    \/ Begins(c, "setStream") /\ Opens(c)
    \/ ~at[c].signal /\ Buffers(c)
    \/ ~at[c].signal /\ Stores(c)
    \/ Notices(c)
    \/ GivesUp(c)

\* Keys are deleted one by one; the signal is looked at before each.
DeletesEach(c) ==
    \/ Clearing(c) /\ at[c].signal /\ at[c].left # {} /\ Quits(c, "aborted")
    \/ Clearing(c) /\ ~at[c].signal /\ RemovesOne(c)
    \/ HasRemovedAll(c)

----------------------------------------------------------------------------
(* cloudflare-kv *)

KvPut(c) == Begins(c, "write") /\ Sends(c, Put(Key(c), Value(c)))
KvGetBuffer(c) == Fetches(c)
KvRead(c) == Begins(c, "read") /\ KvGetBuffer(c)
KvExists(c) == Begins(c, "exists") /\ Looks(c, "no", "yes")
KvDelete(c) == Begins(c, "delete") /\ Sends(c, Put(Key(c), None))
KvClear(c) == (Begins(c, "clear") /\ Lists(c, Present)) \/ DeletesEach(c)
KvRefuses(c) == Refuses(c, AllOps)

Kv(c) == KvRefuses(c) \/ KvPut(c) \/ KvRead(c) \/ KvExists(c) \/ KvDelete(c) \/ KvClear(c)

----------------------------------------------------------------------------
(* cloudflare-cache, which cannot be cleared *)

CachePut(c) == Begins(c, "write") /\ Sends(c, Put(Key(c), Value(c)))
CacheMatchOrThrow(c) == FetchesAndGoes(c, "loading")
CacheRead(c) ==
    \/ Begins(c, "read") /\ CacheMatchOrThrow(c)
    \/ at[c].pc = "loading" /\ (IF at[c].signal THEN Quits(c, "aborted") ELSE Delivers(c))
CacheExists(c) == Begins(c, "exists") /\ Looks(c, "no", "yes")
CacheDelete(c) == Begins(c, "delete") /\ Sends(c, Put(Key(c), None))
CacheClear(c) == Enters(c, "clear") /\ Quits(c, "failed")
CacheGetWritable(c) == CollectsStream(c)
CacheGetReadable(c) == Begins(c, "getStream") /\ CacheMatchOrThrow(c)
CacheRefuses(c) == Refuses(c, AllOps \ {"clear"})

Cache(c) ==
    \/ CacheRefuses(c) \/ CachePut(c) \/ CacheRead(c) \/ CacheExists(c) \/ CacheDelete(c)
    \/ CacheClear(c) \/ CacheGetWritable(c) \/ CacheGetReadable(c)

----------------------------------------------------------------------------
(* etcd *)

EtcdIsNotOpen(c) == IsNotOpen(c)

\* With a lease, a value is put under one that is released afterwards.
EtcdWrite(c) == Begins(c, "write") /\ Sends(c, Put(Key(c), Value(c)))
EtcdReadBytes(c) == Begins(c, "read") /\ Fetches(c)
EtcdExists(c) == Begins(c, "exists") /\ Looks(c, "no", "yes")
EtcdDelete(c) == Begins(c, "delete") /\ Sends(c, Put(Key(c), None))

\* A client that cannot delete a prefix lists its keys.
EtcdClear(c) ==
    \/ Begins(c, "clear") /\ (RemovesAll(c) \/ Lists(c, Present))
    \/ DeletesEach(c)
EtcdGetWritable(c) == CollectsStream(c)
EtcdGetReadable(c) == (Begins(c, "getStream") /\ Waits(c)) \/ Pulls(c)

\* An open tears the connection down that it replaces; a client that was handed in is used as
\* it is and never closed.
EtcdOpen(c) ==
    /\ Enters(c, "open")
    /\ LET con == IF plan.injected THEN Given ELSE c IN
       link' = [link EXCEPT !.con = con, !.sockets = (@ \ ({link.con} \ {Given})) \cup {con}]
    /\ Ends(c, "ok") /\ UNCHANGED held
EtcdTeardownConnection(c) ==
    /\ Enters(c, "close")
    /\ \/ link.con # None /\ Ends(c, "ok")
          /\ link' = [link EXCEPT !.con = None, !.sockets = @ \ ({link.con} \ {Given})]
       \/ link.con = None /\ Ends(c, "failed") /\ link' = link
    /\ UNCHANGED held
EtcdRefuses(c) == Refuses(c, AllOps)

Etcd(c) ==
    \/ EtcdRefuses(c) \/ EtcdIsNotOpen(c) \/ EtcdWrite(c) \/ EtcdReadBytes(c) \/ EtcdExists(c)
    \/ EtcdDelete(c) \/ EtcdClear(c) \/ EtcdGetWritable(c) \/ EtcdGetReadable(c)
    \/ EtcdOpen(c) \/ EtcdTeardownConnection(c)

----------------------------------------------------------------------------
(* memcached *)

MemcachedIsNotOpen(c) == IsNotOpen(c)
MemcachedWrite(c) == Begins(c, "write") /\ Sends(c, Put(Key(c), Value(c)))
MemcachedRead(c) == Begins(c, "read") /\ Fetches(c)
MemcachedExists(c) == Begins(c, "exists") /\ Looks(c, "no", "yes")
MemcachedDelete(c) == Begins(c, "delete") /\ Sends(c, Put(Key(c), None))
MemcachedClear(c) == Begins(c, "clear") /\ RemovesAll(c)

\* A new client is probed, and is released if it does not answer; one that was handed in stays.
MemcachedOpen(c) ==
    /\ Begins(c, "open")
    /\ \/ link.con # None
          /\ link' = [link EXCEPT !.con = None]
          /\ at' = [at EXCEPT ![c].pc = "quitting", ![c].left = {link.con}]
       \/ link.con = None /\ Goes(c, "probing")
          /\ link' = [link EXCEPT !.sockets = @ \cup {IF plan.injected THEN Given ELSE c}]
    /\ UNCHANGED held
MemcachedProbe(c) ==
    /\ at[c].pc = "probing"
    /\ \/ link' = [link EXCEPT !.con = IF plan.injected THEN Given ELSE c] /\ Ends(c, "ok")
       \/ link' = link /\ Goes(c, "releasing")
    /\ UNCHANGED held
MemcachedRelease(c) ==
    /\ at[c].pc = "releasing"
    /\ link' = [link EXCEPT !.sockets = @ \ {c}]
    /\ Ends(c, IF at[c].signal THEN "aborted" ELSE "failed")
    /\ UNCHANGED held

\* The client quits, whoever made it; an open ends when that fails.
MemcachedClose(c) ==
    /\ Enters(c, "close")
    /\ \/ link.con = None /\ link' = link /\ Ends(c, "failed")
       \/ link.con # None /\ link' = [link EXCEPT !.con = None]
          /\ at' = [at EXCEPT ![c].pc = "quitting", ![c].left = {link.con}]
    /\ UNCHANGED held
MemcachedQuits(c) ==
    /\ at[c].pc = "quitting"
    /\ \/ /\ Op(c) = "close"
          /\ link' = [link EXCEPT !.sockets = @ \ at[c].left]
          /\ Ends(c, "ok") \/ Ends(c, "failed")
       \/ /\ Op(c) = "open" /\ Goes(c, "probing")
          /\ link' = [link EXCEPT !.sockets = (@ \ at[c].left)
                                              \cup {IF plan.injected THEN Given ELSE c}]
    /\ UNCHANGED held
MemcachedRefuses(c) == Refuses(c, AllOps \cup {"open"})

Memcached(c) ==
    \/ MemcachedRefuses(c) \/ MemcachedIsNotOpen(c) \/ MemcachedWrite(c) \/ MemcachedRead(c)
    \/ MemcachedExists(c) \/ MemcachedDelete(c) \/ MemcachedClear(c)
    \/ MemcachedOpen(c) \/ MemcachedProbe(c) \/ MemcachedRelease(c)
    \/ MemcachedClose(c) \/ MemcachedQuits(c)

----------------------------------------------------------------------------
(* http: the answer to a request is a status, and then a body that is read or thrown away *)

HttpSend(c, new) == Sends(c, new)
HttpWrite(c) == Begins(c, "write") /\ HttpSend(c, Put(Key(c), Value(c)))
HttpRead(c) ==
    \/ Begins(c, "read") /\ FetchesAndGoes(c, "loading")
    \/ at[c].pc = "loading" /\ (IF at[c].signal THEN Quits(c, "aborted") ELSE Delivers(c))

\* A server that does not know HEAD is asked for the first byte.
HttpExists(c) ==
    \/ /\ Begins(c, "exists")
       /\ Looks(c, "no", "yes") \/ (Goes(c, "asking") /\ UNCHANGED <<held, link>>)
    \/ /\ at[c].pc = "asking"
       /\ IF at[c].signal THEN Quits(c, "aborted") ELSE Looks(c, "no", "yes")
HttpDelete(c) == Begins(c, "delete") /\ HttpSend(c, Put(Key(c), None))

\* A clear is refused without a prefix, and by a server that has none.
HttpClear(c) == Begins(c, "clear") /\ (HttpSend(c, Without(Names)) \/ Quits(c, "failed"))

\* The signal is looked at when the stream is closed, and not when it is written to.
HttpGetWritable(c) ==
    \/ Begins(c, "setStream") /\ Opens(c)
    \/ Buffers(c)
    \/ ~at[c].signal /\ Stores(c)
    \/ IsComplete(c) /\ Notices(c)
    \/ GivesUp(c)
HttpGetReadable(c) == Begins(c, "getStream") /\ Fetches(c)
HttpRefuses(c) == Refuses(c, AllOps)

Http(c) ==
    \/ HttpRefuses(c) \/ HttpWrite(c) \/ HttpRead(c) \/ HttpExists(c) \/ HttpDelete(c)
    \/ HttpClear(c) \/ HttpGetWritable(c) \/ HttpGetReadable(c)
=============================================================================
