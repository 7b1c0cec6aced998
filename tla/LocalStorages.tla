---------------------------- MODULE LocalStorages ---------------------------
(***************************************************************************)
(* The storages of a browser or of the process itself: cache-storage,      *)
(* indexeddb, localstorage, cookies and memory.  Those that run to their   *)
(* end at once can fail but nobody comes in between.                       *)
(***************************************************************************)
EXTENDS StorageCall

AllOps == {"write", "read", "exists", "delete", "clear", "setStream", "getStream"}

Present == {n \in Names : held[n] # None}

\* A delete throws if there is nothing under the key.
DeletesWhatIsThere(c) == Carries(c, Put(Key(c), None))

----------------------------------------------------------------------------
(* cache-storage: reads are raced with the signal, writes do not look at it *)

BrowserCacheIsNotOpen(c) == IsNotOpen(c)
BrowserCacheWrite(c) == Enters(c, "write") /\ Sends(c, Put(Key(c), Value(c)))
BrowserCacheMatch(c) == Fetches(c)
BrowserCacheRead(c) == Begins(c, "read") /\ BrowserCacheMatch(c)
BrowserCacheExists(c) == Begins(c, "exists") /\ Looks(c, "no", "yes")
BrowserCacheDelete(c) == Enters(c, "delete") /\ DeletesWhatIsThere(c)

\* The signal is looked at after each removal.
BrowserCacheClear(c) ==
    \/ Begins(c, "clear") /\ Lists(c, Present)
    \/ Clearing(c) /\ at[c].signal /\ Quits(c, "aborted")
    \/ Clearing(c) /\ ~at[c].signal /\ RemovesOne(c)
    \/ HasRemovedAll(c)
BrowserCacheGetWritable(c) ==
    \/ Begins(c, "setStream") /\ Opens(c)
    \/ ~at[c].signal /\ Buffers(c)
    \/ ~at[c].signal /\ link.con # None /\ Stores(c)
    \/ Streaming(c) /\ link.con = None /\ Quits(c, "failed")
    \/ Notices(c)
    \/ GivesUp(c)
BrowserCacheGetReadable(c) == (Begins(c, "getStream") /\ Waits(c)) \/ Pulls(c)

\* An open that a close has overtaken does not come into force.
BrowserCacheOpen(c) ==
    \/ Enters(c, "open") /\ Goes(c, "opening") /\ UNCHANGED <<held, link>>
    \/ /\ at[c].pc = "opening"
       /\ \/ at[c].signal /\ Ends(c, "aborted") /\ link' = link
          \/ ~at[c].signal /\ Ends(c, "failed") /\ link' = link
          \/ ~at[c].signal /\ Ends(c, "ok")
             /\ link' = IF c \in link.outdated THEN link ELSE [link EXCEPT !.con = Given]
       /\ UNCHANGED held
BrowserCacheClose(c) ==
    /\ Enters(c, "close")
    /\ link' = [link EXCEPT !.con = None,
                            !.outdated = @ \cup {d \in Calls : at[d].pc = "opening"}]
    /\ Ends(c, "ok") /\ UNCHANGED held
BrowserCacheRefuses(c) == Refuses(c, AllOps \ {"write", "delete"})

BrowserCache(c) ==
    \/ BrowserCacheRefuses(c) \/ BrowserCacheIsNotOpen(c) \/ BrowserCacheWrite(c)
    \/ BrowserCacheRead(c) \/ BrowserCacheExists(c) \/ BrowserCacheDelete(c)
    \/ BrowserCacheClear(c) \/ BrowserCacheGetWritable(c) \/ BrowserCacheGetReadable(c)
    \/ BrowserCacheOpen(c) \/ BrowserCacheClose(c)

----------------------------------------------------------------------------
(* indexeddb: the signal is looked at before a command and once more after it *)

IdbIsNotOpen(c) == IsNotOpen(c)

\* A command is done, and its call has yet to look at the signal.
IdbDoes(c, new) ==
    /\ \/ held' = new /\ Goes(c, "done")
       \/ held' \in {held, new} /\ Ends(c, "failed")
    /\ UNCHANGED link
IdbDone(c) == at[c].pc = "done" /\ Quits(c, IF at[c].signal THEN "aborted" ELSE "ok")

\* The content of a blob is loaded first.
IdbPut(c) ==
    \/ Begins(c, "write") /\ IdbDoes(c, Put(Key(c), Value(c)))
    \/ Begins(c, "write") /\ (Goes(c, "loading") \/ Ends(c, "failed")) /\ UNCHANGED <<held, link>>
IdbToStoredBlob(c) ==
    /\ at[c].pc = "loading"
    /\ IF at[c].signal THEN Quits(c, "aborted") ELSE IdbDoes(c, Put(Key(c), Value(c)))

\* A value that is undefined is told from none by a count.
IdbReadValue(c) ==
    \/ /\ Begins(c, "read") \/ (at[c].pc = "reading" /\ ~at[c].signal)
       /\ \/ held[Key(c)] # None
             /\ at' = [at EXCEPT ![c].pc = "got", ![c].hand = held[Key(c)]]
          \/ held[Key(c)] = None /\ Goes(c, "counting")
          \/ Ends(c, "failed")
       /\ UNCHANGED <<held, link>>
    \/ /\ at[c].pc \in {"reading", "got", "counting"} /\ at[c].signal /\ Quits(c, "aborted")
    \/ at[c].pc = "got" /\ ~at[c].signal /\ Quits(c, "value")
    \/ at[c].pc = "counting" /\ ~at[c].signal /\ Looks(c, "notFound", "value")
IdbExists(c) == Begins(c, "exists") /\ (Looks(c, "no", "yes") \/ Quits(c, "aborted"))
IdbDelete(c) == Begins(c, "delete") /\ IdbDoes(c, Put(Key(c), None))
IdbClear(c) == Begins(c, "clear") /\ IdbDoes(c, Without(Names))
IdbGetWritable(c) ==
    \/ Begins(c, "setStream") /\ Opens(c)
    \/ ~at[c].signal /\ Buffers(c)
    \/ ~at[c].signal /\ Streaming(c) /\ IsComplete(c) /\ link.con # None
       /\ IdbDoes(c, Put(Key(c), Received(c)))
    \/ Streaming(c) /\ link.con = None /\ Quits(c, "failed")
    \/ Notices(c)
    \/ GivesUp(c)
IdbGetReadable(c) == Begins(c, "getStream") /\ Waits(c)

\* An open waits for the one that is under way and, if the database is not open then, tries
\* itself.  It closes the database that it has opened if its signal has fired meanwhile.
IdbOpen(c) ==
    \/ /\ Begins(c, "open") \/ (at[c].pc = "again" /\ ~at[c].signal)
       /\ \/ link.con # None /\ Ends(c, "ok") /\ link' = link
          \/ link.con = None /\ link.opening # None /\ link' = link
             /\ at' = [at EXCEPT ![c].pc = "joined", ![c].left = {link.opening}]
          \/ link.con = None /\ link.opening = None /\ Goes(c, "opening")
             /\ link' = [link EXCEPT !.opening = c]
       /\ UNCHANGED held
    \/ at[c].pc = "again" /\ at[c].signal /\ Quits(c, "aborted")
IdbOpened(c) ==
    /\ at[c].pc = "opening"
    /\ \/ ~at[c].signal /\ Ends(c, "ok")
          /\ link' = [link EXCEPT !.con = c, !.sockets = @ \cup {c}, !.opening = None]
       \/ Ends(c, IF at[c].signal THEN "aborted" ELSE "failed")
          /\ link' = [link EXCEPT !.opening = None]
    /\ UNCHANGED held
IdbJoined(c) ==
    /\ at[c].pc = "joined"
    /\ \E d \in at[c].left :
           /\ Ended(d)
           /\ \/ at[d].answer = "failed"
                 /\ Quits(c, IF at[c].signal THEN "aborted" ELSE "failed")
              \/ at[d].answer # "failed" /\ link.con # None
                 /\ Quits(c, IF at[c].signal THEN "aborted" ELSE "ok")
              \/ at[d].answer # "failed" /\ link.con = None
                 /\ Goes(c, "again") /\ UNCHANGED <<held, link>>

\* The database is closed a moment after the call.
IdbClose(c) ==
    \/ /\ Begins(c, "close")
       /\ \/ link.con = None /\ Ends(c, "failed")
          \/ link.con # None
             /\ at' = [at EXCEPT ![c].pc = "closing", ![c].left = {link.con}]
       /\ UNCHANGED <<held, link>>
    \/ /\ at[c].pc = "closing"
       /\ link' = [link EXCEPT !.con = None, !.sockets = @ \ (at[c].left \ {Given})]
       /\ Ends(c, "ok") /\ UNCHANGED held
IdbRefuses(c) == Refuses(c, AllOps \cup {"open", "close"})

Idb(c) ==
    \/ IdbRefuses(c) \/ IdbIsNotOpen(c) \/ IdbPut(c) \/ IdbToStoredBlob(c) \/ IdbDone(c) 
    \/ IdbReadValue(c) \/ IdbExists(c) \/ IdbDelete(c) \/ IdbClear(c) \/ IdbGetWritable(c) \/ IdbGetReadable(c)
    \/ IdbOpen(c) \/ IdbOpened(c) \/ IdbJoined(c) \/ IdbClose(c)

----------------------------------------------------------------------------
(* localstorage *)

\* A write fails when the quota is exceeded.
WebWriteValue(c) == Begins(c, "write") /\ Sends(c, Put(Key(c), Value(c)))
WebRead(c) == Begins(c, "read") /\ Fetches(c)
WebExists(c) == Begins(c, "exists") /\ Looks(c, "no", "yes")
WebDelete(c) == Begins(c, "delete") /\ DeletesWhatIsThere(c)

\* The keys with the prefix are collected and then removed, at once; nothing is without a prefix.
WebClear(c) ==
    \/ Enters(c, "clear") /\ Quits(c, "failed")
    \/ Begins(c, "clear") /\ Sends(c, Without(Names))
WebRefuses(c) == Refuses(c, AllOps)

Web(c) == WebRefuses(c) \/ WebWriteValue(c) \/ WebRead(c) \/ WebExists(c) \/ WebDelete(c) \/ WebClear(c)

----------------------------------------------------------------------------
(* cookies *)

\* A value that is too large, as it is or as it is encoded, is not written.
CookiesWriteValue(c) == Begins(c, "write") /\ Sends(c, Put(Key(c), Value(c)))
CookiesRead(c) == Begins(c, "read") /\ Fetches(c)
CookiesExists(c) == Begins(c, "exists") /\ Looks(c, "no", "yes")
CookiesDelete(c) == Begins(c, "delete") /\ DeletesWhatIsThere(c)
\* The cookies are removed one by one, but at once.
CookiesClear(c) ==
    /\ Begins(c, "clear")
    /\ \/ Sends(c, Without(Names))
       \/ \E some \in SUBSET Present : held' = Without(some) /\ Ends(c, "failed") /\ UNCHANGED link
CookiesRefuses(c) == Refuses(c, AllOps)

Cookies(c) ==
    \/ CookiesRefuses(c) \/ CookiesWriteValue(c) \/ CookiesRead(c) \/ CookiesExists(c)
    \/ CookiesDelete(c) \/ CookiesClear(c)

----------------------------------------------------------------------------
(* memory, which does not look at signals *)

MemoryWrite(c) == Enters(c, "write") /\ Sends(c, Put(Key(c), Value(c)))
MemoryRead(c) == Enters(c, "read") /\ Fetches(c)
MemoryExists(c) == Enters(c, "exists") /\ Looks(c, "no", "yes")
MemoryDelete(c) == Enters(c, "delete") /\ DeletesWhatIsThere(c)
MemoryClear(c) == Enters(c, "clear") /\ Sends(c, Without(Names))
MemoryGetWritable(c) ==
    \/ Enters(c, "setStream") /\ Opens(c)
    \/ Buffers(c)
    \/ /\ Streaming(c) /\ IsComplete(c)
       /\ held' = Put(Key(c), Received(c)) /\ Closes(c, "ok") /\ UNCHANGED link
    \/ GivesUp(c)

\* The stream delivers what was there when it was asked for.
MemoryGetReadable(c) ==
    \/ Enters(c, "getStream") /\ FetchesAndGoes(c, "loaded")
    \/ at[c].pc = "loaded" /\ Delivers(c)

Memory(c) ==
    \/ MemoryWrite(c) \/ MemoryRead(c) \/ MemoryExists(c) \/ MemoryDelete(c)
    \/ MemoryClear(c) \/ MemoryGetWritable(c) \/ MemoryGetReadable(c)
=============================================================================
