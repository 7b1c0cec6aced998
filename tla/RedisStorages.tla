---------------------------- MODULE RedisStorages ----------------------------
(***************************************************************************)
(* The storages on a Redis server: redis.node (ioredis), redis.bun (the    *)
(* client of Bun) and valkey (ioredis, with a time to live and clients     *)
(* that may be handed in).  All commands of a storage go over its one      *)
(* connection and are served in the order in which they are sent.          *)
(***************************************************************************)
EXTENDS StorageCall

AllOps == {"write", "read", "exists", "delete", "copy", "move", "clear",
           "setStream", "getStream"}

----------------------------------------------------------------------------
(* redis.node *)

NodeIsNotOpen(c) == IsNotOpen(c)
NodeWrite(c) == Begins(c, "write") /\ Sends(c, Put(Key(c), Value(c)))
NodeRead(c) == Begins(c, "read") /\ Fetches(c)
NodeExists(c) == Begins(c, "exists") /\ Looks(c, "no", "yes")
NodeDelete(c) == Begins(c, "delete") /\ Sends(c, Put(Key(c), None))

NodeCopy(c) ==
    /\ Begins(c, "copy")
    /\ IF ToItself(c) THEN Looks(c, "notFound", "ok")
                      ELSE Carries(c, Put(Dest(c), held[Key(c)]))

\* A rename that fails is explained by looking for the source.
Renames(c, done) ==
    /\ \/ held[Key(c)] # None /\ held' = Rename(Key(c), Dest(c)) /\ done
       \/ held' \in {held} \cup (IF held[Key(c)] = None THEN {} ELSE {Rename(Key(c), Dest(c))})
          /\ Goes(c, "explaining")
    /\ UNCHANGED link

NodeMove(c) ==
    /\ Begins(c, "move")
    /\ IF ToItself(c) THEN Looks(c, "notFound", "ok") ELSE Renames(c, Ends(c, "ok"))

\* Mutant: a failed rename is taken for a missing key.
NodeExplain_Assumed(c) == at[c].pc = "explaining" /\ Quits(c, "notFound")

NodeExplain(c) == at[c].pc = "explaining" /\ Looks(c, "notFound", "failed")

NodeClear(c) == Begins(c, "clear") /\ Lists(c, Names)

\* Mutant: the signal is not looked at before the next page.
NodeClearPage_Unchecked(c) == FindsOne(c) \/ RemovesFound(c) \/ HasRemovedAll(c)

\* Names are scanned and removed page by page.  The signal is looked at before a page is scanned,
\* and not again before what has been found is removed.
NodeClearPage(c) ==
    \/ Clearing(c) /\ at[c].signal /\ Quits(c, "aborted")
    \/ ~at[c].signal /\ FindsOne(c)
    \/ Clearing(c) /\ ~at[c].signal /\ Quits(c, "failed")
    \/ RemovesFound(c)
    \/ HasRemovedAll(c)

\* A stream is appended to a temporary that is renamed when it is closed.
NodeStreamStart(c) == Begins(c, "setStream") /\ StartsTemporary(c)
NodeStreamWrite(c) == Throws(c) \/ Extends(c, Put(c, WithChunk(c)))
NodeStreamClose(c) ==
    Streaming(c) /\ IsComplete(c) /\ ~at[c].signal /\ Publishes(c)
NodeStreamAbort(c) == Abandons(c)
NodeOnAbort(c) == HearsSignal(c, {"stream"})
NodeFinish(c) == Discards(c)

\* The value is fetched at the first pull of the stream.
NodeGetReadable(c) == Begins(c, "getStream") /\ Waits(c)
NodePull(c) == Pulls(c)

\* The storage forgets its connection, which the call has yet to close.
Forgets(c) ==
    /\ link' = [link EXCEPT !.con = None]
    /\ at' = [at EXCEPT ![c].pc = "quitting", ![c].left = {link.con}]

\* A new client connects within a time limit, or is disconnected.  The one it replaces is
\* closed before.
NodeOpen(c) ==
    /\ Enters(c, "open")
    /\ \/ link.con # None /\ Forgets(c)
       \/ link.con = None /\ link' = link /\ Goes(c, "connecting")
    /\ UNCHANGED held
NodeConnected(c) ==
    /\ at[c].pc = "connecting"
    /\ \/ link' = [link EXCEPT !.con = c, !.sockets = @ \cup {c}] /\ Ends(c, "ok")
       \/ link' = link /\ Goes(c, "disconnecting")       \* refused
       \/ Connects(c) /\ Goes(c, "disconnecting")        \* up, but too late
    /\ UNCHANGED held

\* Mutant: the connection of a failed open is left up.
NodeDisconnect_Forgotten(c) ==
    at[c].pc = "disconnecting" /\ Ends(c, "failed") /\ UNCHANGED <<held, link>>

NodeDisconnect(c) ==
    /\ at[c].pc = "disconnecting"
    /\ link' = [link EXCEPT !.sockets = @ \ {c}] /\ Ends(c, "failed")
    /\ UNCHANGED held

\* The connection is forgotten first; then the client quits in time, or is disconnected.
NodeClose(c) ==
    /\ Enters(c, "close")
    /\ \/ link.con = None /\ link' = link /\ Ends(c, "failed")
       \/ link.con # None /\ Forgets(c)
    /\ UNCHANGED held
NodeQuits(c) ==
    /\ at[c].pc = "quitting"
    /\ link' = [link EXCEPT !.sockets = @ \ at[c].left]
    /\ IF Op(c) = "close" THEN Ends(c, "ok") ELSE Goes(c, "connecting")
    /\ UNCHANGED held

NodeRefuses(c) == Refuses(c, AllOps)

Node(c) ==
    \/ NodeRefuses(c) \/ NodeIsNotOpen(c)
    \/ NodeWrite(c) \/ NodeRead(c) \/ NodeExists(c) \/ NodeDelete(c)
    \/ NodeCopy(c) \/ NodeMove(c) \/ NodeExplain(c)
    \/ NodeClear(c) \/ NodeClearPage(c)
    \/ NodeStreamStart(c) \/ NodeStreamWrite(c) \/ NodeStreamClose(c) \/ NodeStreamAbort(c)
    \/ NodeOnAbort(c) \/ NodeFinish(c) \/ NodeGetReadable(c) \/ NodePull(c)
    \/ NodeOpen(c) \/ NodeConnected(c) \/ NodeDisconnect(c)
    \/ NodeClose(c) \/ NodeQuits(c)

----------------------------------------------------------------------------
(* redis.bun *)

BunIsNotOpen(c) == IsNotOpen(c)
BunWrite(c) == Begins(c, "write") /\ Sends(c, Put(Key(c), Value(c)))
BunRead(c) == Begins(c, "read") /\ Fetches(c)
BunExists(c) == Begins(c, "exists") /\ Looks(c, "no", "yes")
BunDelete(c) == Begins(c, "delete") /\ Sends(c, Put(Key(c), None))

BunCopy(c) ==
    /\ Begins(c, "copy")
    /\ IF ToItself(c) THEN Looks(c, "notFound", "ok")
                      ELSE Carries(c, Put(Dest(c), held[Key(c)]))

BunMove(c) ==
    /\ Begins(c, "move")
    /\ IF ToItself(c) THEN Looks(c, "notFound", "ok") ELSE Renames(c, Ends(c, "ok"))
BunExplain(c) == at[c].pc = "explaining" /\ Looks(c, "notFound", "failed")

BunClear(c) ==
    \/ Begins(c, "clear") /\ Lists(c, Names)
    \/ Clearing(c) /\ at[c].signal /\ Quits(c, "aborted")
    \/ ~at[c].signal /\ FindsOne(c)
    \/ Clearing(c) /\ ~at[c].signal /\ Quits(c, "failed")
    \/ RemovesFound(c)
    \/ HasRemovedAll(c)

BunStreamStart(c) == Begins(c, "setStream") /\ StartsTemporary(c)
BunStreamWrite(c) == Throws(c) \/ Extends(c, Put(c, WithChunk(c)))
BunStreamClose(c) ==
    Streaming(c) /\ IsComplete(c) /\ ~at[c].signal /\ Publishes(c)
BunStreamAbort(c) == Abandons(c)
BunOnAbort(c) == HearsSignal(c, {"stream"})
BunFinish(c) == Discards(c)
BunGetReadable(c) == Begins(c, "getStream") /\ Waits(c)
BunPull(c) == Pulls(c)

\* An open joins one that is under way; else it is a session of its own.
BunOpen(c) ==
    /\ Enters(c, "open")
    /\ \/ /\ link.opening # None
          /\ at' = [at EXCEPT ![c].pc = "joined", ![c].left = {link.opening}]
          /\ link' = link
       \/ /\ link.opening = None
          /\ link' = [link EXCEPT !.con = None, !.sockets = @ \ {link.con}, !.opening = c]
          /\ Goes(c, "importing")
    /\ UNCHANGED held
BunJoined(c) ==
    at[c].pc = "joined" /\ \E d \in at[c].left : Ended(d) /\ Quits(c, at[d].answer)

\* The session makes its client and connects it, unless it has been cancelled.
BunImported(c) ==
    /\ at[c].pc = "importing"
    /\ IF c \in link.outdated THEN link' = link /\ Ends(c, "failed")
                              ELSE Connects(c) /\ Goes(c, "connecting")
    /\ UNCHANGED held
BunConnected(c) ==
    /\ at[c].pc = "connecting"
    /\ \/ c \in link.outdated /\ link' = link /\ Ends(c, "failed")
       \/ c \notin link.outdated /\ Ends(c, "ok")
          /\ link' = [link EXCEPT !.con = c, !.opening = None]
       \/ c \notin link.outdated /\ Ends(c, "failed")
          /\ link' = [link EXCEPT !.sockets = @ \ {c}, !.opening = None]
    /\ UNCHANGED held

\* A close cancels the session that is under way and closes its client, or closes the
\* connection in use.
BunClose(c) ==
    /\ Enters(c, "close")
    /\ \/ link.opening # None /\ Ends(c, "ok")
          /\ link' = [link EXCEPT !.outdated = @ \cup {link.opening}, !.opening = None,
                                  !.sockets = @ \ {link.opening}]
       \/ link.opening = None /\ link.con # None /\ Ends(c, "ok")
          /\ link' = [link EXCEPT !.con = None, !.sockets = @ \ {link.con}]
       \/ link.opening = None /\ link.con = None /\ Ends(c, "failed") /\ link' = link
    /\ UNCHANGED held

BunRefuses(c) == Refuses(c, AllOps)

Bun(c) ==
    \/ BunRefuses(c) \/ BunIsNotOpen(c)
    \/ BunWrite(c) \/ BunRead(c) \/ BunExists(c) \/ BunDelete(c)
    \/ BunCopy(c) \/ BunMove(c) \/ BunExplain(c) \/ BunClear(c)
    \/ BunStreamStart(c) \/ BunStreamWrite(c) \/ BunStreamClose(c) \/ BunStreamAbort(c)
    \/ BunOnAbort(c) \/ BunFinish(c) \/ BunGetReadable(c) \/ BunPull(c)
    \/ BunOpen(c) \/ BunJoined(c) \/ BunImported(c) \/ BunConnected(c) \/ BunClose(c)

----------------------------------------------------------------------------
(* valkey *)

ValkeyIsNotOpen(c) == IsNotOpen(c)
ValkeyWrite(c) == Begins(c, "write") /\ Sends(c, Put(Key(c), Value(c)))
ValkeyRead(c) == Begins(c, "read") /\ Fetches(c)
ValkeyExists(c) == Begins(c, "exists") /\ Looks(c, "no", "yes")
ValkeyDelete(c) == Begins(c, "delete") /\ Sends(c, Put(Key(c), None))

\* A copy reads the value and sends it back, so that it has the time to live of a new value.  The
\* read ends when the signal fires; what it has read is sent at once.
ValkeyCopy(c) ==
    /\ Begins(c, "copy")
    /\ IF ToItself(c) THEN Looks(c, "notFound", "ok") ELSE FetchesAndGoes(c, "copying")
ValkeySetCopy(c) ==
    /\ at[c].pc = "copying"
    /\ Lands(c, Put(Dest(c), at[c].hand)) \/ (at[c].signal /\ Quits(c, "aborted"))

\* A value that has been renamed gets its time to live, if it has one, by a command of its own,
\* which is sent without a look at the signal.
ValkeyMove(c) ==
    /\ Begins(c, "move")
    /\ IF ToItself(c) THEN Looks(c, "notFound", "ok") ELSE Renames(c, Goes(c, "expiring"))
ValkeyExplain(c) == at[c].pc = "explaining" /\ Looks(c, "notFound", "failed")
ValkeyExpire(c) ==
    /\ at[c].pc = "expiring" /\ Op(c) = "move"
    /\ Ends(c, "ok") \/ Closes(c, "ok") \/ Closes(c, "failed")
    /\ UNCHANGED <<held, link>>

\* A page is removed at once when it has been scanned, which ends when the signal fires.
ValkeyClear(c) == Begins(c, "clear") /\ Lists(c, Names)
ValkeyClearPage(c) ==
    \/ Clearing(c) /\ at[c].signal /\ Quits(c, "aborted")
    \/ ~at[c].signal /\ RemovesOne(c)
    \/ HasRemovedAll(c)

ValkeyStreamStart(c) == Begins(c, "setStream") /\ StartsTemporary(c)
ValkeyStreamWrite(c) == Throws(c) \/ Extends(c, Put(c, WithChunk(c)))

\* The temporary is renamed; then the value gets its time to live.  When that fails the stream
\* fails, though the value is there.
ValkeyStreamClose(c) ==
    /\ Streaming(c) /\ IsComplete(c) /\ ~at[c].signal
    /\ \/ held[c] # None /\ held' = Rename(c, Key(c)) /\ Goes(c, "expiring")
       \/ held' \in {held} \cup (IF held[c] = None THEN {} ELSE {Rename(c, Key(c))})
          /\ Finishes(c, "ended", "failed")
    /\ UNCHANGED link
ValkeyStreamExpire(c) ==
    /\ at[c].pc = "expiring" /\ Op(c) = "setStream"
    /\ \/ Ends(c, "ok") \/ Closes(c, "ok")
       \/ at' = [at EXCEPT ![c].pc = "ended", ![c].answer = "failed", ![c].late = Late(c),
                           ![c].finished = TRUE, ![c].cleaning = @ \/ ~at[c].finished]
    /\ UNCHANGED <<held, link>>
ValkeyStreamAbort(c) == Abandons(c)
ValkeyOnAbort(c) == HearsSignal(c, {"stream", "expiring"})
ValkeyFinish(c) == Discards(c)
ValkeyGetReadable(c) == Begins(c, "getStream") /\ Waits(c)
ValkeyPull(c) == Pulls(c)

\* A client that was handed in is used as it is.
ValkeyOpen(c) ==
    /\ Enters(c, "open")
    /\ \/ link.con # None /\ Forgets(c)
       \/ link.con = None /\ ~plan.injected /\ link' = link /\ Goes(c, "connecting")
       \/ link.con = None /\ plan.injected /\ Ends(c, "ok")
          /\ link' = [link EXCEPT !.con = Given]
    /\ UNCHANGED held
ValkeyConnected(c) ==
    /\ at[c].pc = "connecting"
    /\ \/ plan.injected /\ link' = [link EXCEPT !.con = Given] /\ Ends(c, "ok")
       \/ ~plan.injected /\ Ends(c, "ok")
          /\ link' = [link EXCEPT !.con = c, !.sockets = @ \cup {c}]
       \/ ~plan.injected /\ Goes(c, "disconnecting") /\ (link' = link \/ Connects(c))
    /\ UNCHANGED held
ValkeyDisconnect(c) ==
    /\ at[c].pc = "disconnecting"
    /\ link' = [link EXCEPT !.sockets = @ \ {c}] /\ Ends(c, "failed")
    /\ UNCHANGED held
ValkeyClose(c) ==
    /\ Enters(c, "close")
    /\ \/ link.con = None /\ link' = link /\ Ends(c, "failed")
       \/ link.con # None /\ Forgets(c)
    /\ UNCHANGED held

\* Only a client of its own is quit, or disconnected if it does not quit in time.
ValkeyQuits(c) ==
    /\ at[c].pc = "quitting"
    /\ link' = [link EXCEPT !.sockets = @ \ (at[c].left \ {Given})]
    /\ IF Op(c) = "close" THEN Ends(c, "ok") ELSE Goes(c, "connecting")
    /\ UNCHANGED held

ValkeyRefuses(c) == Refuses(c, AllOps)

Valkey(c) ==
    \/ ValkeyRefuses(c) \/ ValkeyIsNotOpen(c)
    \/ ValkeyWrite(c) \/ ValkeyRead(c) \/ ValkeyExists(c) \/ ValkeyDelete(c)
    \/ ValkeyCopy(c) \/ ValkeySetCopy(c)
    \/ ValkeyMove(c) \/ ValkeyExplain(c) \/ ValkeyExpire(c)
    \/ ValkeyClear(c) \/ ValkeyClearPage(c)
    \/ ValkeyStreamStart(c) \/ ValkeyStreamWrite(c) \/ ValkeyStreamClose(c)
    \/ ValkeyStreamExpire(c) \/ ValkeyStreamAbort(c) \/ ValkeyOnAbort(c) \/ ValkeyFinish(c)
    \/ ValkeyGetReadable(c) \/ ValkeyPull(c)
    \/ ValkeyOpen(c) \/ ValkeyConnected(c) \/ ValkeyDisconnect(c)
    \/ ValkeyClose(c) \/ ValkeyQuits(c)
=============================================================================
