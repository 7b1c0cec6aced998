---------------------------- MODULE FileStorages ----------------------------
(***************************************************************************)
(* The storages on a file system: fs.node, fs.bun and opfs (the origin's   *)
(* private file system in a browser).  A name is a file in one directory,  *)
(* link.root; nothing can be made in it while it is away.                  *)
(***************************************************************************)
EXTENDS StorageCall

FileOps == {"write", "read", "exists", "delete", "copy", "move", "clear",
            "setStream", "getStream"}

\* The root is made, with all its parents, when the storage is opened.
OpensRoot(c) ==
    /\ \/ link' = [link EXCEPT !.con = Given, !.root = TRUE] /\ Ends(c, "ok")
       \/ link' \in {link, [link EXCEPT !.root = TRUE]} /\ Ends(c, "failed")
    /\ UNCHANGED held

\* A file is made in the root, if there is one, and may be left behind empty.
Makes(c, name, label) ==
    /\ \/ link.root /\ held' = Put(name, Begun(c)) /\ Goes(c, label)
       \/ held' \in {held} \cup (IF link.root THEN {Put(name, Begun(c))} ELSE {})
          /\ Goes(c, "undoing")
    /\ UNCHANGED link

\* The file of a failed write is removed; a failure to do so is ignored.
Undoes(c) ==
    /\ at[c].pc = "undoing"
    /\ LET what == IF at[c].signal THEN "aborted" ELSE "failed" IN
       \/ held' = Put(c, None) /\ Ends(c, what)
       \/ held' = held
          /\ at' = [at EXCEPT ![c].pc = "ended", ![c].answer = what,
                              ![c].litter = held[c] # None]
    /\ UNCHANGED link

\* The file of a write takes the place of the value.
Replaces(c, late) ==
    /\ \/ held[c] # None /\ held' = Rename(c, Key(c))
          /\ at' = [at EXCEPT ![c].pc = "ended", ![c].answer = "ok", ![c].late = late]
       \/ held' = held /\ at' = [at EXCEPT ![c].pc = "undoing", ![c].late = late]
    /\ UNCHANGED link

\* A copy writes into the destination: another finds it partial meanwhile, or if it fails.
StartsCopy(c) ==
    \/ held[Key(c)] = None /\ Quits(c, "notFound")
    \/ /\ held[Key(c)] # None
       /\ held' = Put(Dest(c), Begun(held[Key(c)].by))
       /\ at' = [at EXCEPT ![c].pc = "copying", ![c].hand = held[Key(c)]]
       /\ UNCHANGED link
    \/ Quits(c, "failed")
EndsCopy(c) ==
    /\ at[c].pc = "copying"
    /\ \/ held' = Put(Dest(c), at[c].hand) /\ Ends(c, "ok")
       \/ held' \in {held, Put(Dest(c), None)} /\ Ends(c, "failed")
    /\ UNCHANGED link

\* The files are removed one by one, and the root after them.
EmptiesRoot(c, label) ==
    /\ Clearing(c)
    /\ \/ \E n \in {n \in Names : held[n] # None} : held' = Without({n}) /\ UNCHANGED <<at, link>>
       \/ held' = Without(Names) /\ link' = [link EXCEPT !.root = FALSE] /\ Goes(c, label)
       \/ held' = held /\ link' = link /\ Ends(c, "failed")

\* The root is made again, but not if the signal has fired meanwhile.
RestoresRoot(c) ==
    /\ at[c].pc = "restoring"
    /\ \/ at[c].signal /\ link' = link /\ Ends(c, "aborted")
       \/ ~at[c].signal /\ link' = [link EXCEPT !.root = TRUE] /\ Ends(c, "ok")
       \/ ~at[c].signal /\ link' = link /\ Ends(c, "failed")
    /\ UNCHANGED held

\* A file is removed, if it is there.
Unlinks(c) == Carries(c, Put(Key(c), None))

----------------------------------------------------------------------------
(* fs.node *)

NodeFsIsNotOpen(c) == IsNotOpen(c)
NodeFsOpen(c) == Enters(c, "open") /\ OpensRoot(c)

\* The temporary is written under the signal, which is not looked at before it is renamed.
NodeFsWrite(c) == Begins(c, "write") /\ Makes(c, c, "writing")
NodeFsWritten(c) ==
    /\ at[c].pc = "writing"
    /\ \/ ~at[c].signal /\ held[c] # None /\ held' = Put(c, Value(c)) /\ Goes(c, "renaming")
       \/ held' = held /\ Goes(c, "undoing")
    /\ UNCHANGED link
NodeFsRename(c) == at[c].pc = "renaming" /\ Replaces(c, Late(c))
NodeFsRemoveFile(c) == Undoes(c)

NodeFsRead(c) == Begins(c, "read") /\ Fetches(c)
NodeFsExists(c) == Begins(c, "exists") /\ Looks(c, "no", "yes")
NodeFsDelete(c) == Begins(c, "delete") /\ Unlinks(c)

NodeFsCopy(c) ==
    \/ Begins(c, "copy") /\ (IF ToItself(c) THEN Looks(c, "notFound", "ok") ELSE StartsCopy(c))
    \/ EndsCopy(c)
NodeFsMove(c) ==
    /\ Begins(c, "move")
    /\ IF ToItself(c) THEN Looks(c, "notFound", "ok")
                      ELSE Carries(c, Rename(Key(c), Dest(c)))

NodeFsClear(c) ==
    \/ Begins(c, "clear") /\ Lists(c, {})
    \/ EmptiesRoot(c, "restoring")
    \/ RestoresRoot(c)

\* The file of a stream is opened behind the call; an error surfaces at the next use.
NodeFsGetWritable(c) ==
    /\ Begins(c, "setStream")
    /\ \/ link.root /\ held' = Put(c, Begun(c)) /\ Goes(c, "stream")
       \/ held' = held /\ Goes(c, "broken")
    /\ UNCHANGED link
NodeFsStreamWrite(c) ==
    \/ Throws(c)
    \/ link.root /\ Extends(c, Put(c, WithChunk(c)))
    \/ /\ at[c].pc = "broken" /\ ~at[c].finished
       /\ Finishes(c, "ended", "failed") /\ UNCHANGED <<held, link>>
\* The stream ends; then the temporary is renamed, unless the signal fires before the end.
NodeFsStreamClose(c) ==
    \/ /\ Streaming(c) /\ IsComplete(c) /\ ~at[c].signal
       /\ Goes(c, "closing") /\ UNCHANGED <<held, link>>
    \/ at[c].pc = "closing" /\ ~at[c].signal /\ Publishes(c)
    \/ at[c].pc = "closing" /\ at[c].finished /\ Quits(c, "aborted")
NodeFsStreamAbort(c) == Abandons(c)
NodeFsOnAbort(c) == HearsSignal(c, {"stream", "closing", "broken"})
NodeFsBroken(c) == at[c].pc = "broken" /\ at[c].finished /\ Quits(c, "failed")
NodeFsCleanup(c) == Discards(c)
NodeFsGetReadable(c) == Begins(c, "getStream") /\ Fetches(c)

NodeFsRefuses(c) == Refuses(c, FileOps)

NodeFs(c) ==
    \/ NodeFsRefuses(c) \/ NodeFsIsNotOpen(c) \/ NodeFsOpen(c)
    \/ NodeFsWrite(c) \/ NodeFsWritten(c) \/ NodeFsRename(c) \/ NodeFsRemoveFile(c)
    \/ NodeFsRead(c) \/ NodeFsExists(c) \/ NodeFsDelete(c)
    \/ NodeFsCopy(c) \/ NodeFsMove(c) \/ NodeFsClear(c)
    \/ NodeFsGetWritable(c) \/ NodeFsStreamWrite(c) \/ NodeFsStreamClose(c)
    \/ NodeFsStreamAbort(c) \/ NodeFsOnAbort(c) \/ NodeFsBroken(c) \/ NodeFsCleanup(c)
    \/ NodeFsGetReadable(c)

----------------------------------------------------------------------------
(* fs.bun *)

BunFsIsNotOpen(c) == IsNotOpen(c)
BunFsOpen(c) == Enters(c, "open") /\ OpensRoot(c)

\* The temporary is written whole; the signal is looked at then, and the rename sent at once.
BunFsWrite(c) == Begins(c, "write") /\ Makes(c, c, "writing")
BunFsWritten(c) ==
    /\ at[c].pc = "writing"
    /\ \/ ~at[c].signal /\ held[c] # None /\ held' = Put(c, Value(c)) /\ Goes(c, "renaming")
       \/ held' = held /\ Goes(c, "undoing")
    /\ UNCHANGED link
BunFsRename(c) == at[c].pc = "renaming" /\ Replaces(c, at[c].late)
BunFsRemoveTemporary(c) == Undoes(c)

BunFsRead(c) == Begins(c, "read") /\ Fetches(c)
BunFsExists(c) == Begins(c, "exists") /\ Looks(c, "no", "yes")
BunFsDelete(c) == Begins(c, "delete") /\ Unlinks(c)

BunFsCopy(c) ==
    \/ Begins(c, "copy") /\ (IF ToItself(c) THEN Looks(c, "notFound", "ok") ELSE StartsCopy(c))
    \/ EndsCopy(c)
BunFsMove(c) ==
    /\ Begins(c, "move")
    /\ IF ToItself(c) THEN Looks(c, "notFound", "ok")
                      ELSE Carries(c, Rename(Key(c), Dest(c)))

BunFsClear(c) ==
    \/ Begins(c, "clear") /\ Lists(c, {})
    \/ EmptiesRoot(c, "restoring")
    \/ RestoresRoot(c)

BunFsGetWritable(c) ==
    /\ Begins(c, "setStream")
    /\ \/ link.root /\ held' = Put(c, Begun(c)) /\ Goes(c, "stream") /\ UNCHANGED link
       \/ Quits(c, "failed")
BunFsStreamWrite(c) == Throws(c) \/ (link.root /\ Extends(c, Put(c, WithChunk(c))))

\* While the sink ends, the listener may have the temporary removed; it is renamed all the
\* same, if it is still there.  When that fails, it is removed once more.
BunFsStreamClose(c) ==
    \/ /\ Streaming(c) /\ IsComplete(c) /\ ~at[c].signal
       /\ Goes(c, "closing") /\ UNCHANGED <<held, link>>
    \/ /\ at[c].pc = "closing"
       /\ \/ IsPublished(c)
          \/ held' = held /\ at' = [at EXCEPT ![c].pc = "ended", ![c].answer = "failed",
                                             ![c].finished = TRUE, ![c].cleaning = TRUE]
       /\ UNCHANGED link
BunFsStreamAbort(c) == Abandons(c)
BunFsOnAbort(c) == HearsSignal(c, {"stream", "closing"})
BunFsFinish(c) == Discards(c)

BunFsGetReadable(c) == Begins(c, "getStream") /\ Waits(c)
BunFsPull(c) == Pulls(c)

BunFsRefuses(c) == Refuses(c, FileOps)

BunFs(c) ==
    \/ BunFsRefuses(c) \/ BunFsIsNotOpen(c) \/ BunFsOpen(c)
    \/ BunFsWrite(c) \/ BunFsWritten(c) \/ BunFsRename(c) \/ BunFsRemoveTemporary(c)
    \/ BunFsRead(c) \/ BunFsExists(c) \/ BunFsDelete(c)
    \/ BunFsCopy(c) \/ BunFsMove(c) \/ BunFsClear(c)
    \/ BunFsGetWritable(c) \/ BunFsStreamWrite(c) \/ BunFsStreamClose(c)
    \/ BunFsStreamAbort(c) \/ BunFsOnAbort(c) \/ BunFsFinish(c)
    \/ BunFsGetReadable(c) \/ BunFsPull(c)

----------------------------------------------------------------------------
(* opfs: a file is made empty, and takes its content when its writer is closed *)

OpfsIsNotOpen(c) == IsNotOpen(c)

\* The directories on the way to the root are made one after another.
OpfsOpen(c) ==
    /\ Begins(c, "open")
    /\ IF link.con # None THEN Ends(c, "ok") ELSE Goes(c, "entering")
    /\ UNCHANGED <<held, link>>
OpfsEnter(c) ==
    /\ at[c].pc = "entering"
    /\ IF at[c].signal THEN link' = link /\ Ends(c, "aborted")
       ELSE \/ link' = [link EXCEPT !.con = Given, !.root = TRUE] /\ Ends(c, "ok")
            \/ link' = link /\ Ends(c, "failed")
    /\ UNCHANGED held

\* The file is made if it is not there.
OpfsCreateWritable(c) ==
    /\ \/ held' = (IF held[Key(c)] = None THEN Put(Key(c), Begun(c)) ELSE held)
          /\ Goes(c, "writable")
       \/ held' = held /\ Ends(c, "failed")
    /\ UNCHANGED link
OpfsWritable(c) ==
    /\ at[c].pc = "writable"
    /\ IF at[c].signal THEN Quits(c, "aborted")
       ELSE \/ Goes(c, IF Op(c) = "write" THEN "writing" ELSE "stream") /\ UNCHANGED <<held, link>>
            \/ Quits(c, "failed")

\* The content is written to the side and takes effect when the writer is closed.
OpfsWrite(c) == Begins(c, "write") /\ OpfsCreateWritable(c)
OpfsWriteFile(c) ==
    /\ at[c].pc = "writing"
    /\ IF at[c].signal THEN Quits(c, "aborted") ELSE Sends(c, Put(Key(c), Value(c)))

OpfsGetFile(c) ==
    /\ at[c].pc = "opened"
    /\ IF at[c].signal THEN Quits(c, "aborted") ELSE Delivers(c)
OpfsRead(c) == Begins(c, "read") /\ FetchesAndGoes(c, "opened")
OpfsExists(c) == Begins(c, "exists") /\ Looks(c, "no", "yes")
OpfsDelete(c) == Begins(c, "delete") /\ Unlinks(c)

\* The root is removed whole, and the storage is not open until it is made again, which is
\* tried whatever has happened.
OpfsClear(c) ==
    \/ Begins(c, "clear") /\ Lists(c, {})
    \/ Clearing(c) /\ at[c].signal /\ Quits(c, "aborted")
    \/ /\ Clearing(c) /\ ~at[c].signal
       /\ \/ held' = Without(Names)
             /\ at' = [at EXCEPT ![c].pc = "restoring", ![c].left = {}]
          \/ held' = held /\ at' = [at EXCEPT ![c].pc = "restoring", ![c].left = {Given}]
       /\ link' = [link EXCEPT !.con = None]
    \/ /\ at[c].pc = "restoring"
       /\ \/ link' = [link EXCEPT !.con = Given]
             /\ Closes(c, IF at[c].left # {} THEN "failed"
                          ELSE IF at[c].signal THEN "aborted" ELSE "ok")
          \/ link' = link /\ Closes(c, "failed")
       /\ UNCHANGED held

OpfsGetWritable(c) == Begins(c, "setStream") /\ OpfsCreateWritable(c)
OpfsStreamWrite(c) ==
    \/ Notices(c)
    \/ ~at[c].signal /\ Buffers(c)
    \/ Streaming(c) /\ ~at[c].signal /\ Quits(c, "failed")
OpfsStreamClose(c) == ~at[c].signal /\ Stores(c)
OpfsStreamAbort(c) == GivesUp(c)
OpfsGetReadable(c) == Begins(c, "getStream") /\ FetchesAndGoes(c, "opened")

OpfsRefuses(c) == Refuses(c, FileOps \cup {"open"})

Opfs(c) ==
    \/ OpfsRefuses(c) \/ OpfsIsNotOpen(c) \/ OpfsOpen(c) \/ OpfsEnter(c)
    \/ OpfsWrite(c) \/ OpfsWritable(c) \/ OpfsWriteFile(c) \/ OpfsRead(c) \/ OpfsGetFile(c)
    \/ OpfsExists(c) \/ OpfsDelete(c) \/ OpfsClear(c)
    \/ OpfsGetWritable(c) \/ OpfsStreamWrite(c) \/ OpfsStreamClose(c) \/ OpfsStreamAbort(c)
    \/ OpfsGetReadable(c)
=============================================================================
