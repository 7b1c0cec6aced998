---------------------------- MODULE ObjectStorages --------------------------
(***************************************************************************)
(* The storages on an object store: s3.node, s3.bun, cloudflare-r2 and     *)
(* vercel-blob.  An object appears under its name whole, when its upload   *)
(* is complete; there is no rename, so a move is a copy and a delete.      *)
(***************************************************************************)
EXTENDS StorageCall

AllOps == {"write", "read", "exists", "delete", "copy", "move", "clear",
           "setStream", "getStream"}

\* The contents that there are, which a list shows.
Present == {n \in Names : held[n] # None}

\* Mutant: the signal is not looked at.
Checks_Late(c, label) == at[c].pc = label

\* The call looks at its signal and asks for one thing more.
Checks(c, label) == at[c].pc = label /\ ~at[c].signal
IsStopped(c, labels) == at[c].pc \in labels /\ at[c].signal /\ Quits(c, "aborted")

\* Mutant: a copy that has failed is gone on from.
CopiesAndGoes_Anyway(c, label) ==
    \/ held[Key(c)] = None /\ Quits(c, "notFound")
    \/ /\ held[Key(c)] # None
       /\ held' \in {held, Put(Dest(c), held[Key(c)])}
       /\ Goes(c, label) /\ UNCHANGED link

\* The service copies; the call goes on.
CopiesAndGoes(c, label) ==
    \/ held[Key(c)] = None /\ Quits(c, "notFound")
    \/ held[Key(c)] # None /\ SendsAndGoes(c, Put(Dest(c), held[Key(c)]), label)

----------------------------------------------------------------------------
(* s3.node: every command is given the signal *)

S3IsNotOpen(c) == IsNotOpen(c)
S3Write(c) == Begins(c, "write") /\ Sends(c, Put(Key(c), Value(c)))
S3GetObjectBody(c) == Begins(c, "read") /\ Fetches(c)
S3Exists(c) == Begins(c, "exists") /\ Looks(c, "no", "yes")
S3Delete(c) == Begins(c, "delete") /\ Sends(c, Put(Key(c), None))

S3CopyObject(c) == Carries(c, Put(Dest(c), held[Key(c)]))
S3Copy(c) ==
    /\ Begins(c, "copy")
    /\ IF ToItself(c) THEN Looks(c, "notFound", "ok") ELSE S3CopyObject(c)
S3Move(c) ==
    \/ /\ Begins(c, "move")
       /\ IF ToItself(c) THEN Looks(c, "notFound", "ok") ELSE CopiesAndGoes(c, "deleting")
    \/ IsStopped(c, {"deleting"})
    \/ Checks(c, "deleting") /\ Sends(c, Put(Key(c), None))

\* The objects of a page are deleted by one command, which may fail for some of them.
S3Clear(c) ==
    \/ Begins(c, "clear") /\ Lists(c, Present)
    \/ IsStopped(c, {"clearing"})
    \/ /\ Checks(c, "clearing") /\ at[c].left # {}
       /\ \/ Removes(c, at[c].left)
          \/ \E some \in SUBSET at[c].left : held' = Without(some) /\ Closes(c, "failed")
             /\ UNCHANGED link
    \/ HasRemovedAll(c)

\* The chunks are uploaded as they come; the object appears when the stream is closed.  The
\* upload is given up when the signal fires.
S3GetWritable(c) ==
    \/ Begins(c, "setStream") /\ Opens(c)
    \/ ~at[c].signal /\ Buffers(c)
    \/ ~at[c].signal /\ Stores(c)
    \/ Notices(c)
    \/ GivesUp(c)
S3GetReadable(c) == Begins(c, "getStream") /\ Fetches(c)

S3Open(c) ==
    /\ Enters(c, "open")
    /\ link' = [link EXCEPT !.con = c, !.sockets = (@ \ {link.con}) \cup {c}]
    /\ Ends(c, "ok") /\ UNCHANGED held
S3Close(c) ==
    /\ Enters(c, "close")
    /\ \/ link.con # None /\ Ends(c, "ok")
          /\ link' = [link EXCEPT !.con = None, !.sockets = @ \ {link.con}]
       \/ link.con = None /\ Ends(c, "failed") /\ link' = link
    /\ UNCHANGED held

S3Refuses(c) == Refuses(c, AllOps)

S3(c) ==
    \/ S3Refuses(c) \/ S3IsNotOpen(c) \/ S3Write(c) \/ S3GetObjectBody(c) \/ S3Exists(c)
    \/ S3Delete(c) \/ S3Copy(c) \/ S3Move(c) \/ S3Clear(c)
    \/ S3GetWritable(c) \/ S3GetReadable(c) \/ S3Open(c) \/ S3Close(c)

----------------------------------------------------------------------------
(* s3.bun: a command cannot be cut short, so the signal is looked at before each *)

S3BunIsNotOpen(c) == IsNotOpen(c)
S3BunWrite(c) == Begins(c, "write") /\ Sends(c, Put(Key(c), Value(c)))
S3BunRead(c) == Begins(c, "read") /\ Fetches(c)
S3BunKeyExists(c) == Begins(c, "exists") /\ Looks(c, "no", "yes")
S3BunDelete(c) == Begins(c, "delete") /\ Sends(c, Put(Key(c), None))

\* A copy reads the object and writes it.
S3BunCopyKey(c) == FetchesAndGoes(c, "copying")
S3BunCopyWrite(c) ==
    /\ Checks(c, "copying")
    /\ IF Op(c) = "move" THEN SendsAndGoes(c, Put(Dest(c), at[c].hand), "deleting")
                         ELSE Sends(c, Put(Dest(c), at[c].hand))
S3BunAssertKeyExists(c) == Looks(c, "notFound", "ok")
S3BunCopy(c) ==
    \/ /\ Begins(c, "copy")
       /\ IF ToItself(c) THEN S3BunAssertKeyExists(c) ELSE S3BunCopyKey(c)
    \/ IsStopped(c, {"copying"})
    \/ S3BunCopyWrite(c)
S3BunMove(c) ==
    \/ /\ Begins(c, "move")
       /\ IF ToItself(c) THEN S3BunAssertKeyExists(c) ELSE S3BunCopyKey(c)
    \/ IsStopped(c, {"deleting"})
    \/ Checks(c, "deleting") /\ Sends(c, Put(Key(c), None))

\* The objects of a batch are deleted side by side; when one fails the call ends, and the rest
\* go on behind it.
S3BunClear(c) ==
    \/ Begins(c, "clear") /\ Lists(c, Present)
    \/ IsStopped(c, {"clearing"})
    \/ /\ Checks(c, "clearing") /\ at[c].left # {}
       /\ Goes(c, "batch") /\ UNCHANGED <<held, link>>
    \/ /\ at[c].pc = "batch" \/ (Ended(c) /\ Op(c) = "clear")
       /\ \E n \in at[c].left :
              /\ held' \in {held, Without({n})}
              /\ \/ held' = Without({n}) /\ at' = [at EXCEPT ![c].left = @ \ {n}]
                 \/ at' = [at EXCEPT ![c].left = @ \ {n}, ![c].pc = "ended",
                                     ![c].answer = IF Ended(c) THEN @ ELSE "failed"]
       /\ UNCHANGED link
    \/ at[c].pc = "batch" /\ at[c].left = {} /\ Goes(c, "clearing") /\ UNCHANGED <<held, link>>
    \/ HasRemovedAll(c)

S3BunGetWritable(c) ==
    \/ Begins(c, "setStream") /\ Opens(c)
    \/ ~at[c].signal /\ Buffers(c)
    \/ ~at[c].signal /\ Stores(c)
    \/ Notices(c)
    \/ GivesUp(c)
S3BunGetReadable(c) == Begins(c, "getStream") /\ Fetches(c)

S3BunOpen(c) ==
    \/ /\ Enters(c, "open") /\ link' = [link EXCEPT !.con = None]
       /\ Goes(c, "importing") /\ UNCHANGED held
    \/ /\ at[c].pc = "importing" /\ link' = [link EXCEPT !.con = Given]
       /\ Ends(c, "ok") /\ UNCHANGED held
S3BunClose(c) ==
    /\ Enters(c, "close")
    /\ Ends(c, IF link.con = None THEN "failed" ELSE "ok")
    /\ link' = [link EXCEPT !.con = None]
    /\ UNCHANGED held

S3BunRefuses(c) == Refuses(c, AllOps)

S3Bun(c) ==
    \/ S3BunRefuses(c) \/ S3BunIsNotOpen(c) \/ S3BunWrite(c) \/ S3BunRead(c)
    \/ S3BunKeyExists(c) \/ S3BunDelete(c) \/ S3BunCopy(c) \/ S3BunMove(c) \/ S3BunClear(c)
    \/ S3BunGetWritable(c) \/ S3BunGetReadable(c) \/ S3BunOpen(c) \/ S3BunClose(c)

----------------------------------------------------------------------------
(* cloudflare-r2: a call that reads ends when its signal fires *)

R2Put(c) == Begins(c, "write") /\ Sends(c, Put(Key(c), Value(c)))
R2GetReadable(c) == Begins(c, "getStream") /\ FetchesAndGoes(c, "loading")
R2GetBytes(c) ==
    \/ Begins(c, "read") /\ FetchesAndGoes(c, "loading")
    \/ IsStopped(c, {"loading"})
    \/ at[c].pc = "loading" /\ Delivers(c)
R2Exists(c) == Begins(c, "exists") /\ Looks(c, "no", "yes")
R2Delete(c) == Begins(c, "delete") /\ Sends(c, Put(Key(c), None))
R2Clear(c) ==
    \/ Begins(c, "clear") /\ Lists(c, Present)
    \/ IsStopped(c, {"clearing"})
    \/ Checks(c, "clearing") /\ at[c].left # {} /\ Removes(c, at[c].left)
    \/ HasRemovedAll(c)
R2GetWritable(c) ==
    \/ Begins(c, "setStream") /\ Opens(c)
    \/ ~at[c].signal /\ Buffers(c)
    \/ ~at[c].signal /\ Stores(c)
    \/ Notices(c)
    \/ GivesUp(c)
R2Refuses(c) == Refuses(c, AllOps)

R2(c) ==
    \/ R2Refuses(c) \/ R2Put(c) \/ R2GetBytes(c) \/ R2GetReadable(c) \/ R2Exists(c) 
    \/ R2Delete(c) \/ R2Clear(c) \/ R2GetWritable(c)

----------------------------------------------------------------------------
(* vercel-blob: a value is found by its head and downloaded from the place that it names *)

BlobPut(c) == Begins(c, "write") /\ Sends(c, Put(Key(c), Value(c)))

\* What is downloaded is what the place holds by then.
BlobHead(c, absent, label) ==
    \/ held[Key(c)] = None /\ Quits(c, absent)
    \/ held[Key(c)] # None /\ Goes(c, label) /\ UNCHANGED <<held, link>>
    \/ Quits(c, "failed")
BlobDownload(c) == at[c].pc = "downloading" /\ ~at[c].signal /\ Fetches(c)
BlobRead(c) == Begins(c, "read") /\ BlobHead(c, "notFound", "downloading")
BlobGetReadable(c) == Begins(c, "getStream") /\ BlobHead(c, "notFound", "downloading")
BlobExists(c) == Begins(c, "exists") /\ Looks(c, "no", "yes")
BlobDelete(c) == Begins(c, "delete") /\ Sends(c, Put(Key(c), None))

\* A client that cannot copy reads the value and puts it.
BlobCopy(c) ==
    LET next(new) == IF Op(c) = "move" THEN SendsAndGoes(c, new, "deleting") ELSE Sends(c, new)
    IN
    \/ /\ Begins(c, "copy") \/ Begins(c, "move")
       /\ \/ ToItself(c) /\ Looks(c, "notFound", "ok")
          \/ ~ToItself(c) /\ held[Key(c)] = None /\ Quits(c, "notFound")
          \/ ~ToItself(c) /\ held[Key(c)] # None /\ next(Put(Dest(c), held[Key(c)]))
          \/ ~ToItself(c) /\ BlobHead(c, "notFound", "fetching")
    \/ at[c].pc = "fetching" /\ ~at[c].signal /\ FetchesAndGoes(c, "copying")
    \/ Checks(c, "copying") /\ next(Put(Dest(c), at[c].hand))
BlobMove(c) == Checks(c, "deleting") /\ Sends(c, Put(Key(c), None))

\* All pages are listed first; then one command deletes what they name.
BlobClear(c) ==
    \/ Begins(c, "clear") /\ Lists(c, Present)
    \/ Checks(c, "clearing") /\ at[c].left # {} /\ Removes(c, at[c].left)
    \/ HasRemovedAll(c)
BlobStops(c) == IsStopped(c, {"downloading", "fetching", "copying", "deleting", "clearing"})

\* The signal is looked at when the stream is closed, and not when it is written to.
BlobGetWritable(c) ==
    \/ Begins(c, "setStream") /\ Opens(c)
    \/ Buffers(c)
    \/ ~at[c].signal /\ Stores(c)
    \/ IsComplete(c) /\ Notices(c)
    \/ GivesUp(c)
BlobRefuses(c) == Refuses(c, AllOps)

Blob(c) ==
    \/ BlobRefuses(c) \/ BlobPut(c) \/ BlobRead(c) \/ BlobDownload(c) \/ BlobGetReadable(c)
    \/ BlobExists(c) \/ BlobDelete(c) \/ BlobCopy(c) \/ BlobMove(c) \/ BlobClear(c)
    \/ BlobStops(c) \/ BlobGetWritable(c)
=============================================================================
