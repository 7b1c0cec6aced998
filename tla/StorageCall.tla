---------------------------- MODULE StorageCall ----------------------------
(***************************************************************************)
(* What the storage plugins have in common: a service that holds contents  *)
(* under names, calls of the storage interface that are under way, and the *)
(* steps those calls are made of.  Each storage has definitions of its own *)
(* that say which steps its methods take, in which order and under which   *)
(* guards.                                                                 *)
(*                                                                         *)
(* The names of a service are the keys and, for the storages that write a  *)
(* stream or a value to a temporary first, the temporary of each call,     *)
(* which is named by the call.  A content is known by the call that wrote  *)
(* it (or by the key it was under from the start) and by the chunks it     *)
(* has; a whole value has them all.                                        *)
(*                                                                         *)
(* A command to the service takes effect in one step and may fail, before  *)
(* or after it has taken effect: a lost request and a lost reply.          *)
(***************************************************************************)
EXTENDS Integers, FiniteSets

CONSTANTS
    Keys,   \* keys
    Calls,  \* calls of the storage, which also name their temporaries
    Given,  \* a connection that is there from the start: made before, or handed in
    None    \* no content, no connection

VARIABLES
    plan,   \* the calls that are made: their requests, and what limits them
    held,   \* the content that the service holds under each name
    at,     \* how far each call is and what it has in hand
    link,   \* the storage's connection to the service
    seen    \* the contents that the keys have had while a call was under way

callVars == <<plan, held, at, link, seen>>

----------------------------------------------------------------------------
(* contents and names *)

Names == Keys \cup Calls
Chunks == {1, 2}
Contents == [by : Names, parts : SUBSET Chunks]
Begun(x) == [by |-> x, parts |-> {}]
Value(x) == [by |-> x, parts |-> Chunks]

Op(c) == plan.request[c].op
Key(c) == plan.request[c].key
Dest(c) == plan.request[c].dest

Put(name, content) == [held EXCEPT ![name] = content]
Without(names) == [n \in Names |-> IF n \in names THEN None ELSE held[n]]
Rename(from, to) == [held EXCEPT ![to] = held[from], ![from] = None]

----------------------------------------------------------------------------
(* the steps of a call *)

Idle == [pc |-> "idle", answer |-> "none",
         hand |-> None,         \* a content it has read
         count |-> 0,           \* the chunks of its stream it has written
         left |-> {},           \* the names, or the connection, that it has yet to remove
         page |-> {},           \* the names that it has found and is removing
         signal |-> FALSE,      \* its signal has fired
         late |-> 0,            \* the commands that it has sent after that
         finished |-> FALSE,    \* its stream is finished and listens no more
         cleaning |-> FALSE,    \* its temporary is being removed
         litter |-> FALSE]      \* its temporary could not be removed

Answers == {"none", "ok", "failed", "aborted", "notFound", "yes", "no", "value"}
Ended(c) == at[c].pc = "ended"
UnderWay(c) == at[c].pc \notin {"idle", "ended"}

\* The call begins, after those before it if the plan says so.
Enters(c, op) ==
    /\ at[c].pc = "idle" /\ Op(c) = op
    /\ plan.serial => \A d \in Calls : ~UnderWay(d)

\* The call begins and its signal has not fired.
Begins(c, op) == Enters(c, op) /\ ~at[c].signal

Goes(c, label) == at' = [at EXCEPT ![c].pc = label]
Ends(c, what) == at' = [at EXCEPT ![c].pc = "ended", ![c].answer = what]
Quits(c, what) == Ends(c, what) /\ UNCHANGED <<held, link>>

\* A call whose signal has fired before it asks for anything throws.
Refuses(c, ops) == \E op \in ops : Enters(c, op) /\ at[c].signal /\ Quits(c, "aborted")

\* A call of a storage that is not open throws.
IsNotOpen(c) == Enters(c, Op(c)) /\ Op(c) # "open" /\ link.con = None /\ Quits(c, "failed")

\* The late commands of a call, with the one it sends in this step: those that change something,
\* other than its first and the removal of its own temporary, and are sent after its signal has
\* fired.
Late(c) == at[c].late + (IF at[c].signal /\ at[c].pc # "idle" THEN 1 ELSE 0)
Closes(c, what) ==
    at' = [at EXCEPT ![c].pc = "ended", ![c].answer = what, ![c].late = Late(c)]

\* The call sends its last command.
Sends(c, new) ==
    /\ \/ held' = new /\ Closes(c, "ok")
       \/ held' \in {held, new} /\ Closes(c, "failed")
    /\ UNCHANGED link

\* A command that was sent at once after the reply to the one before takes effect.
Lands(c, new) ==
    /\ \/ held' = new /\ Ends(c, "ok")
       \/ held' \in {held, new} /\ Ends(c, "failed")
    /\ UNCHANGED link

\* The call sends a command and goes on when that is done.
SendsAndGoes(c, new, label) ==
    /\ \/ held' = new /\ at' = [at EXCEPT ![c].pc = label, ![c].late = Late(c)]
       \/ held' \in {held, new} /\ Closes(c, "failed")
    /\ UNCHANGED link

\* The call learns what is under its key.
Fetches(c) ==
    /\ \/ held[Key(c)] = None /\ Ends(c, "notFound")
       \/ held[Key(c)] # None
          /\ at' = [at EXCEPT ![c].pc = "ended", ![c].answer = "value", ![c].hand = held[Key(c)]]
       \/ Ends(c, "failed")
    /\ UNCHANGED <<held, link>>

\* A readable stream that fetches the content at its first pull.
Waits(c) == Goes(c, "reading") /\ UNCHANGED <<held, link>>
Pulls(c) ==
    /\ at[c].pc = "reading"
    /\ IF at[c].signal THEN Quits(c, "aborted") ELSE Fetches(c)

\* The same, before it does something with the content.
FetchesAndGoes(c, label) ==
    /\ \/ held[Key(c)] = None /\ Ends(c, "notFound")
       \/ held[Key(c)] # None /\ at' = [at EXCEPT ![c].pc = label, ![c].hand = held[Key(c)]]
       \/ Ends(c, "failed")
    /\ UNCHANGED <<held, link>>

\* The call delivers what it has in hand.
Delivers(c) == Quits(c, "value") \/ Quits(c, "failed")

\* The call learns whether there is something under its key.
Looks(c, absent, present) ==
    \/ Quits(c, IF held[Key(c)] = None THEN absent ELSE present)
    \/ Quits(c, "failed")

\* The service carries a content over by itself.
Carries(c, new) ==
    \/ held[Key(c)] = None /\ Quits(c, "notFound")
    \/ held[Key(c)] # None /\ Sends(c, new)

ToItself(c) == Key(c) = Dest(c)

----------------------------------------------------------------------------
(* a clear *)

\* It goes through the names that there are when it begins.
Lists(c, names) ==
    /\ \/ at' = [at EXCEPT ![c].pc = "clearing", ![c].left = names]
       \/ Ends(c, "failed")
    /\ UNCHANGED <<held, link>>

\* It removes the next ones.
Removes(c, names) ==
    /\ \/ held' = Without(names)
          /\ at' = [at EXCEPT ![c].left = @ \ names, ![c].late = Late(c)]
       \/ held' \in {held, Without(names)} /\ Closes(c, "failed")
    /\ UNCHANGED link

Clearing(c) == at[c].pc = "clearing"
RemovesOne(c) == Clearing(c) /\ \E n \in at[c].left : Removes(c, {n})
HasRemovedAll(c) == Clearing(c) /\ at[c].left = {} /\ Quits(c, "ok")

\* Names are found by one command and removed by the next; each is looked for once.
FindsOne(c) ==
    /\ Clearing(c)
    /\ \E n \in at[c].left :
           LET found == IF held[n] = None THEN {} ELSE {n} IN
           at' = [at EXCEPT ![c].left = @ \ {n}, ![c].page = found,
                            ![c].pc = IF found = {} THEN "clearing" ELSE "found"]
    /\ UNCHANGED <<held, link>>
RemovesFound(c) ==
    LET new == Without(at[c].page) IN
    /\ at[c].pc = "found"
    /\ \/ held' = new
          /\ at' = [at EXCEPT ![c].pc = "clearing", ![c].page = {}, ![c].late = Late(c)]
       \/ held' \in {held, new} /\ Closes(c, "failed")
    /\ UNCHANGED link

----------------------------------------------------------------------------
(* a writable stream *)

Streaming(c) == at[c].pc = "stream" /\ ~at[c].finished
Received(c) == [by |-> c, parts |-> 1 .. at[c].count]
NextChunk(c) == at[c].count + 1
IsComplete(c) == at[c].count = Cardinality(Chunks)

\* A stream that is kept in memory: it opens, takes a chunk, and its content is written when
\* it is closed.
Opens(c) == Goes(c, "stream") /\ UNCHANGED <<held, link>>
Buffers(c) ==
    /\ Streaming(c) /\ ~IsComplete(c)
    /\ at' = [at EXCEPT ![c].count = NextChunk(c)]
    /\ UNCHANGED <<held, link>>
Stores(c) == Streaming(c) /\ IsComplete(c) /\ Sends(c, Put(Key(c), Received(c)))

\* A stream that does not listen to its signal throws at the next use.
Notices(c) == Streaming(c) /\ at[c].signal /\ Quits(c, "aborted")

\* The writer of a stream gives it up.
GivesUp(c) == Streaming(c) /\ Quits(c, "aborted")

\* Mutant: the temporary is left behind.
Finishes_Forgetful(c, label, what) ==
    at' = [at EXCEPT ![c].pc = label, ![c].answer = what, ![c].finished = TRUE]

\* The temporary of a stream is to be removed, once; the call ends or goes on.
Finishes(c, label, what) ==
    at' = [at EXCEPT ![c].pc = label, ![c].answer = what, ![c].finished = TRUE,
                     ![c].cleaning = @ \/ ~at[c].finished]

\* The stream writes its temporary.
StartsTemporary(c) ==
    /\ \/ held' = Put(c, Begun(c)) /\ Goes(c, "stream")
       \/ held' \in {held, Put(c, Begun(c))} /\ Finishes(c, "ended", "failed")
    /\ UNCHANGED link

\* Mutant: a chunk takes the place of those before it.
WithChunk_Replacing(c) == [by |-> c, parts |-> {NextChunk(c)}]

\* An append creates the temporary anew if it is gone.
WithChunk(c) ==
    [by |-> c, parts |-> (IF held[c] = None THEN {} ELSE held[c].parts) \cup {NextChunk(c)}]

Extends(c, new) ==
    /\ Streaming(c) /\ ~IsComplete(c) /\ ~at[c].signal
    /\ \/ held' = new /\ at' = [at EXCEPT ![c].count = NextChunk(c)]
       \/ held' \in {held, new} /\ Finishes(c, "ended", "failed")
    /\ UNCHANGED link

\* The temporary becomes the value of the key; without it there is nothing to rename.
IsPublished(c) ==
    /\ held[c] # None
    /\ held' = Rename(c, Key(c))
    /\ at' = [at EXCEPT ![c].pc = "ended", ![c].answer = "ok",
                        ![c].finished = TRUE, ![c].late = Late(c)]
Publishes(c) ==
    /\ \/ IsPublished(c)
       \/ held' \in {held} \cup (IF held[c] = None THEN {} ELSE {Rename(c, Key(c))})
          /\ Finishes(c, "ended", "failed")
    /\ UNCHANGED link

\* The listener for the signal, and the writer who gives up, have the temporary removed.
HearsSignal(c, labels) ==
    /\ at[c].pc \in labels /\ at[c].signal /\ ~at[c].finished
    /\ Finishes(c, at[c].pc, at[c].answer)
    /\ UNCHANGED <<held, link>>
Abandons(c) == Streaming(c) /\ Finishes(c, "ended", "aborted") /\ UNCHANGED <<held, link>>

\* The next use of a stream throws after its listener has run.
Throws(c) ==
    at[c].pc = "stream" /\ at[c].signal /\ at[c].finished /\ Quits(c, "aborted")

\* The temporary is removed; a failure to do so is ignored.
Discards(c) ==
    /\ at[c].cleaning
    /\ \/ held' = Put(c, None) /\ at' = [at EXCEPT ![c].cleaning = FALSE]
       \/ held' = held /\ at' = [at EXCEPT ![c].cleaning = FALSE, ![c].litter = TRUE]
    /\ UNCHANGED link

----------------------------------------------------------------------------
(* the storage's connection *)

Unlinked == [con |-> None,      \* the connection that the storage uses
             sockets |-> {},    \* the connections that are up, by the call that made them
             opening |-> None,  \* the call whose attempt to connect is under way
             outdated |-> {},   \* the calls whose attempt has been overtaken by a close
             root |-> TRUE,     \* the place that holds the names is there
             index |-> <<>>,    \* the keys it tracks, with their contents, oldest first
             expired |-> {}]    \* the contents whose time is over

\* A connection comes up, in a step of the service.
Connects(c) == link' = [link EXCEPT !.sockets = @ \cup {c}]

----------------------------------------------------------------------------
(* around the storage *)

Holds == {<<k, held[k]>> : k \in Keys}

InitCall(plans) ==
    /\ plan \in plans
    /\ held \in {[n \in Names |-> IF n \in K THEN Value(n) ELSE None] : K \in {plan.present}}
    /\ at = [c \in Calls |-> Idle]
    /\ link = [Unlinked EXCEPT !.con = IF plan.opened THEN Given ELSE None,
                                !.sockets = {Given}, !.index = plan.index]
    /\ seen = [c \in Calls |-> {}]

\* The signal of a call fires.
Fires(c) ==
    /\ c \in plan.aborts /\ ~Ended(c) /\ ~at[c].signal
    /\ at' = [at EXCEPT ![c].signal = TRUE]
    /\ UNCHANGED <<held, link>>

\* A call sees what the keys hold from its first step to its last.
Watches ==
    /\ seen' = [c \in Calls |-> IF Ended(c) \/ at'[c].pc = "idle" THEN seen[c]
                                ELSE seen[c] \cup Holds \cup Holds']
    /\ UNCHANGED plan

----------------------------------------------------------------------------
(* properties *)

TypeOK ==
    /\ held \in [Names -> Contents \cup {None}]
    /\ \A c \in Calls :
           /\ at[c].answer \in Answers
           /\ at[c].hand \in Contents \cup {None}
           /\ at[c].count \in 0 .. Cardinality(Chunks)
           /\ at[c].left \subseteq Names \cup {Given} /\ at[c].page \subseteq Names
           /\ at[c].late \in Nat
           /\ (at[c].answer = "none") = ~Ended(c)
    /\ link.sockets \subseteq Calls \cup {Given}
    /\ link.con \in Calls \cup {Given, None}

\* A temporary does not outlive its call, unless its removal failed.
NothingIsLeftBehind ==
    \A c \in Calls : held[c] # None => ~Ended(c) \/ at[c].cleaning \/ at[c].litter

\* What a call answers was true of its keys at some moment while it ran.
Was(c, k, content) == <<k, content>> \in seen[c]
HadSome(c, k) == \E x \in Contents : Was(c, k, x)

Truth(c) ==
    CASE at[c].answer = "value" -> Was(c, Key(c), at[c].hand)
      [] at[c].answer \in {"notFound", "no"} ->
             Was(c, Key(c), None) \/ \E x \in link.expired : Was(c, Key(c), x)
      [] at[c].answer = "yes" -> HadSome(c, Key(c))
      [] at[c].answer = "ok" /\ Op(c) \in {"write", "setStream"} -> Was(c, Key(c), Value(c))
      [] at[c].answer = "ok" /\ Op(c) = "delete" -> Was(c, Key(c), None)
      [] at[c].answer = "ok" /\ Op(c) = "clear" -> \A k \in Keys : Was(c, k, None)
      [] at[c].answer = "ok" /\ Op(c) \in {"copy", "move"} ->
             /\ \E x \in Contents : Was(c, Key(c), x) /\ Was(c, Dest(c), x)
             /\ Op(c) = "move" /\ ~ToItself(c) => Was(c, Key(c), None)
      [] OTHER -> TRUE

AnswersAreTrue == \A c \in Calls : Ended(c) => Truth(c)

\* When no open and no close is under way, no connection that the storage has made is up but
\* the one in use.
NoConnectionLeaks ==
    (\A c \in Calls : UnderWay(c) => Op(c) \notin {"open", "close"}) =>
        link.sockets \ {Given} = {link.con} \ {Given, None}
=============================================================================
