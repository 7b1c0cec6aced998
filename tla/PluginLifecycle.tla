-------------------------- MODULE PluginLifecycle --------------------------
(***************************************************************************)
(* The reference count of one storage or middleware that several clients   *)
(* share (class PluginLifecycle), behind the mutex that the wrappers       *)
(* UniKvsStorage and UniKvsMiddleware take around open, close and          *)
(* retryClose.                                                             *)
(*                                                                         *)
(* A call into the wrapper is a task.  A task that does not have to call   *)
(* the plugin runs in one step, because nothing is awaited between taking  *)
(* the mutex and releasing it.  A task that calls the plugin's own open or *)
(* close keeps the mutex (holder) until that call settles.                 *)
(*                                                                         *)
(* owners is a history variable: the tokens whose open was counted and     *)
(* whose close has not been counted yet.  The code only keeps the number.  *)
(***************************************************************************)
EXTENDS Naturals, FiniteSets

CONSTANTS
    Plugins,      \* the storages and middleware, by identity
    HasOpen,      \* the plugins that define open
    HasClose,     \* the plugins that define close
    Unmanaged,    \* the plugins the application opened before any client did
    None          \* null

ASSUME PluginAssumption ==
    /\ HasOpen \subseteq Plugins
    /\ HasClose \subseteq Plugins
    /\ Unmanaged \subseteq Plugins

VARIABLES
    isOpen,       \* isOpen[p]: what the plugin itself reports
    references,   \* references[p]: #references
    closeFailed,  \* closeFailed[p]: #closeFailed
    holder,       \* holder[p]: the task inside the plugin's own open or close
    owners        \* owners[p]: the tokens counted by references[p]

lifecycleVars == <<isOpen, references, closeFailed, holder, owners>>

\* The plugins whose uses are counted: open and close are both defined, and
\* the plugin was not already open when the first client met it.
Managed == (HasOpen \cap HasClose) \ Unmanaged

\* A plugin without open is ready from its construction.
LifecycleInit ==
    /\ isOpen = [p \in Plugins |-> p \notin HasOpen \/ p \in Unmanaged]
    /\ references = [p \in Plugins |-> 0]
    /\ closeFailed = [p \in Plugins |-> FALSE]
    /\ holder = [p \in Plugins |-> None]
    /\ owners = [p \in Plugins |-> {}]

----------------------------------------------------------------------------
(* open *)

\* references += 1; closeFailed = false
Count(p, token) ==
    /\ references' = [references EXCEPT ![p] = @ + 1]
    /\ closeFailed' = [closeFailed EXCEPT ![p] = FALSE]
    /\ owners' = [owners EXCEPT ![p] = @ \cup {token}]

\* Mutant: a plugin that somebody else opened is counted as well.
OpenAtOnce_CountsForeign(p, token) ==
    /\ holder[p] = None
    /\ p \in HasOpen => isOpen[p]
    /\ \/ p \in HasOpen \cap HasClose /\ Count(p, token)
       \/ p \notin HasOpen \cap HasClose /\ UNCHANGED <<references, closeFailed, owners>>
    /\ UNCHANGED <<isOpen, holder>>

\* The plugin is open, or has nothing to open.  A use is counted unless the
\* plugin cannot be closed or was opened by somebody else.
OpenAtOnce(p, token) ==
    /\ holder[p] = None
    /\ p \in HasOpen => isOpen[p]
    /\ \/ /\ p \in HasOpen \cap HasClose
          /\ references[p] > 0 \/ closeFailed[p]
          /\ Count(p, token)
       \/ /\ p \notin HasOpen \cap HasClose \/ (references[p] = 0 /\ ~closeFailed[p])
          /\ UNCHANGED <<references, closeFailed, owners>>
    /\ UNCHANGED <<isOpen, holder>>

\* The plugin's own open is called and awaited.
RealOpenStarts(p, task) ==
    /\ holder[p] = None
    /\ p \in HasOpen
    /\ ~isOpen[p]
    /\ holder' = [holder EXCEPT ![p] = task]
    /\ UNCHANGED <<isOpen, references, closeFailed, owners>>

RealOpenSucceeds(p, task, token) ==
    /\ holder[p] = task
    /\ holder' = [holder EXCEPT ![p] = None]
    /\ isOpen' = [isOpen EXCEPT ![p] = TRUE]
    /\ \/ p \in HasClose /\ Count(p, token)
       \/ p \notin HasClose /\ UNCHANGED <<references, closeFailed, owners>>

\* Mutant: the mutex is released only after an open that succeeds.
RealOpenFails_KeepsMutex(p, task) ==
    /\ holder[p] = task
    /\ UNCHANGED lifecycleVars

\* An open that throws counts nothing; the plugin stays closed.
RealOpenFails(p, task) ==
    /\ holder[p] = task
    /\ holder' = [holder EXCEPT ![p] = None]
    /\ UNCHANGED <<isOpen, references, closeFailed, owners>>

----------------------------------------------------------------------------
(* close *)

\* One use is released and others remain, or nothing was counted, or the
\* plugin is found closed: its own close is not called.
CloseAtOnce(p, token) ==
    /\ holder[p] = None
    /\ \/ /\ p \notin HasClose \/ (references[p] = 0 /\ ~closeFailed[p])
          /\ UNCHANGED <<references, closeFailed>>
       \/ /\ p \in HasClose
          /\ references[p] > 1
          /\ references' = [references EXCEPT ![p] = @ - 1]
          /\ UNCHANGED closeFailed
       \/ /\ p \in HasClose
          /\ references[p] = 1 \/ (references[p] = 0 /\ closeFailed[p])
          /\ ~isOpen[p]
          /\ references' = [references EXCEPT ![p] = 0]
          /\ closeFailed' = [closeFailed EXCEPT ![p] = FALSE]
    /\ owners' = [owners EXCEPT ![p] = @ \ {token}]
    /\ UNCHANGED <<isOpen, holder>>

\* The last use is released: the plugin's own close is called and awaited.
RealCloseStarts(p, task, token) ==
    /\ holder[p] = None
    /\ p \in HasClose
    /\ references[p] = 1 \/ (references[p] = 0 /\ closeFailed[p])
    /\ isOpen[p]
    /\ references' = [references EXCEPT ![p] = 0]
    /\ owners' = [owners EXCEPT ![p] = @ \ {token}]
    /\ holder' = [holder EXCEPT ![p] = task]
    /\ UNCHANGED <<isOpen, closeFailed>>

RealCloseSucceeds(p, task) ==
    /\ holder[p] = task
    /\ holder' = [holder EXCEPT ![p] = None]
    /\ isOpen' = [isOpen EXCEPT ![p] = FALSE]
    /\ closeFailed' = [closeFailed EXCEPT ![p] = FALSE]
    /\ UNCHANGED <<references, owners>>

\* Mutant: the failure is not remembered.
RealCloseFails_Unremembered(p, task) ==
    /\ holder[p] = task
    /\ holder' = [holder EXCEPT ![p] = None]
    /\ \E stillOpen \in BOOLEAN : isOpen' = [isOpen EXCEPT ![p] = stillOpen]
    /\ UNCHANGED <<references, closeFailed, owners>>

\* A close that throws may have closed the plugin or not.
RealCloseFails(p, task) ==
    /\ holder[p] = task
    /\ holder' = [holder EXCEPT ![p] = None]
    /\ \E stillOpen \in BOOLEAN : isOpen' = [isOpen EXCEPT ![p] = stillOpen]
    /\ closeFailed' = [closeFailed EXCEPT ![p] = TRUE]
    /\ UNCHANGED <<references, owners>>

----------------------------------------------------------------------------
(* retryClose: only a close that failed and that nobody took over *)

MustRetry(p) == p \in HasClose /\ closeFailed[p] /\ references[p] = 0

RetryAtOnce(p) ==
    /\ holder[p] = None
    /\ MustRetry(p) => ~isOpen[p]
    /\ closeFailed' = [closeFailed EXCEPT ![p] = @ /\ ~MustRetry(p)]
    /\ UNCHANGED <<isOpen, references, holder, owners>>

RetryStarts(p, task) ==
    /\ holder[p] = None
    /\ MustRetry(p)
    /\ isOpen[p]
    /\ holder' = [holder EXCEPT ![p] = task]
    /\ UNCHANGED <<isOpen, references, closeFailed, owners>>

\* The application closes a plugin behind the back of its clients.
ClosedFromOutside(p) ==
    /\ isOpen[p]
    /\ isOpen' = [isOpen EXCEPT ![p] = FALSE]
    /\ UNCHANGED <<references, closeFailed, holder, owners>>

=============================================================================
