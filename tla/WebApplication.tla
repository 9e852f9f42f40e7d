----------------------------- MODULE WebApplication -----------------------------
(***************************************************************************)
(* The life of a @blendsdk/webafx application (web-application.ts): start, *)
(* requests that resolve services while they run, and a shutdown that      *)
(* closes the server, disposes the singletons and shuts the plugins down   *)
(* (plugin.ts, service-container.ts).                                      *)
(***************************************************************************)
EXTENDS ServiceContainer

CONSTANTS
    Principal,   \* the service the guard of a secure route resolves
    Disposable,  \* singletons with a dispose function
    NPlugins,    \* plugins registered with use()
    MayFail,     \* steps that may fail: user code that throws, a port that is taken
    Stoppers     \* who calls the shutdown function: signals, the program

ASSUME ApplicationAssumption ==
    /\ \A r \in Requests : Principal \in Wanted[r]
    /\ Disposable \subseteq Singletons
    /\ NPlugins \in Nat

VARIABLES
    start,      \* where start() is
    started,
    listening,  \* the HTTP server accepts connections
    installed,  \* plugins installed so far
    req,        \* where each request's handler is
    conn,       \* its connection
    stopper,    \* the calls of the shutdown function
    shut,       \* where the one that runs it is
    disposing, disposed,  \* instances whose dispose was called, and has settled
    down        \* plugins whose shutdown was called

lifecycle == <<start, started, listening, installed>>
traffic   == <<req, conn>>
teardown  == <<stopper, shut, disposing, disposed, down>>
vars == <<container, lifecycle, traffic, teardown>>

Fails(step) == step \in MayFail

Init ==
    /\ InitContainer
    /\ start = "new" /\ started = FALSE /\ listening = FALSE /\ installed = 0
    /\ req = [r \in Requests |-> "none"]
    /\ conn = [r \in Requests |-> "none"]
    /\ stopper = [k \in Stoppers |-> "idle"]
    /\ shut = "no" /\ disposing = {} /\ disposed = {} /\ down = 0
----------------------------------------------------------------------------
(* start() *)

\* initialize(): configuration, beforeStart hooks and middleware; then the plugins, in
\* the order of their priority.
Initialize ==
    /\ thread = Nobody /\ start = "new"
    /\ \/ start' = "installing"
       \/ Fails("beforeStart") /\ start' = "rejected"
    /\ UNCHANGED <<container, started, listening, installed, traffic, teardown>>

InstallPlugin ==
    /\ thread = Nobody /\ start = "installing" /\ installed < NPlugins
    /\ \/ installed' = installed + 1 /\ UNCHANGED start
       \/ Fails("install") /\ start' = "rejected" /\ UNCHANGED installed
    /\ UNCHANGED <<container, started, listening, traffic, teardown>>

\* The port is bound, or it is not and the callback of listen() rejects start().
Listen ==
    /\ thread = Nobody /\ start = "installing" /\ installed = NPlugins
    /\ \/ start' = "afterStart" /\ started' = TRUE /\ listening' = TRUE
       \/ Fails("listen") /\ start' = "rejected" /\ UNCHANGED <<started, listening>>
    /\ UNCHANGED <<container, installed, traffic, teardown>>

\* The afterStart hooks run in the listen callback: if one throws, nothing settles the
\* promise of start(), and no shutdown function is made.
AfterStart ==
    /\ thread = Nobody /\ start = "afterStart"
    /\ \/ start' = "running"
       \/ Fails("afterStart") /\ start' = "pending"
    /\ UNCHANGED <<container, started, listening, installed, traffic, teardown>>
----------------------------------------------------------------------------
(* Requests *)

Accept(r) ==
    /\ thread = Nobody /\ listening /\ req[r] = "none"
    /\ NewContainer(r)
    /\ req' = [req EXCEPT ![r] = "guard"]
    /\ conn' = [conn EXCEPT ![r] = "open"]
    /\ UNCHANGED <<lifecycle, teardown>>

\* requests whose principal is being resolved
Guarded == {r \in Requests : req[r] = "guard"}

\* who may call get() now: the guard asks for the principal, a handler for anything,
\* and so do plugins and hooks through the application's own container
MayGet(t) ==
    IF Home(t) = Application THEN start \in {"installing", "afterStart", "running"}
    ELSE \/ req[Home(t)] = "guard" /\ Asked(t) = Principal
         \/ req[Home(t)] = "handler"

CallGet(t) ==
    /\ MayGet(t) /\ Get(t)
    /\ UNCHANGED <<lifecycle, traffic, teardown>>

Work(t) ==
    /\ GoOn(t)
    /\ UNCHANGED <<lifecycle, traffic, teardown>>

Respond(r) ==
    /\ req' = [req EXCEPT ![r] = "done"]
    /\ conn' = [conn EXCEPT ![r] = "closed"]

\* mutant: an error while the principal is resolved counts as no guard at all
GuardFailsOpen(r) ==
    /\ Answered(<<r, Principal>>) /\ r \in Guarded
    /\ req' = [req EXCEPT ![r] = "handler"]
    /\ UNCHANGED <<conn, lifecycle, teardown>>

\* wrapRouteHandler: the handler runs if there is a principal, next(error) answers if not.
Guard(r) ==
    /\ Answered(<<r, Principal>>) /\ r \in Guarded
    /\ IF ret[<<r, Principal>>] = "value"
       THEN req' = [req EXCEPT ![r] = "handler"] /\ UNCHANGED conn
       ELSE Respond(r)
    /\ UNCHANGED <<lifecycle, teardown>>

GotService(t) ==
    /\ Answered(t)
    /\ Home(t) \notin Guarded
    /\ UNCHANGED <<lifecycle, traffic, teardown>>

\* The handler, or the error handler, answers when nothing it awaits is in flight.
Finish(r) ==
    /\ thread = Nobody /\ req[r] = "handler"
    /\ \A n \in Wanted[r] : ~Busy(<<r, n>>) /\ ret[<<r, n>>] = "none"
    /\ Respond(r)
    /\ UNCHANGED <<container, lifecycle, teardown>>

ClientGone(r) ==
    /\ conn[r] = "open" /\ thread = Nobody
    /\ conn' = [conn EXCEPT ![r] = "closed"]
    /\ UNCHANGED <<container, lifecycle, req, teardown>>
----------------------------------------------------------------------------
(* The shutdown function that start() returned *)

\* A second call returns at once, whatever the first has got to.
CallShutdown(k) ==
    /\ thread = Nobody /\ start = "running" /\ stopper[k] = "idle"
    /\ IF shut = "no"
       THEN stopper' = [stopper EXCEPT ![k] = "waiting"] /\ shut' = "stopping"
       ELSE stopper' = [stopper EXCEPT ![k] = "returned"] /\ UNCHANGED shut
    /\ UNCHANGED <<container, lifecycle, traffic, disposing, disposed, down>>

\* server.close() and the timer, after the message is logged.
StopListening ==
    /\ thread = Nobody /\ shut = "stopping"
    /\ listening' = FALSE
    /\ shut' = "closing"
    /\ UNCHANGED <<container, start, started, installed, traffic, stopper, disposing, disposed, down>>

\* mutant: the timer closes idle connections only
ForceCloseIdle == shut = "closing" /\ thread = Nobody /\ UNCHANGED vars

ForceClose ==
    /\ thread = Nobody /\ shut = "closing"
    /\ conn' = [r \in Requests |-> IF conn[r] = "open" THEN "closed" ELSE conn[r]]
    /\ UNCHANGED <<container, lifecycle, req, teardown>>

\* mutant: the services go down while connections drain
ClosedEarly ==
    /\ thread = Nobody /\ shut = "closing"
    /\ started /\ started' = FALSE /\ shut' = "hooks"
    /\ UNCHANGED <<container, start, listening, installed, traffic, stopper, disposing, disposed, down>>

\* The server's close callback, when the last connection is gone: this.shutdown().
Closed ==
    /\ thread = Nobody /\ shut = "closing" /\ \A r \in Requests : conn[r] # "open"
    /\ started /\ started' = FALSE /\ shut' = "hooks"
    /\ UNCHANGED <<container, start, listening, installed, traffic, stopper, disposing, disposed, down>>

\* An error in the callback is nobody's to catch: resolve() is never called.
Rejected(step) ==
    /\ Fails(step)
    /\ shut' = "rejected"

BeforeShutdown ==
    /\ thread = Nobody /\ shut = "hooks"
    /\ shut' = "dispose" \/ Rejected("beforeShutdown")
    /\ UNCHANGED <<container, lifecycle, traffic, stopper, disposing, disposed, down>>

Cached == {<<n, registry[n]>> : n \in {m \in Disposable : registry[m] # 0}}

\* disposeAll: dispose is called for each cached singleton, and may throw right away.
DisposeAll ==
    /\ thread = Nobody /\ shut = "dispose"
    /\ \/ disposing' = Cached /\ shut' = "disposing"
       \/ \E some \in SUBSET Cached : disposing' = some /\ Rejected("dispose")
    /\ UNCHANGED <<container, lifecycle, traffic, stopper, disposed, down>>

\* mutant: the cache is emptied while the disposals are still under way
DisposedAtOnce ==
    /\ thread = Nobody /\ shut = "disposing"
    /\ shut' = "plugins"
    /\ UNCHANGED <<container, lifecycle, traffic, stopper, disposing, disposed, down>>

\* Promise.all settles: the whole cache is emptied, or nothing of it.
Disposed ==
    /\ thread = Nobody /\ shut = "disposing"
    /\ \/ /\ registry' = [n \in Singletons |-> 0]
          /\ disposed' = disposed \cup disposing /\ disposing' = {}
          /\ shut' = "plugins"
       \/ /\ Rejected("dispose")
          /\ UNCHANGED <<registry, disposing, disposed>>
    /\ UNCHANGED <<services, resolving, stack, ret, made, thread, lifecycle, traffic, stopper, down>>

\* mutant: one step past the last plugin
ShutPluginPastLast ==
    /\ thread = Nobody /\ shut = "plugins" /\ down <= installed
    /\ down' = down + 1
    /\ UNCHANGED shut \/ Rejected("plugin")
    /\ UNCHANGED <<container, lifecycle, traffic, stopper, disposing, disposed>>

ShutPlugin ==
    /\ thread = Nobody /\ shut = "plugins" /\ down < installed
    /\ down' = down + 1
    /\ UNCHANGED shut \/ Rejected("plugin")
    /\ UNCHANGED <<container, lifecycle, traffic, stopper, disposing, disposed>>

\* The afterShutdown hooks; the promise resolves, the signal handlers are removed.
AfterShutdown ==
    /\ thread = Nobody /\ shut = "plugins" /\ down = installed
    /\ \/ /\ shut' = "done"
          /\ stopper' = [k \in Stoppers |->
                            IF stopper[k] = "waiting" THEN "returned" ELSE stopper[k]]
       \/ Rejected("afterShutdown") /\ UNCHANGED stopper
    /\ UNCHANGED <<container, lifecycle, traffic, disposing, disposed, down>>
----------------------------------------------------------------------------
Shutdown ==
    \/ StopListening \/ ForceClose \/ Closed \/ BeforeShutdown
    \/ DisposeAll \/ Disposed \/ ShutPlugin \/ AfterShutdown

Next ==
    \/ Initialize \/ InstallPlugin \/ Listen \/ AfterStart
    \/ \E r \in Requests : Accept(r) \/ Guard(r) \/ Finish(r) \/ ClientGone(r)
    \/ \E t \in Calls : CallGet(t) \/ Work(t) \/ GotService(t)
    \/ \E k \in Stoppers : CallShutdown(k)
    \/ Shutdown

Spec == Init /\ [][Next]_vars

\* Promises of user code settle and timers fire; a handler may take for ever, as may a
\* client.  The event loop is fair to every job that is ready whenever no other runs.
FairSpec ==
    /\ Spec
    /\ \A t \in Calls : SF_vars(Work(t))
    /\ SF_vars(Shutdown)
----------------------------------------------------------------------------
(* Properties *)

TypeOK ==
    /\ ContainerTypeOK
    /\ start \in {"new", "installing", "afterStart", "running", "rejected", "pending"}
    /\ started \in BOOLEAN /\ listening \in BOOLEAN
    /\ installed \in 0..NPlugins /\ down \in 0..NPlugins
    /\ req \in [Requests -> {"none", "guard", "handler", "done"}]
    /\ conn \in [Requests -> {"none", "open", "closed"}]
    /\ stopper \in [Stoppers -> {"idle", "waiting", "returned"}]
    /\ shut \in {"no", "stopping", "closing", "hooks", "dispose", "disposing", "plugins",
                 "done", "rejected"}
    /\ disposing \subseteq Disposable \X Nat /\ disposed \subseteq Disposable \X Nat

\* A request has its services while it runs: one whose client is still connected never
\* holds a singleton whose dispose has been called (the server drains, or cuts
\* connections off, before disposeAll), and a handler runs only on behalf of a principal
\* that its container holds.
RequestHasItsServices ==
    /\ \A r \in Requests : conn[r] = "open" =>
        \A n \in Disposable : <<n, services[r][n]>> \notin disposing \cup disposed
    /\ \A r \in Requests : req[r] = "handler" => services[r][Principal] # 0

\* No instance is disposed twice, and no plugin is shut down while a disposal is under
\* way, however many signals arrive.
TeardownInOrder ==
    /\ down > 0 => disposing = {}
    /\ disposing \cap disposed = {}

\* The first caller of shutdown() gets an answer, whatever handlers and clients do.
ShutdownSettles == \A k \in Stoppers : stopper[k] = "waiting" ~> stopper[k] = "returned"

\* The same when dispose may throw: "A throwing `dispose()` rejects `shutdown()`"
\* (pitfalls.md), so its caller must see the rejection.
DisposeErrorReachesCaller ==
    \A k \in Stoppers : stopper[k] = "waiting" ~> stopper[k] # "waiting"
=============================================================================
