---------------------------- MODULE ServiceContainer ----------------------------
(***************************************************************************)
(* The dependency injection container of @blendsdk/webafx                  *)
(* (service-container.ts): containers of one application that share a      *)
(* registry, and any number of get() calls in flight.                      *)
(*                                                                         *)
(* JavaScript runs to the next await without interruption: `thread` is the *)
(* call that is running, and while it is Nobody any call may go on.  The   *)
(* recursion of get() is a stack of frames.                                *)
(*                                                                         *)
(* Data: an instance is the number of the factory result it was.           *)
(***************************************************************************)
EXTENDS Integers, Sequences, SequencesExt

CONSTANTS
    Services,     \* names of the registered services
    Singletons,   \* those of type 'singleton'; the others are per-request
    Deps,         \* [Services -> Seq(Services)], ServiceDefinition.dependencies
    Application,  \* the application's own container, which has no request
    Requests,     \* the requests, each with a container of its own
    Wanted,       \* [Containers -> the services its code calls get() for]
    Nobody        \* no call is running

Containers == Requests \cup {Application}

\* a call is named by the container and the service it was made for
Calls == UNION {{c} \X Wanted[c] : c \in Containers}
Home(t) == t[1]
Asked(t) == t[2]

ASSUME ServicesAssumption ==
    /\ Singletons \subseteq Services
    /\ Deps \in [Services -> Seq(Services)]
    /\ Application \notin Requests
    /\ Wanted \in [Containers -> SUBSET Services]
    /\ Nobody \notin Calls

VARIABLES
    registry,   \* cached singletons, 0 for none
    services,   \* instances each container holds, 0 for none
    resolving,  \* resolvingServices of each container
    stack,      \* frames of each call: the service, and the dependency it awaits
    ret,        \* what the innermost get() has returned to the frame that awaits it
    made,       \* how many instances each factory has returned
    thread

container == <<registry, services, resolving, stack, ret, made, thread>>

Frame(n, at) == [name |-> n, at |-> at]
Top(t) == Last(stack[t])
Busy(t) == stack[t] # <<>>
InFactory(t) == Busy(t) /\ ret[t] = "none" /\ Top(t).at > Len(Deps[Top(t).name])

InitContainer ==
    /\ registry = [n \in Singletons |-> 0]
    /\ services = [c \in Containers |-> [n \in Services |-> 0]]
    /\ resolving = [c \in Containers |-> {}]
    /\ stack = [t \in Calls |-> <<>>]
    /\ ret = [t \in Calls |-> "none"]
    /\ made = [n \in Services |-> 0]
    /\ thread = Nobody

\* A request's container starts with the singletons there are.
NewContainer(c) ==
    /\ services' = [services EXCEPT ![c] =
                        [n \in Services |-> IF n \in Singletons THEN registry[n] ELSE 0]]
    /\ UNCHANGED <<registry, resolving, stack, ret, made, thread>>

\* mutant: a name that is being resolved is resolved again
EnterUnguarded(t, n) ==
    IF services[Home(t)][n] # 0
    THEN /\ ret' = [ret EXCEPT ![t] = "value"]
         /\ thread' = Nobody
         /\ UNCHANGED <<resolving, stack>>
    ELSE /\ resolving' = [resolving EXCEPT ![Home(t)] = @ \cup {n}]
         /\ stack' = [stack EXCEPT ![t] = Append(@, Frame(n, 1))]
         /\ thread' = t
         /\ ret' = [ret EXCEPT ![t] = "none"]

\* mutant: a get() of a name in progress waits for it
EnterWaits(t, n) ==
    IF services[Home(t)][n] # 0
    THEN /\ ret' = [ret EXCEPT ![t] = "value"]
         /\ thread' = Nobody
         /\ UNCHANGED <<resolving, stack>>
    ELSE IF n \in resolving[Home(t)]
    THEN /\ thread' = Nobody
         /\ UNCHANGED <<ret, resolving, stack>>
    ELSE /\ resolving' = [resolving EXCEPT ![Home(t)] = @ \cup {n}]
         /\ stack' = [stack EXCEPT ![t] = Append(@, Frame(n, 1))]
         /\ thread' = t
         /\ ret' = [ret EXCEPT ![t] = "none"]

\* get(n), up to where it awaits a dependency or a factory.
Enter(t, n) ==
    IF services[Home(t)][n] # 0
    THEN /\ ret' = [ret EXCEPT ![t] = "value"]
         /\ thread' = Nobody
         /\ UNCHANGED <<resolving, stack>>
    ELSE IF n \in resolving[Home(t)]
    THEN /\ ret' = [ret EXCEPT ![t] = "circular"]
         /\ thread' = Nobody
         /\ UNCHANGED <<resolving, stack>>
    ELSE /\ resolving' = [resolving EXCEPT ![Home(t)] = @ \cup {n}]
         /\ stack' = [stack EXCEPT ![t] = Append(@, Frame(n, 1))]
         /\ thread' = t
         /\ ret' = [ret EXCEPT ![t] = "none"]

\* mutant: only a get() that succeeds takes its name off the list
LeaveOnSuccess(t, result) ==
    /\ resolving' = IF result # "value" THEN resolving
                    ELSE [resolving EXCEPT ![Home(t)] = @ \ {Top(t).name}]
    /\ stack' = [stack EXCEPT ![t] = Front(@)]
    /\ ret' = [ret EXCEPT ![t] = result]
    /\ thread' = Nobody

\* `return` or a throw, and `finally`.
Leave(t, result) ==
    /\ resolving' = [resolving EXCEPT ![Home(t)] = @ \ {Top(t).name}]
    /\ stack' = [stack EXCEPT ![t] = Front(@)]
    /\ ret' = [ret EXCEPT ![t] = result]
    /\ thread' = Nobody

\* A caller calls get().
Get(t) ==
    /\ thread = Nobody /\ ~Busy(t) /\ ret[t] = "none"
    /\ Enter(t, Asked(t))
    /\ UNCHANGED <<registry, services, made>>

\* The running call gets its next dependency.
Descend(t) ==
    /\ thread = t /\ Top(t).at <= Len(Deps[Top(t).name])
    /\ Enter(t, Deps[Top(t).name][Top(t).at])
    /\ UNCHANGED <<registry, services, made>>

\* mutant: a frame goes on with the next dependency after an error
ResumeAfterError(t) ==
    /\ thread = Nobody /\ Busy(t) /\ ret[t] # "none"
    /\ stack' = [stack EXCEPT ![t][Len(stack[t])].at = @ + 1]
    /\ ret' = [ret EXCEPT ![t] = "none"]
    /\ thread' = t
    /\ UNCHANGED <<registry, services, resolving, made>>

\* `await this.get(depName)` resumes.
Resume(t) ==
    /\ thread = Nobody /\ Busy(t) /\ ret[t] # "none"
    /\ IF ret[t] = "value"
       THEN /\ stack' = [stack EXCEPT ![t][Len(stack[t])].at = @ + 1]
            /\ ret' = [ret EXCEPT ![t] = "none"]
            /\ thread' = t
            /\ UNCHANGED resolving
       ELSE Leave(t, ret[t])
    /\ UNCHANGED <<registry, services, made>>

\* All dependencies are there: take the cached singleton, refuse a per-request service
\* outside a request, or call the factory and await it.
Create(t) ==
    LET n == Top(t).name IN
    /\ thread = t /\ Top(t).at > Len(Deps[n])
    /\ \/ /\ n \in Singletons /\ registry[n] # 0
          /\ services' = [services EXCEPT ![Home(t)][n] = registry[n]]
          /\ Leave(t, "value")
       \/ /\ n \notin Singletons /\ Home(t) = Application
          /\ Leave(t, "failed")
          /\ UNCHANGED services
       \/ /\ IF n \in Singletons THEN registry[n] = 0 ELSE Home(t) # Application
          /\ thread' = Nobody
          /\ UNCHANGED <<services, resolving, stack, ret>>
    /\ UNCHANGED <<registry, made>>

FactoryReturns(t) ==
    LET n == Top(t).name IN
    /\ thread = Nobody /\ InFactory(t)
    /\ made' = [made EXCEPT ![n] = @ + 1]
    /\ registry' = IF n \in Singletons THEN [registry EXCEPT ![n] = made'[n]] ELSE registry
    /\ services' = [services EXCEPT ![Home(t)][n] = made'[n]]
    /\ Leave(t, "value")

FactoryThrows(t) ==
    /\ thread = Nobody /\ InFactory(t)
    /\ Leave(t, "failed")
    /\ UNCHANGED <<registry, services, made>>

\* The caller's own `await` resumes.
Answered(t) ==
    /\ thread = Nobody /\ ~Busy(t) /\ ret[t] # "none"
    /\ ret' = [ret EXCEPT ![t] = "none"]
    /\ UNCHANGED <<registry, services, resolving, stack, made, thread>>

GoOn(t) == Descend(t) \/ Resume(t) \/ Create(t) \/ FactoryReturns(t) \/ FactoryThrows(t)
----------------------------------------------------------------------------
(* Properties *)

ContainerTypeOK ==
    /\ registry \in [Singletons -> Nat]
    /\ services \in [Containers -> [Services -> Nat]]
    /\ resolving \in [Containers -> SUBSET Services]
    /\ \A t \in Calls : \A k \in DOMAIN stack[t] :
        stack[t][k] \in [name : Services, at : 1..(Len(Deps[stack[t][k].name]) + 1)]
    /\ ret \in [Calls -> {"none", "value", "circular", "failed"}]
    /\ made \in [Services -> Nat]
    /\ thread \in Calls \cup {Nobody}

\* resolvingServices holds exactly the names some get() of the container is working on,
\* each once: a name left behind would make every later get() of it a circular dependency.
Working(c) == {t \in Calls : Home(t) = c /\ Busy(t)}
ResolvingIsExact ==
    \A c \in Containers :
        /\ resolving[c] = UNION {{f.name : f \in ToSet(stack[t])} : t \in Working(c)}
        /\ \A t, u \in Working(c) : \A j \in DOMAIN stack[t], k \in DOMAIN stack[u] :
            stack[t][j].name = stack[u][k].name => <<t, j>> = <<u, k>>

\* No factory runs before every dependency its definition names is in the container.
DependenciesFirst ==
    \A t \in Calls : InFactory(t) =>
        \A d \in ToSet(Deps[Top(t).name]) : services[Home(t)][d] # 0

\* The names a container has under way follow its calls exactly, whatever fails below them, and
\* each is resolved after those it depends on.
ResolvingFollowsCalls == ResolvingIsExact /\ DependenciesFirst

\* Whoever got an instance from a container gets the same one from it again, whatever
\* other calls were in flight.
InstancesAreStable ==
    [][\A c \in Containers, n \in Services :
        services[c][n] # 0 => services'[c][n] = services[c][n]]_services

\* Every get() settles, also one of a service whose dependencies form a cycle.
EveryGetSettles == \A t \in Calls : Busy(t) ~> ~Busy(t)

\* "Called once [...] and the result is cached" (SingletonFactory, service-container.ts).
SingletonOnce == \A n \in Singletons : made[n] <= 1

\* A set of services each of which depends on one of them is a cycle.
Cyclic == \E S \in SUBSET Services \ {{}} :
            \A n \in S : \E d \in ToSet(Deps[n]) : d \in S

\* Only `dependencies` that form a cycle make a get() fail as circular (pitfalls.md).
CircularMeansCycle == (\E t \in Calls : ret[t] = "circular") => Cyclic
=============================================================================
