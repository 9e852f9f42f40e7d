----------------------------- MODULE ReactClient -----------------------------
(***************************************************************************)
(* packages/react: AuthProvider (session check, refresh timer, logout),    *)
(* I18nProvider (loading of translations) and the GlobalLoader both show.  *)
(* A step is the code between two awaits, a timer, or a React effect,      *)
(* which runs after the state it depends on has changed.  The server and   *)
(* the translation loader are external.  Time is left out: a timer may     *)
(* fire whenever it is set.                                                *)
(***************************************************************************)
EXTENDS Naturals, FiniteSets, Sequences, SequencesExt

CONSTANTS Locale,       \* locales the application switches between
          Default,      \* defaultLocale
          MaxRefresh,   \* bound on the refreshes
          MaxLogouts,   \* bound on the calls of logout()
          MaxLoads      \* bound on the loads of translations

\* Refreshes are numbered, and their number names their retry timer.
ASSUME ReactAssumption == MaxRefresh \in Nat

VARIABLES signedIn,     \* what setUser was last called with is not null
          deadline,     \* what setExpiresAt was last called with is not null
          sessionCheck, \* "fetch", "json" or "done"
          isLoading,
          timerRef,     \* the timer that timerRef.current names
          orphans,      \* the timers that are set and that timerRef no longer names
          effectDue,    \* the effect over [expiresAt, user] has yet to run
          refreshes,    \* calls of performRefresh: step, requests sent, and who called
          logouts,      \* how often logout() was called, and how many of the calls still wait
          loggedOut,    \* logout has completed since the session check brought a user
          mounted,      \* mountedRef
          count,        \* GlobalLoader: how many showed it and did not hide it
          latest,       \* latestLocaleRef
          loads,        \* loads of translations, in the order they began
          shown,        \* the locale whose catalog the translator has
          ready

authVars == <<signedIn, deadline, sessionCheck, isLoading, timerRef, orphans, effectDue,
              refreshes, logouts, loggedOut, mounted>>
i18nVars == <<latest, loads, shown, ready>>
reactVars == <<authVars, count, i18nVars>>

ShowLoader == count' = count + 1
HideLoader == count' = IF count = 0 THEN 0 ELSE count - 1

\* A timer is the retry of a refresh, by its number, or the one that scheduleRefresh set.
NoTimer == 0
Scheduled == MaxRefresh + 1

\* Both providers start their request when they mount, and show the loader.
ReactInit ==
    /\ signedIn = FALSE /\ deadline = FALSE /\ sessionCheck = "fetch" /\ isLoading = TRUE
    /\ timerRef = NoTimer /\ orphans = <<>> /\ effectDue = FALSE
    /\ refreshes = <<>> /\ logouts = [called |-> 0, waiting |-> 0] /\ loggedOut = FALSE /\ mounted = TRUE
    /\ latest = Default
    /\ loads = <<[locale |-> Default, open |-> TRUE]>>
    /\ shown = "none" /\ ready = FALSE
    /\ count = 2

Timers == ({timerRef} \cup Range(orphans)) \ {NoTimer}

\* setTimeout into timerRef: the timer it named is not cleared by that.
SetTimer(k) ==
    /\ timerRef' = k
    /\ orphans' = IF timerRef = NoTimer THEN orphans ELSE Append(orphans, timerRef)

\* A timer fires, the one timerRef names or an orphan.  One that has fired is named no more: to
\* clear it would do nothing.
TimerFired(k) ==
    \/ timerRef = k /\ timerRef' = NoTimer /\ UNCHANGED orphans
    \/ /\ UNCHANGED timerRef
       /\ \E j \in DOMAIN orphans : orphans[j] = k /\ orphans' = RemoveAt(orphans, j)

-----------------------------------------------------------------------------
(* AuthProvider                                                            *)

\* Mutant of ClearAuthState: the user stays.
ClearAuthStateKeepsUser ==
    /\ deadline' = FALSE /\ timerRef' = NoTimer
    /\ effectDue' = (effectDue \/ deadline)
    /\ UNCHANGED <<signedIn, orphans>>

\* clearAuthState, in the step of its caller.
ClearAuthState ==
    /\ signedIn' = FALSE /\ deadline' = FALSE
    /\ timerRef' = NoTimer
    /\ effectDue' = (effectDue \/ signedIn \/ deadline)
    /\ UNCHANGED orphans

KeepAuthState == UNCHANGED <<signedIn, deadline, timerRef, orphans, effectDue>>

\* The finally of the session check.
SessionEnds ==
    /\ sessionCheck' = "done"
    /\ IF mounted THEN isLoading' = FALSE /\ HideLoader ELSE UNCHANGED <<isLoading, count>>

\* The response of the session check, or its error; the cleanup of the effect aborts it.
SessionAnswer ==
    /\ sessionCheck = "fetch"
    /\ \/ mounted /\ sessionCheck' = "json" /\ KeepAuthState /\ UNCHANGED <<isLoading, count>>
       \/ mounted /\ ClearAuthState /\ SessionEnds
       \/ ~mounted /\ KeepAuthState /\ SessionEnds
    /\ UNCHANGED <<refreshes, logouts, loggedOut, mounted, i18nVars>>

\* Its body, which is used without another look at mountedRef: a user, none, or a body that cannot
\* be read.
SessionRead ==
    /\ sessionCheck = "json"
    /\ \/ /\ signedIn' = TRUE /\ deadline' \in BOOLEAN /\ effectDue' = TRUE
          /\ UNCHANGED <<timerRef, orphans>>
       \/ ClearAuthState
       \/ ~mounted /\ KeepAuthState
    /\ SessionEnds
    /\ loggedOut' = FALSE
    /\ UNCHANGED <<refreshes, logouts, mounted, i18nVars>>

\* performRefresh up to its fetch.
CanStart == Len(refreshes) < MaxRefresh
PerformRefresh(caller) ==
    refreshes' = Append(refreshes, [step |-> "fetch", sent |-> 1, by |-> caller])

\* The effect of [expiresAt, user]: its cleanup clears the timer, scheduleRefresh sets the next
\* one, or refreshes at once when the deadline is near.  autoRefresh is on, as it is by default.
Effect ==
    /\ effectDue /\ mounted
    /\ effectDue' = FALSE
    /\ UNCHANGED orphans
    /\ IF signedIn /\ deadline
       THEN \/ timerRef' = Scheduled /\ UNCHANGED refreshes
            \/ CanStart /\ PerformRefresh("provider") /\ timerRef' = NoTimer
       ELSE timerRef' = NoTimer /\ UNCHANGED refreshes
    /\ UNCHANGED <<signedIn, deadline, sessionCheck, isLoading, logouts, loggedOut, mounted,
                   count, i18nVars>>

RefreshTimerFires ==
    /\ TimerFired(Scheduled)
    /\ IF mounted THEN CanStart /\ PerformRefresh("provider") ELSE UNCHANGED refreshes
    /\ UNCHANGED <<signedIn, deadline, sessionCheck, isLoading, effectDue, logouts, loggedOut,
                   mounted, count, i18nVars>>

\* The visibility handler, whose closure is of the last render.
BecomesVisible ==
    /\ mounted /\ (effectDue \/ (signedIn /\ deadline))
    /\ CanStart /\ PerformRefresh("provider")
    /\ UNCHANGED <<signedIn, deadline, sessionCheck, isLoading, timerRef, orphans, effectDue,
                   logouts, loggedOut, mounted, count, i18nVars>>

\* refresh() of the context, which the application may have kept.
Refresh ==
    /\ CanStart /\ PerformRefresh("application")
    /\ UNCHANGED <<signedIn, deadline, sessionCheck, isLoading, timerRef, orphans, effectDue,
                   logouts, loggedOut, mounted, count, i18nVars>>

RefreshIs(i, steps) == i \in DOMAIN refreshes /\ refreshes[i].step \in steps
RefreshGoes(i, step) == refreshes' = [refreshes EXCEPT ![i].step = step]

\* 200, whose body is read next; or any status but 200, 400 and 401, which changes nothing.
RefreshAnswer(i) ==
    /\ RefreshIs(i, {"fetch"})
    /\ \/ mounted /\ RefreshGoes(i, "json")
       \/ RefreshGoes(i, "settled")
    /\ UNCHANGED <<signedIn, deadline, sessionCheck, isLoading, timerRef, orphans, effectDue,
                   logouts, loggedOut, mounted, count, i18nVars>>

\* The body has the next deadline, or none; mountedRef is not looked at again.  An effect runs when
\* the deadline is another one.
RefreshRead(i) ==
    /\ RefreshIs(i, {"json"})
    /\ RefreshGoes(i, "settled")
    /\ deadline' \in BOOLEAN
    /\ effectDue' \in IF deadline' # deadline THEN {TRUE} ELSE {effectDue, effectDue \/ deadline}
    /\ UNCHANGED <<signedIn, sessionCheck, isLoading, timerRef, orphans, logouts, loggedOut,
                   mounted, count, i18nVars>>

\* 400 or 401.
RefreshRefused(i) ==
    /\ RefreshIs(i, {"fetch"}) /\ mounted
    /\ RefreshGoes(i, "settled")
    /\ ClearAuthState
    /\ UNCHANGED <<sessionCheck, isLoading, logouts, loggedOut, mounted, count, i18nVars>>

\* An error of the network, or a body that cannot be read: one retry, by a timer that timerRef
\* names; the second time the user is signed out.
RefreshBreaks(i) ==
    /\ RefreshIs(i, {"fetch", "json"})
    /\ IF ~mounted THEN RefreshGoes(i, "settled") /\ KeepAuthState
       ELSE IF refreshes[i].sent = 1
       THEN RefreshGoes(i, "waiting") /\ SetTimer(i) /\ UNCHANGED <<signedIn, deadline, effectDue>>
       ELSE RefreshGoes(i, "settled") /\ ClearAuthState
    /\ UNCHANGED <<sessionCheck, isLoading, logouts, loggedOut, mounted, count, i18nVars>>

SendAgain(i) == refreshes' = [refreshes EXCEPT ![i].step = "fetch", ![i].sent = 2]

\* Mutant of RetryTimerFires: the retry does not look at mountedRef.
RetryTimerFiresUnmounted(i) ==
    /\ RefreshIs(i, {"waiting"}) /\ TimerFired(i)
    /\ SendAgain(i)
    /\ UNCHANGED <<signedIn, deadline, sessionCheck, isLoading, effectDue, logouts, loggedOut,
                   mounted, count, i18nVars>>

RetryTimerFires(i) ==
    /\ RefreshIs(i, {"waiting"}) /\ TimerFired(i)
    /\ IF mounted THEN SendAgain(i) ELSE RefreshGoes(i, "settled")
    /\ UNCHANGED <<signedIn, deadline, sessionCheck, isLoading, effectDue, logouts, loggedOut,
                   mounted, count, i18nVars>>

\* logout() of the context, at any time and again while another call waits.
Logout ==
    /\ logouts.called < MaxLogouts
    /\ logouts' = [called |-> logouts.called + 1, waiting |-> logouts.waiting + 1]
    /\ UNCHANGED <<signedIn, deadline, sessionCheck, isLoading, timerRef, orphans, effectDue,
                   refreshes, loggedOut, mounted, count, i18nVars>>

\* The answer, or an error of the network, which is ignored.
LogoutDone ==
    /\ logouts.waiting > 0
    /\ logouts' = [logouts EXCEPT !.waiting = @ - 1]
    /\ loggedOut' = TRUE
    /\ IF mounted THEN ClearAuthState ELSE KeepAuthState
    /\ UNCHANGED <<sessionCheck, isLoading, refreshes, mounted, count, i18nVars>>

\* The cleanups of the effects: the timer that timerRef names is cleared, the session check is
\* aborted, and nobody hides what it showed.
Unmount ==
    /\ mounted
    /\ mounted' = FALSE
    /\ timerRef' = NoTimer
    /\ UNCHANGED <<signedIn, deadline, sessionCheck, isLoading, orphans, effectDue, refreshes,
                   logouts, loggedOut, count, i18nVars>>

-----------------------------------------------------------------------------
(* I18nProvider                                                            *)

LoadTranslations(l) ==
    /\ Len(loads) < MaxLoads
    /\ latest' = l
    /\ loads' = Append(loads, [locale |-> l, open |-> TRUE])
    /\ ShowLoader
    /\ UNCHANGED <<authVars, shown, ready>>

SetLocale(l) == l # latest /\ LoadTranslations(l)
ReloadTranslations == LoadTranslations(latest)

\* A load ends.  One for a locale that is no longer wanted changes nothing and hides nothing.
LoadEnds(i) ==
    /\ i \in DOMAIN loads /\ loads[i].open
    /\ loads' = [loads EXCEPT ![i].open = FALSE]
    /\ IF loads[i].locale = latest
       THEN /\ HideLoader
            /\ \/ shown' = latest /\ ready' = TRUE
               \/ UNCHANGED <<shown, ready>>          \* the loader of the application failed
       ELSE UNCHANGED <<count, shown, ready>>
    /\ UNCHANGED <<authVars, latest>>

AuthProviderNext ==
    \/ SessionAnswer \/ SessionRead \/ Effect \/ RefreshTimerFires \/ BecomesVisible \/ Refresh
    \/ \E i \in 1..MaxRefresh : \/ RefreshAnswer(i) \/ RefreshRead(i) \/ RefreshRefused(i)
                                \/ RefreshBreaks(i) \/ RetryTimerFires(i)
    \/ Logout \/ LogoutDone \/ Unmount

I18nProviderNext ==
    \/ \E l \in Locale : SetLocale(l)
    \/ ReloadTranslations
    \/ \E i \in 1..MaxLoads : LoadEnds(i)

ReactNext == AuthProviderNext \/ I18nProviderNext

-----------------------------------------------------------------------------

\* Once logout has completed nobody is signed in again, whatever refresh, retry or timer was
\* under way when it began; only a session check that is still unread can bring the user back.
SignedOutStays == loggedOut /\ mounted => ~signedIn

\* Each of the requests a refresh sends after the unmount is one the application asks for then: no
\* timer sends one, neither the scheduled refresh nor a retry, also if it could not be cleared
\* because another timer had taken its place in timerRef.
NothingSent ==
    \A i \in DOMAIN refreshes' :
        IF i \in DOMAIN refreshes THEN refreshes'[i].sent = refreshes[i].sent
        ELSE refreshes'[i].by = "application"

\* A body that is being read now was answered before the step, and what the provider holds changes
\* only at the end of one.
NothingHeard ==
    /\ \A i \in DOMAIN refreshes' : refreshes'[i].step = "json" => refreshes[i].step = "json"
    /\ sessionCheck' = "json" => sessionCheck = "json"
    /\ \/ UNCHANGED <<signedIn, deadline>>
       \/ sessionCheck = "json" /\ sessionCheck' = "done"
       \/ \E i \in DOMAIN refreshes : refreshes[i].step = "json" /\ refreshes'[i].step = "settled"
    /\ UNCHANGED isLoading

\* Once the page is unmounted, no timer sends a request or sets another timer, and no answer that
\* arrives then is used; only the body of one that had arrived before, and was still being read.
UnmountIsQuiet == [][~mounted => NothingSent /\ NothingHeard /\ Timers' \subseteq Timers]_reactVars

\* packages/react/src/i18n/i18n-context.tsx: "Always hide the loader, even on error".
\* With no request and no load under way the loader is hidden.
LoaderIsHiddenInTheEnd ==
    mounted /\ sessionCheck = "done" /\ (\A i \in DOMAIN loads : ~loads[i].open) => count = 0
=============================================================================
