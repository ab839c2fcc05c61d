------------------------------ MODULE OidcSession ------------------------------
(***************************************************************************)
(* OidcSessionLifecycle, the phone's token session, and                    *)
(* OidcSessionController, which calls it from the screen.  Used directly,  *)
(* as its tests do, restore, signIn, signOut and authenticationEvidence    *)
(* may overlap in any way; the controller calls one of the first three at  *)
(* a time.  A generation number, the futures of the operations in flight   *)
(* and _cleanupRequired keep late answers of the provider and of the       *)
(* secure storage from bringing back what was signed out.                  *)
(*                                                                         *)
(* Dart code runs to its next await without interruption.  Every storage   *)
(* call takes effect and answers in one step, while others may be under    *)
(* way; it can fail after or without its effect.  Those who wait for a     *)
(* refresh go on in the step that ends it.                                 *)
(***************************************************************************)
EXTENDS Naturals, FiniteSets

CONSTANTS Restores,    \* concurrent calls of restore
          Callers,     \* concurrent calls of authenticationEvidence
          MaxCalls,    \* bound: how many restores, sign-ins and sign-outs
          MaxVersion,  \* bound: how often a token set is refreshed
          MaxFaults,   \* bound: how many storage and provider calls fail
          MaxRestarts, \* bound: how often the process is killed and relaunched
          Controlled,  \* whether the controller makes the calls: a set of BOOLEANs
          Corrupt,     \* a stored record that is not a token set
          None

\* A token set: the sign-in that it comes from and how often it was refreshed.
Token == [account: 0..MaxCalls, version: 0..MaxVersion]

ASSUME ConstantsAssumption ==
  /\ MaxCalls \in Nat /\ MaxVersion \in Nat /\ MaxFaults \in Nat /\ MaxRestarts \in Nat
  /\ Controlled \subseteq BOOLEAN
  /\ Corrupt # None /\ {Corrupt, None} \cap Token = {}

Statuses == {"initial", "restoring", "signedOut", "signingIn", "signedIn", "signingOut", "failed"}

VARIABLES
  status,          \* the controller's _status, or "free" when there is none
  tokens,          \* _tokens
  store,           \* what the secure storage holds
  generation,      \* _generation
  cleanupRequired, \* _cleanupRequired
  restore,         \* where each restore is, with its generation and what it read
  signIn,          \* _signInInFlight: where it is, its generation and its tokens
  signOut,         \* _signOutInFlight: where it is
  refresh,         \* _refreshInFlight: where it is, its generation, old and new tokens
  waiting,         \* the tokens each waiting authenticationEvidence was called with
  calls, faults, restarts, accounts,
  dead             \* history: the token sets of accounts given up: signed out, replaced, not saved in time

ops == <<restore, signIn, signOut, refresh, waiting>>
counts == <<calls, faults, restarts, accounts>>
vars == <<status, tokens, store, generation, cleanupRequired, ops, counts, dead>>

NoRestore == [at |-> "none", generation |-> 0, read |-> None]
NoSignIn == [at |-> "none", generation |-> 0, tokens |-> None]
NoRefresh == [at |-> "none", generation |-> 0, current |-> None, next |-> None]

Init ==
  /\ \E controlled \in Controlled : status = IF controlled THEN "initial" ELSE "free"
  /\ tokens = None
  /\ store \in {None, Corrupt, [account |-> 0, version |-> 0]}
  /\ generation = 0
  /\ cleanupRequired = FALSE
  /\ restore = [r \in Restores |-> NoRestore]
  /\ signIn = NoSignIn
  /\ signOut = "none"
  /\ refresh = NoRefresh
  /\ waiting = [c \in Callers |-> None]
  /\ calls = 0 /\ faults = 0 /\ restarts = 0 /\ accounts = 0
  /\ dead = {}

\* Every token set, refreshed or not, of the accounts that these come from.
AllOf(tokenSets) == {t \in Token : \E u \in tokenSets \ {None, Corrupt} : t.account = u.account}

\* restore, signIn or signOut is called, within the bound.
Called(from, to) ==
  /\ status \in from \cup {"free"}
  /\ status' = IF status = "free" THEN "free" ELSE to
  /\ calls < MaxCalls /\ calls' = calls + 1

\* The call that the controller waits for ends.
Answer(to) == status' = IF status = "free" THEN "free" ELSE to

\* A call goes on, or ends.
Continue(ends, to) == IF ends THEN Answer(to) ELSE UNCHANGED status

\* OidcTokenStore.clear: it succeeds, or fails with or without its effect.
ClearStore(succeeds) ==
  \/ succeeds /\ store' = None /\ UNCHANGED faults
  \/ ~succeeds /\ faults < MaxFaults /\ faults' = faults + 1 /\ store' \in {store, None}

\* Mutant of SaveStore: the error of the secure storage is swallowed.
SaveStore_Swallows(t, succeeds) == succeeds /\ store' \in {store, t} /\ UNCHANGED faults

\* OidcTokenStore.save.
SaveStore(t, succeeds) ==
  \/ succeeds /\ store' = t /\ UNCHANGED faults
  \/ ~succeeds /\ faults < MaxFaults /\ faults' = faults + 1 /\ store' \in {store, t}

\* Mutant of ClearContaminated: a clear that failed is forgotten.
ClearContaminated_Forgets(succeeds) == ClearStore(succeeds) /\ cleanupRequired' = FALSE

\* _clearContaminatedState.
ClearContaminated(succeeds) == ClearStore(succeeds) /\ cleanupRequired' = ~succeeds

\* _refresh: joins the refresh in flight, or starts one.
JoinRefresh ==
  refresh' = IF refresh.at # "none" THEN refresh
             ELSE [at |-> "asked", generation |-> generation, current |-> tokens', next |-> None]

\* Mutant of EndRefresh: the restore that waits for it is not resumed.
EndRefresh_KeepsRestore(succeeds) ==
  refresh' = NoRefresh /\ waiting' = [c \in Callers |-> None] /\ UNCHANGED <<restore, status>>

\* The refresh in flight ends, and with it all that waits for it.
EndRefresh(succeeds) ==
  /\ refresh' = NoRefresh
  /\ waiting' = [c \in Callers |-> None]
  /\ restore' = [r \in Restores |-> IF restore[r].at = "refreshing" THEN NoRestore ELSE restore[r]]
  /\ Continue(\E r \in Restores : restore[r].at = "refreshing", IF succeeds THEN "signedIn" ELSE "failed")

\* An operation awaits the future that it found in flight, not a later one:
\* later operations have a later generation.
AwaitsSignIn(mine) == signIn.at # "none" /\ signIn.generation < mine

\* Mutant of AwaitsRefresh: the refresh in flight is not awaited.
AwaitsRefresh_Never(mine) == FALSE

AwaitsRefresh(mine) == refresh.at # "none" /\ refresh.generation < mine

-----------------------------------------------------------------------------
(* restore *)

CallRestore(r) ==
  /\ restore[r].at = "none" /\ Called({"initial"}, "restoring")
  /\ generation' = generation + 1
  /\ tokens' = None
  /\ restore' = [restore EXCEPT ![r] = [at |-> "signIn", generation |-> generation + 1, read |-> None]]
  /\ UNCHANGED <<store, cleanupRequired, signIn, signOut, refresh, waiting, faults, restarts, accounts, dead>>

RestoreAt(r, from, to) ==
  restore[r].at = from /\ restore' = [restore EXCEPT ![r] = IF to = "none" THEN NoRestore ELSE [@ EXCEPT !.at = to]]

RestoreAwaitsSignIn(r) ==
  /\ ~AwaitsSignIn(restore[r].generation)
  /\ RestoreAt(r, "signIn", "refresh")
  /\ UNCHANGED <<status, tokens, store, generation, cleanupRequired, signIn, signOut, refresh, waiting, counts, dead>>

\* Mutant of Current: a restore does not look at the generation.
Current_Always(r) == signOut = "none"

\* No newer operation has begun.
Current(r) == restore[r].generation = generation /\ signOut = "none"

RestoreAwaitsRefresh(r) ==
  /\ ~AwaitsRefresh(restore[r].generation)
  /\ \/ ~Current(r) /\ RestoreAt(r, "refresh", "none")
     \/ Current(r) /\ RestoreAt(r, "refresh", IF cleanupRequired THEN "clearing" ELSE "loading")
  /\ Continue(~Current(r), "failed")
  /\ UNCHANGED <<tokens, store, generation, cleanupRequired, signIn, signOut, refresh, waiting, counts, dead>>

RestoreClears(r) ==
  /\ \E ok \in BOOLEAN : /\ ClearContaminated(ok)
                         /\ RestoreAt(r, "clearing", IF ok THEN "loading" ELSE "none")
                         /\ Continue(~ok, "failed")
  /\ UNCHANGED <<tokens, generation, signIn, signOut, refresh, waiting, calls, restarts, accounts, dead>>

\* OidcTokenStore.load reads the record, and then deletes one that is not a token set.
RestoreReads(r) ==
  /\ restore[r].at = "loading"
  /\ \/ /\ restore' = [restore EXCEPT ![r] = IF store = Corrupt THEN [@ EXCEPT !.at = "discarding"]
                                            ELSE [@ EXCEPT !.at = "loaded", !.read = store]]
        /\ UNCHANGED <<status, faults>>
     \/ /\ RestoreAt(r, "loading", "none") /\ Answer("failed")
        /\ faults < MaxFaults /\ faults' = faults + 1
  /\ UNCHANGED <<tokens, store, generation, cleanupRequired, signIn, signOut, refresh, waiting, calls, restarts,
                 accounts, dead>>

RestoreDiscards(r) ==
  /\ \E ok \in BOOLEAN : /\ ClearStore(ok)
                         /\ RestoreAt(r, "discarding", IF ok THEN "loaded" ELSE "none")
                         /\ Continue(~ok, "failed")
  /\ UNCHANGED <<tokens, generation, cleanupRequired, signIn, signOut, refresh, waiting, calls, restarts,
                 accounts, dead>>

\* The tokens are taken over; they may have to be refreshed first.
RestoreLoaded(r) ==
  /\ restore[r].at = "loaded"
  /\ \/ /\ ~Current(r)
        /\ RestoreAt(r, "loaded", "none") /\ Answer("failed")
        /\ UNCHANGED <<tokens, refresh>>
     \/ /\ Current(r)
        /\ tokens' = restore[r].read
        /\ \/ /\ RestoreAt(r, "loaded", "none")
              /\ Answer(IF restore[r].read = None THEN "signedOut" ELSE "signedIn")
              /\ UNCHANGED refresh
           \/ restore[r].read # None /\ RestoreAt(r, "loaded", "refreshing") /\ JoinRefresh /\ UNCHANGED status
  /\ UNCHANGED <<store, generation, cleanupRequired, signIn, signOut, waiting, counts, dead>>

-----------------------------------------------------------------------------
(* signIn *)

\* A second signIn joins the one in flight; none starts during a signOut.
CallSignIn ==
  /\ signIn.at = "none" /\ signOut = "none" /\ Called({"signedOut", "failed"}, "signingIn")
  /\ generation' = generation + 1
  /\ tokens' = None
  /\ signIn' = [at |-> "refresh", generation |-> generation + 1,
                tokens |-> [account |-> accounts + 1, version |-> 0]]
  /\ accounts' = accounts + 1
  /\ UNCHANGED <<store, cleanupRequired, restore, signOut, refresh, waiting, faults, restarts, dead>>

SignInAt(from, to) ==
  signIn.at = from /\ signIn' = IF to = "none" THEN NoSignIn ELSE [signIn EXCEPT !.at = to]

Newest == signIn.generation = generation

\* Mutant of SignInAwaitsRefresh: it waits for a sign-out, which waits for it.
SignInAwaitsRefresh_Waits ==
  /\ ~AwaitsRefresh(signIn.generation) /\ signOut = "none"
  /\ SignInAt("refresh", IF ~Newest THEN "none" ELSE IF cleanupRequired THEN "clearing" ELSE "authorizing")
  /\ Continue(~Newest, "signedOut")
  /\ UNCHANGED <<tokens, store, generation, cleanupRequired, restore, signOut, refresh, waiting, counts, dead>>

SignInAwaitsRefresh ==
  /\ ~AwaitsRefresh(signIn.generation)
  /\ IF Newest /\ signOut = "none"
     THEN SignInAt("refresh", IF cleanupRequired THEN "clearing" ELSE "authorizing")
     ELSE SignInAt("refresh", "none")
  /\ Continue(~Newest \/ signOut # "none", "signedOut")
  /\ UNCHANGED <<tokens, store, generation, cleanupRequired, restore, signOut, refresh, waiting, counts, dead>>

SignInClears ==
  /\ \E ok \in BOOLEAN : /\ ClearContaminated(ok)
                         /\ SignInAt("clearing", IF ok THEN "authorizing" ELSE "none")
                         /\ Continue(~ok, "failed")
  /\ UNCHANGED <<tokens, generation, restore, signOut, refresh, waiting, calls, restarts, accounts, dead>>

\* The browser comes back with tokens, cancelled, or with an error.
SignInAuthorized ==
  /\ \/ SignInAt("authorizing", "none") /\ \E to \in {"signedOut", "failed"} : Answer(to)
     \/ Newest /\ SignInAt("authorizing", "saving") /\ UNCHANGED status
  /\ UNCHANGED <<tokens, store, generation, cleanupRequired, restore, signOut, refresh, waiting, counts, dead>>

\* A save that failed, or came too late, is taken back.
SignInSaves ==
  /\ signIn.at = "saving"
  /\ \E ok \in BOOLEAN :
       /\ SaveStore(signIn.tokens, ok)
       /\ dead' = dead \cup IF ok /\ Newest THEN {t \in Token : t.account < signIn.tokens.account}
                         ELSE AllOf({signIn.tokens})
       /\ \/ ok /\ Newest /\ SignInAt("saving", "none")
             /\ tokens' = signIn.tokens /\ cleanupRequired' = FALSE /\ Answer("signedIn")
          \/ ok /\ ~Newest /\ SignInAt("saving", "unsaving") /\ UNCHANGED <<status, tokens, cleanupRequired>>
          \/ ~ok /\ SignInAt("saving", "clearingUp") /\ UNCHANGED status
             /\ tokens' = None /\ cleanupRequired' = TRUE
  /\ UNCHANGED <<generation, restore, signOut, refresh, waiting, calls, restarts, accounts>>

SignInUnsaves ==
  /\ \E ok \in BOOLEAN :
       /\ ClearStore(ok)
       /\ \/ ok /\ SignInAt("unsaving", "none") /\ Answer("signedOut") /\ UNCHANGED <<tokens, cleanupRequired>>
          \/ ~ok /\ SignInAt("unsaving", "clearingUp") /\ UNCHANGED status
             /\ tokens' = None /\ cleanupRequired' = TRUE
  /\ UNCHANGED <<generation, restore, signOut, refresh, waiting, calls, restarts, accounts, dead>>

SignInClearsUp ==
  /\ SignInAt("clearingUp", "none") /\ Answer("failed")
  /\ \E ok \in BOOLEAN : ClearContaminated(ok)
  /\ UNCHANGED <<tokens, generation, restore, signOut, refresh, waiting, calls, restarts, accounts, dead>>

-----------------------------------------------------------------------------
(* signOut *)

\* A second signOut joins the one in flight.
CallSignOut ==
  /\ signOut = "none" /\ Called({"signedIn"}, "signingOut")
  /\ generation' = generation + 1
  /\ tokens' = None
  /\ cleanupRequired' = TRUE
  /\ signOut' = "clearing"
  /\ dead' = dead \cup AllOf({tokens, store, signIn.tokens})
  /\ UNCHANGED <<store, restore, signIn, refresh, waiting, faults, restarts, accounts>>

SignOutClears ==
  /\ signOut = "clearing" /\ signOut' = "signIn"
  /\ \E ok \in BOOLEAN : ClearStore(ok)
  /\ UNCHANGED <<status, tokens, generation, cleanupRequired, restore, signIn, refresh, waiting, calls, restarts, accounts, dead>>

SignOutAwaitsSignIn ==
  /\ signOut = "signIn" /\ signIn.at = "none"
  /\ signOut' = "refresh"
  /\ UNCHANGED <<status, tokens, store, generation, cleanupRequired, restore, signIn, refresh, waiting, counts, dead>>

SignOutAwaitsRefresh ==
  /\ signOut = "refresh" /\ refresh.at = "none"
  /\ signOut' = "clearingAgain"
  /\ generation' = generation + 1
  /\ tokens' = None
  /\ UNCHANGED <<status, store, cleanupRequired, restore, signIn, refresh, waiting, counts, dead>>

SignOutClearsAgain ==
  /\ signOut = "clearingAgain" /\ signOut' = "none"
  /\ \E ok \in BOOLEAN : ClearContaminated(ok) /\ Answer(IF ok THEN "signedOut" ELSE "failed")
  /\ UNCHANGED <<tokens, generation, restore, signIn, refresh, waiting, calls, restarts, accounts, dead>>

-----------------------------------------------------------------------------
(* authenticationEvidence and _refresh *)

\* The tokens have to be refreshed before they are evidence.
CallEvidence(c) ==
  /\ status \in {"free", "signedIn"}
  /\ waiting[c] = None /\ tokens # None
  /\ waiting' = [waiting EXCEPT ![c] = tokens]
  /\ UNCHANGED tokens
  /\ JoinRefresh
  /\ UNCHANGED <<status, store, generation, cleanupRequired, restore, signIn, signOut, counts, dead>>

Unchanged == refresh.generation = generation /\ tokens = refresh.current

\* The provider answers with tokens, or not.
RefreshAnswered ==
  /\ refresh.at = "asked"
  /\ \/ EndRefresh(FALSE)
     \/ /\ Unchanged /\ refresh.current.version < MaxVersion
        /\ refresh' = [refresh EXCEPT !.at = "saving", !.next = [refresh.current EXCEPT !.version = @ + 1]]
        /\ UNCHANGED <<status, waiting, restore>>
  /\ UNCHANGED <<tokens, store, generation, cleanupRequired, signIn, signOut, counts, dead>>

RefreshSaves ==
  /\ refresh.at = "saving"
  /\ \E ok \in BOOLEAN :
       /\ SaveStore(refresh.next, ok)
       /\ dead' = IF ok /\ Unchanged THEN dead ELSE dead \cup AllOf({refresh.current})
       /\ \/ ok /\ Unchanged /\ EndRefresh(TRUE)
             /\ tokens' = refresh.next /\ cleanupRequired' = FALSE
          \/ ok /\ ~Unchanged
             /\ refresh' = [refresh EXCEPT !.at = "unsaving"]
             /\ UNCHANGED <<status, tokens, cleanupRequired, waiting, restore>>
          \/ ~ok /\ refresh' = [refresh EXCEPT !.at = "clearingUp"]
             /\ tokens' = None /\ cleanupRequired' = TRUE
             /\ UNCHANGED <<status, waiting, restore>>
  /\ UNCHANGED <<generation, signIn, signOut, calls, restarts, accounts>>

\* The catch clause catches the exception of a late save as well: it clears twice.
RefreshUnsaves ==
  /\ refresh.at = "unsaving"
  /\ \E ok \in BOOLEAN : ClearStore(ok)
  /\ refresh' = [refresh EXCEPT !.at = "clearingUp"]
  /\ tokens' = None /\ cleanupRequired' = TRUE
  /\ UNCHANGED <<status, generation, restore, signIn, signOut, waiting, calls, restarts, accounts, dead>>

RefreshClearsUp ==
  /\ refresh.at = "clearingUp"
  /\ EndRefresh(FALSE)
  /\ \E ok \in BOOLEAN : ClearContaminated(ok)
  /\ UNCHANGED <<tokens, generation, signIn, signOut, calls, restarts, accounts, dead>>

-----------------------------------------------------------------------------
RestoreGoesOn(r) ==
  \/ RestoreAwaitsSignIn(r) \/ RestoreAwaitsRefresh(r) \/ RestoreClears(r)
  \/ RestoreReads(r) \/ RestoreDiscards(r) \/ RestoreLoaded(r)

SignInGoesOn ==
  \/ SignInAwaitsRefresh \/ SignInClears \/ SignInAuthorized
  \/ SignInSaves \/ SignInUnsaves \/ SignInClearsUp

SignOutGoesOn == SignOutClears \/ SignOutAwaitsSignIn \/ SignOutAwaitsRefresh \/ SignOutClearsAgain

RefreshGoesOn == RefreshAnswered \/ RefreshSaves \/ RefreshUnsaves \/ RefreshClearsUp

Next ==
  \/ \E r \in Restores : CallRestore(r) \/ RestoreGoesOn(r)
  \/ CallSignIn \/ SignInGoesOn
  \/ CallSignOut \/ SignOutGoesOn
  \/ \E c \in Callers : CallEvidence(c)
  \/ RefreshGoesOn

\* The storage, the provider and the browser answer, if only with an error.
Fairness ==
  /\ \A r \in Restores : WF_vars(RestoreGoesOn(r))
  /\ WF_vars(SignInGoesOn) /\ WF_vars(SignOutGoesOn) /\ WF_vars(RefreshGoesOn)

Spec == Init /\ [][Next]_vars
FairSpec == Spec /\ Fairness

\* No operation is under way.
Quiet == signIn.at = "none" /\ signOut = "none" /\ refresh.at = "none" /\ \A r \in Restores : restore[r].at = "none"

\* The process ends and the app is launched again: what it had in memory is gone.
Relaunch ==
  /\ Quiet /\ restarts < MaxRestarts
  /\ restarts' = restarts + 1
  /\ status # "free" /\ status' = "initial"
  /\ tokens' = None /\ generation' = 0 /\ cleanupRequired' = FALSE
  /\ restore' = [r \in Restores |-> NoRestore]
  /\ signIn' = NoSignIn /\ signOut' = "none" /\ refresh' = NoRefresh
  /\ waiting' = [c \in Callers |-> None]
  /\ UNCHANGED <<store, calls, faults, accounts, dead>>

RelaunchSpec == Init /\ [][Next \/ Relaunch]_vars

-----------------------------------------------------------------------------
(* Properties *)

\* Every variable holds a value of the kind the code keeps in it, and a restore
\* waits for a refresh only while there is one.
TypeOK ==
  /\ status \in Statuses \cup {"free"}
  /\ tokens \in Token \cup {None}
  /\ store \in Token \cup {None, Corrupt}
  /\ generation \in 0..2 * MaxCalls
  /\ cleanupRequired \in BOOLEAN
  /\ \A r \in Restores :
       /\ restore[r].at \in {"none", "signIn", "refresh", "clearing", "loading", "discarding", "loaded", "refreshing"}
       /\ restore[r].read \in Token \cup {None}
       /\ restore[r].at = "refreshing" => refresh.at # "none"
  /\ signIn.at \in {"none", "refresh", "clearing", "authorizing", "saving", "unsaving", "clearingUp"}
  /\ signIn.tokens \in Token \cup {None}
  /\ signOut \in {"none", "clearing", "signIn", "refresh", "clearingAgain"}
  /\ refresh.at \in {"none", "asked", "saving", "unsaving", "clearingUp"}
  /\ refresh.at # "none" => refresh.current \in Token
  /\ waiting \in [Callers -> Token \cup {None}]
  /\ dead \subseteq Token

\* "sign out cannot be undone by a late refresh", "delayed restore cannot replace
\* a newly signed-in account": an account that was signed out or replaced, or whose
\* tokens could not be saved in time, is never the session's again.
DeadStaysDead == tokens \notin dead

\* In the app, what the session uses is what a relaunch would restore, as soon
\* as nothing is under way.
TokensAreStored == status # "free" /\ Quiet /\ tokens # None => store = tokens

\* Nothing that was given up stays behind unless its cleanup is still noted;
\* the app never shows "signed out" while such tokens are left.
NothingLeft ==
  /\ Quiet /\ ~cleanupRequired => store \notin dead
  /\ status = "signedOut" => tokens = None /\ store \notin dead

\* "A later restore retries cleanup before reading token state": what a restore
\* goes on to use is nothing that was to be cleaned up.
RestoreRetriesCleanup == \A r \in Restores : restore[r].at = "loaded" /\ Current(r) => restore[r].read \notin dead

\* Who waits for evidence gets that of the account it asked for, or none.
EvidenceIsOwn ==
  \A c \in Callers : waiting[c] # None => refresh.at # "none" /\ refresh.current.account = waiting[c].account

\* The operations that wait for each other all come to an end.
EverythingEnds ==
  /\ signIn.at # "none" ~> signIn.at = "none"
  /\ signOut # "none" ~> signOut = "none"
  /\ refresh.at # "none" ~> refresh.at = "none"
  /\ \A r \in Restores : restore[r].at # "none" ~> restore[r].at = "none"
===============================================================================
