---------------------------- MODULE OidcSessionProofs ----------------------------
(***************************************************************************)
(* Theorems about OidcSession, for any number of operations that overlap in  *)
(* any way, and any number of failing storage calls: an account that was      *)
(* given up never comes back, and what is left of it in the storage is known   *)
(* to be.  Within one process this holds without exception; over relaunches    *)
(* it holds as long as no process ends with a cleanup noted.                   *)
(***************************************************************************)
EXTENDS OidcSession, TLAPS

-----------------------------------------------------------------------------
(* The inductive invariant *)

RestoreSteps == {"none", "signIn", "refresh", "clearing", "loading", "discarding", "loaded", "refreshing"}
SignInSteps == {"none", "refresh", "clearing", "authorizing", "saving", "unsaving", "clearingUp"}
RefreshSteps == {"none", "asked", "saving", "unsaving", "clearingUp"}

\* The records of the operations, and the counters of the bounds; a restore that has
\* not loaded has read nothing.
TypeInv ==
  /\ restore \in [Restores -> [at : RestoreSteps, generation : Nat, read : Token \cup {None}]]
  /\ \A r \in Restores : restore[r].at \notin {"loaded", "refreshing"} => restore[r].read = None
  /\ signIn \in [at : SignInSteps, generation : Nat, tokens : Token \cup {None}]
  /\ signIn.at = "none" => signIn.tokens = None
  /\ refresh \in [at : RefreshSteps, generation : Nat, current : Token \cup {None}, next : Token \cup {None}]
  /\ calls \in 0..MaxCalls /\ accounts \in 0..calls
  /\ generation \in Nat
  /\ generation <= 2 * calls
  /\ signOut \in {"clearing", "signIn", "refresh"} => generation < 2 * calls

\* Each restore and each sign-in has a generation of its own; one that has begun
\* before a sign-out is not the newest.
GenerationInv ==
  /\ \A r \in Restores : restore[r].at # "none" => restore[r].generation <= generation
  /\ \A r, q \in Restores :
       restore[r].at # "none" /\ restore[q].at # "none" /\ restore[r].generation = restore[q].generation => r = q
  /\ signIn.at # "none" =>
       /\ signIn.generation <= generation
       /\ \A r \in Restores : restore[r].at # "none" => restore[r].generation # signIn.generation
       /\ signOut # "none" => signIn.generation < generation
  /\ refresh.at # "none" => refresh.generation <= generation

\* Accounts are numbered as they sign in, and given up as a whole.
AccountInv ==
  /\ \A t \in {tokens, store} \cup dead : t \in Token => t.account <= accounts
  /\ \A r \in Restores : restore[r].read # None => restore[r].read.account <= accounts
  /\ signIn.at # "none" => signIn.tokens # None /\ signIn.tokens.account = accounts
  /\ refresh.at # "none" => refresh.current # None /\ refresh.current.account <= accounts
  /\ refresh.at = "saving" => refresh.next # None /\ refresh.next.account = refresh.current.account
  /\ \A t \in dead, u \in Token : u.account = t.account => u \in dead

\* A restore that has yet to load.
Pending(r) == restore[r].at \notin {"none", "refreshing"}

\* While the newest operation has not finished, there are no tokens in memory, and
\* what it waits for is older; what it has waited for is over.
RestoreInv ==
  \A r \in Restores : Pending(r) /\ restore[r].generation = generation =>
    /\ tokens = None
    /\ refresh.at # "none" => refresh.generation < generation
    /\ restore[r].at # "signIn" => signIn.at = "none"
    /\ restore[r].at \notin {"signIn", "refresh"} => refresh.at = "none" /\ signOut = "none"
    /\ restore[r].at \in {"loading", "discarding", "loaded"} => store \notin dead
    /\ restore[r].at = "loaded" => restore[r].read \notin dead

SignInInv ==
  signIn.at # "none" =>
    /\ tokens = None
    /\ refresh.at # "none" =>
         signIn.at = "refresh" /\ refresh.generation < signIn.generation /\ refresh.current.account < accounts
    /\ Newest /\ signIn.at \in {"refresh", "clearing", "authorizing", "saving"} => signIn.tokens \notin dead
    /\ Newest /\ signIn.at \in {"authorizing", "saving"} => store \notin dead
    /\ Newest => signIn.at # "unsaving"

SignOutInv ==
  signOut # "none" => tokens = None /\ (signOut = "clearingAgain" => refresh.at = "none")

\* A refresh is of the tokens in memory, or there are none.
RefreshInv ==
  refresh.at # "none" =>
    /\ tokens \in {None, refresh.current}
    /\ refresh.generation # generation \/ refresh.at \in {"unsaving", "clearingUp"} => tokens = None

\* What was given up is left in the storage only while that is noted, or while the
\* operation that put it there is about to take it back.
LeftInv == store \in dead => cleanupRequired \/ signIn.at = "unsaving" \/ refresh.at = "unsaving"

\* The controller makes one call at a time, and evidence is only asked for between
\* two of them.
ControlInv ==
  status # "free" =>
    /\ status # "restoring" => \A r \in Restores : restore[r].at = "none"
    /\ \A r, q \in Restores : restore[r].at # "none" /\ restore[q].at # "none" => r = q
    /\ \A r \in Restores : restore[r].at # "none" => restore[r].generation = generation
    /\ \A r \in Restores : restore[r].at = "loaded" => restore[r].read = store
    /\ signIn.at # "none" => status = "signingIn" /\ Newest
    /\ signOut # "none" => status = "signingOut"
    /\ status \in {"initial", "signedOut", "failed", "signingIn"} => refresh.at = "none"
    /\ tokens # None => store = tokens
    /\ status = "signedOut" => tokens = None /\ store \notin dead

IInv ==
  /\ TypeOK /\ TypeInv /\ GenerationInv /\ AccountInv
  /\ RestoreInv /\ SignInInv /\ SignOutInv /\ RefreshInv /\ LeftInv /\ ControlInv
  /\ DeadStaysDead /\ EvidenceIsOwn

-----------------------------------------------------------------------------
(* Lemmas *)

\* A token set is not None, nor a record that cannot be read.
LEMMA TokenFacts ==
  /\ None \notin Token /\ Corrupt \notin Token /\ Corrupt # None
  /\ \A t \in Token : t.account \in 0..MaxCalls /\ t.version \in 0..MaxVersion
  BY ConstantsAssumption DEF Token

LEMMA AllOfFacts ==
  ASSUME NEW S
  PROVE  /\ AllOf(S) \subseteq Token
         /\ \A t \in AllOf(S) : \E u \in S : u # None /\ u # Corrupt /\ t.account = u.account
         /\ \A t \in Token, u \in S : u # None /\ u # Corrupt /\ t.account = u.account => t \in AllOf(S)
  BY DEF AllOf

\* A restore goes on.
LEMMA RestoreAtFacts ==
  ASSUME TypeInv, NEW r \in Restores, NEW from, NEW to \in RestoreSteps, RestoreAt(r, from, to)
  PROVE  /\ restore[r].at = from /\ restore'[r].at = to
         /\ to # "none" => restore'[r].generation = restore[r].generation /\ restore'[r].read = restore[r].read
         /\ to = "none" => restore'[r] = NoRestore
         /\ \A q \in Restores : q # r => restore'[q] = restore[q]
         /\ restore' \in [Restores -> [at : RestoreSteps, generation : Nat, read : Token \cup {None}]]
  <1> DEFINE x == restore[r]
             y == IF to = "none" THEN NoRestore ELSE [x EXCEPT !.at = to]
  <1>1. x \in [at : RestoreSteps, generation : Nat, read : Token \cup {None}]
    BY DEF TypeInv
  <1>2. /\ y \in [at : RestoreSteps, generation : Nat, read : Token \cup {None}]
        /\ y.at = to
        /\ to # "none" => y.generation = x.generation /\ y.read = x.read
        /\ to = "none" => y = NoRestore
    BY <1>1 DEF NoRestore, RestoreSteps
  <1>3. restore' = [restore EXCEPT ![r] = y] /\ x.at = from
    BY DEF RestoreAt
  <1> HIDE DEF y
  <1>4. QED
    BY <1>2, <1>3 DEF TypeInv

LEMMA SignInAtFacts ==
  ASSUME TypeInv, NEW from, NEW to \in SignInSteps, SignInAt(from, to)
  PROVE  /\ signIn.at = from /\ signIn'.at = to
         /\ to # "none" => signIn'.generation = signIn.generation /\ signIn'.tokens = signIn.tokens
         /\ to = "none" => signIn'.tokens = None
         /\ signIn' \in [at : SignInSteps, generation : Nat, tokens : Token \cup {None}]
  BY DEF TypeInv, SignInAt, NoSignIn, SignInSteps

-----------------------------------------------------------------------------
(* restore *)

\* A restore goes on or ends without touching the tokens in memory.
LEMMA RestoreMoves ==
  ASSUME IInv, NEW r \in Restores, Pending(r), NEW to \in RestoreSteps \ {"signIn", "refreshing"},
         restore' \in [Restores -> [at : RestoreSteps, generation : Nat, read : Token \cup {None}]],
         restore'[r].at = to, \A q \in Restores : q # r => restore'[q] = restore[q],
         to # "none" => restore'[r].generation = restore[r].generation,
         restore'[r].read # None => restore'[r].read.account <= accounts,
         to # "loaded" => restore'[r].read = None,
         UNCHANGED <<tokens, generation, signIn, signOut, refresh, waiting, calls, accounts, dead>>,
         store' \in {store, None}, cleanupRequired' \in BOOLEAN,
         cleanupRequired' \/ cleanupRequired' = cleanupRequired \/ store' = None,
         status' = status \/ (status # "free" /\ to = "none" /\ status' = "failed" /\ refresh.at = "none"),
         status # "free" /\ to = "loaded" => restore'[r].read = store',
         to # "none" /\ restore[r].generation = generation =>
           /\ signIn.at = "none"
           /\ to # "refresh" => refresh.at = "none" /\ signOut = "none"
           /\ to \in {"loading", "discarding", "loaded"} => store' \notin dead
           /\ to = "loaded" => restore'[r].read \notin dead
  PROVE  IInv'
  <1> USE DEF IInv
  <1>1. \A q \in Restores : Pending(q)' => Pending(q)
    BY DEF Pending
  <1>2. None \notin Token /\ dead \subseteq Token
    BY TokenFacts DEF TypeOK
  <1>3. \A q \in Restores : restore'[q].at # "none" =>
          restore[q].at # "none" /\ restore'[q].generation = restore[q].generation
    BY DEF Pending
  <1>4. TypeOK' /\ TypeInv'
    <2>1. \A q \in Restores : restore'[q].at \in RestoreSteps /\ restore'[q].read \in Token \cup {None}
      OBVIOUS
    <2>2. \A q \in Restores : restore'[q].at = "refreshing" => refresh.at # "none"
      BY DEF TypeOK
    <2>3. status' \in Statuses \cup {"free"} /\ store' \in Token \cup {None, Corrupt}
      BY DEF TypeOK, Statuses
    <2>4. TypeOK'
      BY <2>1, <2>2, <2>3 DEF TypeOK, RestoreSteps
    <2>5. QED
      BY <2>4 DEF TypeInv
  <1>5. GenerationInv'
    BY <1>3 DEF GenerationInv
  <1>6. AccountInv'
    BY <1>2 DEF AccountInv
  <1>7. RestoreInv'
    BY <1>1, <1>2 DEF RestoreInv, Pending
  <1>8. SignInInv'
    BY <1>2 DEF SignInInv, Newest
  <1>9. SignOutInv' /\ RefreshInv' /\ DeadStaysDead' /\ EvidenceIsOwn'
    BY DEF SignOutInv, RefreshInv, DeadStaysDead, EvidenceIsOwn
  <1>10. LeftInv'
    BY <1>2 DEF LeftInv
  <1>11. ControlInv'
    <2> SUFFICES ASSUME status' # "free"
                 PROVE  ControlInv'
      BY DEF ControlInv
    <2>1. /\ status = "restoring" /\ restore[r].generation = generation
          /\ \A q \in Restores : restore[q].at # "none" => q = r
          /\ signIn.at = "none" /\ signOut = "none"
      BY DEF ControlInv, Pending
    <2>2. tokens = None
      BY <2>1 DEF RestoreInv
    <2>3. \A q \in Restores : restore'[q].at # "none" => q = r /\ to # "none"
      BY <1>3, <2>1
    <2>4. status' \in {"restoring", "failed"} /\ (status' = "failed" => to = "none" /\ refresh.at = "none")
      BY <2>1
    <2>5. QED
      BY <2>1, <2>2, <2>3, <2>4 DEF ControlInv, Newest
  <1>12. QED
    BY <1>4, <1>5, <1>6, <1>7, <1>8, <1>9, <1>10, <1>11

\* What Pending and the newest restore have behind them.
LEMMA RestoreFacts ==
  ASSUME IInv, NEW r \in Restores
  PROVE  /\ None \notin Token /\ Corrupt \notin Token /\ Corrupt # None
         /\ store \in Token \cup {None, Corrupt} /\ cleanupRequired \in BOOLEAN /\ dead \subseteq Token
         /\ restore[r].read \in Token \cup {None}
         /\ restore[r].at \notin {"loaded", "refreshing"} => restore[r].read = None
         /\ restore[r].read # None => restore[r].read.account <= accounts
         /\ restore[r].generation = generation /\ Pending(r) =>
              /\ tokens = None
              /\ refresh.at # "none" => refresh.generation < generation
              /\ restore[r].at # "signIn" => signIn.at = "none"
              /\ restore[r].at \notin {"signIn", "refresh"} => refresh.at = "none" /\ signOut = "none"
              /\ restore[r].at \in {"loading", "discarding", "loaded"} => store \notin dead
              /\ restore[r].at = "loaded" => restore[r].read \notin dead
         /\ status # "free" /\ restore[r].at # "none" => restore[r].generation = generation /\ signOut = "none"
  BY TokenFacts DEF IInv, TypeOK, TypeInv, RestoreInv, ControlInv, AccountInv

\* The same with the steps of RestoreAt.
LEMMA RestoreGoes ==
  ASSUME IInv, NEW r \in Restores,
         NEW from \in RestoreSteps \ {"none", "refreshing"}, NEW to \in RestoreSteps \ {"signIn", "refreshing"},
         RestoreAt(r, from, to),
         UNCHANGED <<tokens, generation, signIn, signOut, refresh, waiting, calls, accounts, dead>>,
         store' \in {store, None}, cleanupRequired' \in BOOLEAN,
         cleanupRequired' \/ cleanupRequired' = cleanupRequired \/ store' = None,
         status' = status \/ (status # "free" /\ to = "none" /\ status' = "failed" /\ refresh.at = "none"),
         to \notin {"none", "loaded"} => from # "loaded",
         to = "loaded" => restore[r].read = store',
         to # "none" /\ restore[r].generation = generation =>
           /\ signIn.at = "none"
           /\ to # "refresh" => refresh.at = "none" /\ signOut = "none"
           /\ to \in {"loading", "discarding", "loaded"} => store' \notin dead
  PROVE  IInv'
  <1>1. /\ restore[r].at = from /\ restore'[r].at = to
        /\ to # "none" => restore'[r].generation = restore[r].generation /\ restore'[r].read = restore[r].read
        /\ to = "none" => restore'[r] = NoRestore
        /\ \A q \in Restores : q # r => restore'[q] = restore[q]
        /\ restore' \in [Restores -> [at : RestoreSteps, generation : Nat, read : Token \cup {None}]]
    BY RestoreAtFacts DEF IInv
  <1>2. Pending(r)
    BY <1>1 DEF Pending
  <1>3. /\ restore'[r].read # None => restore'[r].read.account <= accounts
        /\ to # "loaded" => restore'[r].read = None
    BY <1>1, RestoreFacts DEF NoRestore
  <1>4. QED
    BY <1>1, <1>2, <1>3, RestoreMoves

LEMMA RestoreKeeps ==
  ASSUME IInv, NEW r \in Restores,
         \/ RestoreAwaitsSignIn(r) \/ RestoreAwaitsRefresh(r) \/ RestoreClears(r)
         \/ RestoreReads(r) \/ RestoreDiscards(r)
         \/ RestoreLoaded(r) /\ ~Current(r)
  PROVE  IInv'
  <1> DEFINE Newer == restore[r].generation = generation
  <1>1. CASE RestoreAwaitsSignIn(r)
    <2>1. /\ RestoreAt(r, "signIn", "refresh") /\ ~AwaitsSignIn(restore[r].generation)
          /\ UNCHANGED <<status, tokens, store, generation, cleanupRequired, signIn, signOut, refresh, waiting,
                         calls, accounts, dead>>
      BY <1>1 DEF RestoreAwaitsSignIn, counts
    <2>2. Newer => signIn.at = "none"
      <3>1. signIn.at # "none" => signIn.generation <= generation /\ signIn.generation # restore[r].generation
        BY <2>1 DEF IInv, GenerationInv, RestoreAt
      <3>2. signIn.generation \in Nat /\ generation \in Nat
        BY DEF IInv, TypeInv
      <3>3. QED
        BY <2>1, <3>1, <3>2 DEF AwaitsSignIn
    <2>3. QED
      BY <2>1, <2>2, RestoreFacts, RestoreGoes DEF RestoreSteps
  <1>2. CASE RestoreAwaitsRefresh(r)
    <2> DEFINE to == IF ~Current(r) THEN "none" ELSE IF cleanupRequired THEN "clearing" ELSE "loading"
    <2>1. /\ RestoreAt(r, "refresh", to) /\ ~AwaitsRefresh(restore[r].generation)
          /\ Continue(~Current(r), "failed")
          /\ UNCHANGED <<tokens, store, generation, cleanupRequired, signIn, signOut, refresh, waiting,
                         calls, accounts, dead>>
      BY <1>2 DEF RestoreAwaitsRefresh, counts
    <2>2. restore[r].at = "refresh" /\ Pending(r)
      BY <2>1 DEF RestoreAt, Pending
    <2>3. Newer => refresh.at = "none" /\ signIn.at = "none"
      BY <2>1, <2>2, RestoreFacts DEF AwaitsRefresh
    <2>4. to # "none" => Newer /\ signOut = "none"
      BY DEF Current
    <2>5. Newer /\ ~cleanupRequired => store \notin dead
      BY <2>3 DEF IInv, LeftInv
    <2>6. status' = status \/ (status # "free" /\ to = "none" /\ status' = "failed" /\ refresh.at = "none")
      BY <2>1, <2>2, <2>3, RestoreFacts DEF Continue, Answer, Current
    <2>7. /\ to \in RestoreSteps \ {"signIn", "refreshing"} /\ to \notin {"discarding", "loaded"}
          /\ to = "loading" => ~cleanupRequired
          /\ "refresh" \in RestoreSteps \ {"none", "refreshing"}
      BY DEF RestoreSteps
    <2> HIDE DEF to
    <2>8. QED
      BY <2>1, <2>3, <2>4, <2>5, <2>6, <2>7, RestoreFacts, RestoreGoes
  <1>3. CASE RestoreClears(r)
    <2>1. PICK ok \in BOOLEAN :
             ClearContaminated(ok) /\ RestoreAt(r, "clearing", IF ok THEN "loading" ELSE "none") /\ Continue(~ok, "failed")
      BY <1>3 DEF RestoreClears
    <2> DEFINE to == IF ok THEN "loading" ELSE "none"
    <2>2. /\ RestoreAt(r, "clearing", to) /\ Continue(~ok, "failed")
          /\ store' \in {store, None} /\ (ok => store' = None) /\ cleanupRequired' = ~ok
          /\ UNCHANGED <<tokens, generation, signIn, signOut, refresh, waiting, calls, accounts, dead>>
      BY <1>3, <2>1 DEF RestoreClears, ClearContaminated, ClearStore
    <2>3. restore[r].at = "clearing" /\ Pending(r)
      BY <2>2 DEF RestoreAt, Pending
    <2>4. status' = status \/ (status # "free" /\ to = "none" /\ status' = "failed" /\ refresh.at = "none")
      BY <2>2, <2>3, RestoreFacts DEF Continue, Answer
    <2>5. /\ to \in RestoreSteps \ {"signIn", "refreshing"} /\ to \in {"loading", "none"} /\ (to = "loading" => ok)
          /\ "clearing" \in RestoreSteps \ {"none", "refreshing"}
      BY DEF RestoreSteps
    <2> HIDE DEF to
    <2>6. QED
      BY <2>2, <2>3, <2>4, <2>5, RestoreFacts, RestoreGoes
  <1>4. CASE RestoreReads(r)
    <2>1. /\ restore[r].at = "loading" /\ Pending(r)
          /\ UNCHANGED <<tokens, store, generation, cleanupRequired, signIn, signOut, refresh, waiting,
                         calls, accounts, dead>>
      BY <1>4 DEF RestoreReads, Pending
    <2>2. CASE RestoreAt(r, "loading", "none") /\ Answer("failed")
      <3>1. status' = status \/ (status # "free" /\ status' = "failed" /\ refresh.at = "none")
        BY <2>1, <2>2, RestoreFacts DEF Answer
      <3>2. QED
        BY <2>1, <2>2, <3>1, RestoreFacts, RestoreGoes DEF RestoreSteps
    <2>3. CASE store = Corrupt /\ restore' = [restore EXCEPT ![r] = [@ EXCEPT !.at = "discarding"]] /\ status' = status
      <3>1. RestoreAt(r, "loading", "discarding")
        BY <2>1, <2>3 DEF RestoreAt
      <3>2. QED
        BY <2>1, <2>3, <3>1, RestoreFacts, RestoreGoes DEF RestoreSteps
    <2>4. CASE /\ store # Corrupt /\ status' = status
               /\ restore' = [restore EXCEPT ![r] = [@ EXCEPT !.at = "loaded", !.read = store]]
      <3> DEFINE x == restore[r]
                 y == [x EXCEPT !.at = "loaded", !.read = store]
      <3>1. x \in [at : RestoreSteps, generation : Nat, read : Token \cup {None}]
        BY DEF IInv, TypeInv
      <3>2. /\ y \in [at : RestoreSteps, generation : Nat, read : Token \cup {None}]
            /\ y.at = "loaded" /\ y.read = store /\ y.generation = x.generation
        BY <2>4, <3>1, RestoreFacts DEF RestoreSteps
      <3>3. restore' = [restore EXCEPT ![r] = y]
        BY <2>4
      <3> HIDE DEF y
      <3>4. /\ restore' \in [Restores -> [at : RestoreSteps, generation : Nat, read : Token \cup {None}]]
            /\ restore'[r].at = "loaded" /\ restore'[r].read = store /\ restore'[r].generation = restore[r].generation
            /\ \A q \in Restores : q # r => restore'[q] = restore[q]
        BY <3>2, <3>3 DEF IInv, TypeInv
      <3>5. restore'[r].read # None => restore'[r].read.account <= accounts
        BY <2>4, <3>4, RestoreFacts DEF IInv, AccountInv
      <3>6. "loaded" \in RestoreSteps \ {"signIn", "refreshing"}
        BY DEF RestoreSteps
      <3>7. QED
        BY <2>1, <2>4, <3>4, <3>5, <3>6, RestoreFacts, RestoreMoves
    <2>5. QED
      BY <1>4, <2>2, <2>3, <2>4 DEF RestoreReads
  <1>5. CASE RestoreDiscards(r)
    <2>1. PICK ok \in BOOLEAN :
             ClearStore(ok) /\ RestoreAt(r, "discarding", IF ok THEN "loaded" ELSE "none") /\ Continue(~ok, "failed")
      BY <1>5 DEF RestoreDiscards
    <2> DEFINE to == IF ok THEN "loaded" ELSE "none"
    <2>2. /\ RestoreAt(r, "discarding", to) /\ Continue(~ok, "failed")
          /\ store' \in {store, None} /\ (ok => store' = None)
          /\ UNCHANGED <<tokens, generation, cleanupRequired, signIn, signOut, refresh, waiting, calls, accounts, dead>>
      BY <1>5, <2>1 DEF RestoreDiscards, ClearStore
    <2>3. restore[r].at = "discarding" /\ Pending(r) /\ restore[r].read = None
      BY <2>2, RestoreFacts DEF RestoreAt, Pending
    <2>4. status' = status \/ (status # "free" /\ to = "none" /\ status' = "failed" /\ refresh.at = "none")
      BY <2>2, <2>3, RestoreFacts DEF Continue, Answer
    <2>5. /\ to \in RestoreSteps \ {"signIn", "refreshing"} /\ to \in {"loaded", "none"} /\ (to = "loaded" => ok)
          /\ "discarding" \in RestoreSteps \ {"none", "refreshing"}
      BY DEF RestoreSteps
    <2> HIDE DEF to
    <2>6. QED
      BY <2>2, <2>3, <2>4, <2>5, RestoreFacts, RestoreGoes
  <1>6. CASE RestoreLoaded(r) /\ ~Current(r)
    <2>1. /\ RestoreAt(r, "loaded", "none") /\ Answer("failed")
          /\ UNCHANGED <<tokens, store, generation, cleanupRequired, signIn, signOut, refresh, waiting,
                         calls, accounts, dead>>
      BY <1>6 DEF RestoreLoaded, counts
    <2>2. restore[r].at = "loaded" /\ Pending(r)
      BY <2>1 DEF RestoreAt, Pending
    <2>3. status' = status
      BY <1>6, <2>1, <2>2, RestoreFacts DEF Answer, Current
    <2>4. QED
      BY <2>1, <2>3, RestoreFacts, RestoreGoes DEF RestoreSteps
  <1>7. QED
    BY <1>1, <1>2, <1>3, <1>4, <1>5, <1>6

LEMMA CallRestoreKeeps ==
  ASSUME IInv, NEW r \in Restores, CallRestore(r)
  PROVE  IInv'
  <1> DEFINE x == [at |-> "signIn", generation |-> generation + 1, read |-> None]
  <1> USE DEF IInv
  <1>1. /\ restore[r].at = "none" /\ restore' = [restore EXCEPT ![r] = x]
        /\ status \in {"initial", "free"} /\ status' = IF status = "free" THEN "free" ELSE "restoring"
        /\ calls < MaxCalls /\ calls' = calls + 1
        /\ generation' = generation + 1 /\ tokens' = None
        /\ UNCHANGED <<store, cleanupRequired, signIn, signOut, refresh, waiting, accounts, dead>>
    BY DEF CallRestore, Called
  <1>2. /\ generation \in Nat /\ calls \in 0..MaxCalls /\ accounts \in 0..calls /\ MaxCalls \in Nat
        /\ generation <= 2 * calls /\ dead \subseteq Token /\ None \notin Token
        /\ refresh.generation \in Nat /\ signIn.generation \in Nat
        /\ \A q \in Restores : restore[q].generation \in Nat
    BY ConstantsAssumption, TokenFacts DEF TypeInv, TypeOK
  <1>3. /\ x \in [at : RestoreSteps, generation : Nat, read : Token \cup {None}]
        /\ x.at = "signIn" /\ x.generation = generation + 1 /\ x.read = None
    BY <1>2 DEF RestoreSteps
  <1> HIDE DEF x
  <1>4. /\ restore' \in [Restores -> [at : RestoreSteps, generation : Nat, read : Token \cup {None}]]
        /\ restore'[r].at = "signIn" /\ restore'[r].generation = generation + 1 /\ restore'[r].read = None
        /\ \A q \in Restores : q # r => restore'[q] = restore[q]
    BY <1>1, <1>3 DEF TypeInv
  <1>5. TypeOK'
    <2>1. \A q \in Restores : /\ restore'[q].at \in RestoreSteps /\ restore'[q].read \in Token \cup {None}
                              /\ restore'[q].at = "refreshing" => refresh.at # "none"
      BY <1>4 DEF TypeOK
    <2>2. generation' \in 0..2 * MaxCalls
      BY <1>1, <1>2
    <2>3. QED
      BY <1>1, <2>1, <2>2 DEF TypeOK, Statuses, RestoreSteps
  <1>6. TypeInv'
    BY <1>1, <1>2, <1>4 DEF TypeInv
  <1>7. GenerationInv'
    BY <1>1, <1>2, <1>4 DEF GenerationInv
  <1>8. AccountInv'
    BY <1>1, <1>2, <1>4 DEF AccountInv
  <1>9. RestoreInv'
    <2>1. ASSUME NEW q \in Restores, Pending(q)', restore'[q].generation = generation'
          PROVE  q = r
      BY <1>1, <1>2, <1>4, <2>1 DEF GenerationInv, Pending
    <2>2. refresh.at # "none" => refresh.generation < generation'
      BY <1>1, <1>2 DEF GenerationInv
    <2>3. QED
      BY <1>1, <1>4, <2>1, <2>2 DEF RestoreInv, Pending
  <1>10. SignInInv'
    <2>1. signIn.at # "none" => ~Newest'
      BY <1>1, <1>2 DEF Newest, GenerationInv
    <2>2. QED
      BY <1>1, <2>1 DEF SignInInv
  <1>11. SignOutInv' /\ DeadStaysDead' /\ EvidenceIsOwn' /\ LeftInv'
    BY <1>1, <1>2 DEF SignOutInv, DeadStaysDead, EvidenceIsOwn, LeftInv
  <1>12. RefreshInv'
    BY <1>1 DEF RefreshInv
  <1>13. ControlInv'
    <2> SUFFICES ASSUME status' # "free"
                 PROVE  ControlInv'
      BY DEF ControlInv
    <2>1. /\ status = "initial" /\ status' = "restoring" /\ refresh.at = "none"
          /\ signIn.at = "none" /\ signOut = "none"
          /\ \A q \in Restores : restore'[q].at # "none" => q = r
      BY <1>1, <1>4 DEF ControlInv
    <2>2. QED
      BY <1>1, <1>4, <2>1 DEF ControlInv
  <1>14. QED
    BY <1>5, <1>6, <1>7, <1>8, <1>9, <1>10, <1>11, <1>12, <1>13

\* The restore that is the newest operation takes over what it has read.
LEMMA RestoreTakesOver ==
  ASSUME IInv, NEW r \in Restores, RestoreLoaded(r), Current(r)
  PROVE  IInv'
  <1> DEFINE read == restore[r].read
  <1> USE DEF IInv
  <1>1. /\ restore[r].at = "loaded" /\ Pending(r) /\ restore[r].generation = generation
        /\ tokens' = read /\ signOut = "none"
        /\ UNCHANGED <<store, generation, cleanupRequired, signIn, signOut, waiting, calls, accounts, dead>>
    BY DEF RestoreLoaded, Current, Pending, counts
  <1>2. /\ tokens = None /\ signIn.at = "none" /\ refresh.at = "none"
        /\ read \in Token \cup {None} /\ read \notin dead /\ None \notin Token
        /\ read # None => read.account <= accounts
        /\ store \notin dead /\ dead \subseteq Token /\ generation \in Nat
    BY <1>1, RestoreFacts DEF TypeInv
  <1>3. PICK to \in {"none", "refreshing"} :
          /\ RestoreAt(r, "loaded", to)
          /\ to = "none" => Answer(IF read = None THEN "signedOut" ELSE "signedIn") /\ refresh' = refresh
          /\ to = "refreshing" =>
               /\ read # None /\ status' = status
               /\ refresh' = [at |-> "asked", generation |-> generation, current |-> read, next |-> None]
    BY <1>1, <1>2 DEF RestoreLoaded, JoinRefresh, Current
  <1>4. /\ restore'[r].at = to
        /\ to # "none" => restore'[r].generation = restore[r].generation /\ restore'[r].read = restore[r].read
        /\ to = "none" => restore'[r] = NoRestore
        /\ \A q \in Restores : q # r => restore'[q] = restore[q]
        /\ restore' \in [Restores -> [at : RestoreSteps, generation : Nat, read : Token \cup {None}]]
    BY <1>3, RestoreAtFacts DEF RestoreSteps
  <1>5. /\ refresh'.at = IF to = "none" THEN "none" ELSE "asked"
        /\ to = "refreshing" => refresh'.current = read /\ refresh'.generation = generation /\ read # None
        /\ refresh' \in [at : RefreshSteps, generation : Nat, current : Token \cup {None}, next : Token \cup {None}]
    BY <1>2, <1>3 DEF TypeInv, RefreshSteps
  <1>6. \A q \in Restores : restore'[q].at # "none" =>
          /\ restore[q].at # "none" /\ restore'[q].generation = restore[q].generation
          /\ q # r => restore'[q] = restore[q]
    BY <1>1, <1>4
  <1>7. status' = status \/ (status # "free" /\ to = "none" /\ status' = IF read = None THEN "signedOut" ELSE "signedIn")
    BY <1>3 DEF Answer
  <1>8. TypeOK'
    <2>1. \A q \in Restores : /\ restore'[q].at \in RestoreSteps /\ restore'[q].read \in Token \cup {None}
                              /\ restore'[q].at = "refreshing" => refresh'.at # "none"
      BY <1>2, <1>4, <1>5 DEF TypeOK
    <2>2. refresh'.at \in RefreshSteps /\ (refresh'.at # "none" => refresh'.current \in Token)
      BY <1>2, <1>5
    <2>3. QED
      BY <1>1, <1>2, <1>7, <2>1, <2>2 DEF TypeOK, Statuses, RestoreSteps, RefreshSteps
  <1>9. TypeInv'
    BY <1>1, <1>4, <1>5 DEF TypeInv, NoRestore
  <1>10. GenerationInv'
    BY <1>1, <1>2, <1>5, <1>6 DEF GenerationInv
  <1>11. AccountInv'
    BY <1>1, <1>2, <1>4, <1>5 DEF AccountInv, NoRestore
  <1>12. RestoreInv'
    <2>1. ASSUME NEW q \in Restores, Pending(q)', restore'[q].generation = generation'
          PROVE  FALSE
      BY <1>1, <1>4, <1>6, <2>1 DEF GenerationInv, Pending
    <2>2. QED
      BY <2>1 DEF RestoreInv
  <1>13. SignInInv' /\ SignOutInv'
    BY <1>1, <1>2 DEF SignInInv, SignOutInv
  <1>14. RefreshInv' /\ LeftInv' /\ DeadStaysDead'
    BY <1>1, <1>2, <1>5 DEF RefreshInv, LeftInv, DeadStaysDead
  <1>15. EvidenceIsOwn'
    BY <1>1, <1>2 DEF EvidenceIsOwn
  <1>16. ControlInv'
    <2> SUFFICES ASSUME status' # "free"
                 PROVE  ControlInv'
      BY DEF ControlInv
    <2>1. /\ status = "restoring" /\ read = store
          /\ \A q \in Restores : restore[q].at # "none" => q = r
      BY <1>1, <1>7 DEF ControlInv
    <2>2. \A q \in Restores : restore'[q].at # "none" => q = r /\ to = "refreshing"
      BY <1>4, <1>6, <2>1
    <2>3. status' = IF to = "refreshing" THEN "restoring" ELSE IF read = None THEN "signedOut" ELSE "signedIn"
      BY <1>3, <2>1 DEF Answer
    <2>4. QED
      BY <1>1, <1>2, <1>4, <1>5, <2>1, <2>2, <2>3 DEF ControlInv, Newest
  <1>17. QED
    BY <1>8, <1>9, <1>10, <1>11, <1>12, <1>13, <1>14, <1>15, <1>16

-----------------------------------------------------------------------------
(* signIn *)

\* A sign-in goes on or ends without touching the tokens in memory.
LEMMA SignInMoves ==
  ASSUME IInv, NEW from \in SignInSteps \ {"none"}, NEW to \in SignInSteps \ {"refresh"}, SignInAt(from, to),
         UNCHANGED <<tokens, generation, restore, signOut, refresh, waiting, calls, accounts, dead>>,
         store' \in {store, None}, cleanupRequired' \in BOOLEAN,
         cleanupRequired' \/ cleanupRequired' = cleanupRequired \/ store' = None,
         from = "unsaving" => cleanupRequired' \/ store' = None,
         status' = status \/ (status # "free" /\ to = "none" /\ status' \in {"signedOut", "failed"}),
         status # "free" => (to = "none" <=> status' # status),
         from = "refresh" => refresh.at = "none",
         Newest => /\ to = "saving" => from = "authorizing"
                   /\ to = "authorizing" \/ status' = "signedOut" => store' \notin dead
                   /\ to = "clearing" => from = "refresh"
                   /\ to = "authorizing" => from \in {"refresh", "clearing"},
         to # "unsaving"
  PROVE  IInv'
  <1> USE DEF IInv
  <1>1. /\ signIn.at = from /\ signIn'.at = to
        /\ to # "none" => signIn'.generation = signIn.generation /\ signIn'.tokens = signIn.tokens
        /\ to = "none" => signIn'.tokens = None
        /\ signIn' \in [at : SignInSteps, generation : Nat, tokens : Token \cup {None}]
    BY SignInAtFacts
  <1>2. /\ None \notin Token /\ dead \subseteq Token /\ tokens = None
        /\ refresh.at # "none" => from = "refresh"
    BY <1>1, TokenFacts DEF TypeOK, SignInInv
  <1>3. TypeOK' /\ TypeInv'
    <2>1. status' \in Statuses \cup {"free"} /\ store' \in Token \cup {None, Corrupt}
      BY DEF TypeOK, Statuses
    <2>2. signIn'.at \in SignInSteps /\ signIn'.tokens \in Token \cup {None}
      BY <1>1
    <2>3. TypeOK'
      BY <2>1, <2>2 DEF TypeOK, SignInSteps
    <2>4. QED
      BY <1>1, <2>3 DEF TypeInv
  <1>4. GenerationInv' /\ AccountInv'
    BY <1>1, <1>2 DEF GenerationInv, AccountInv
  <1>5. RestoreInv'
    BY <1>1, <1>2 DEF RestoreInv, Pending
  <1>6. SignInInv'
    BY <1>1, <1>2 DEF SignInInv, Newest
  <1>7. SignOutInv' /\ RefreshInv' /\ DeadStaysDead' /\ EvidenceIsOwn'
    BY DEF SignOutInv, RefreshInv, DeadStaysDead, EvidenceIsOwn
  <1>8. LeftInv'
    BY <1>1, <1>2 DEF LeftInv
  <1>9. ControlInv'
    BY <1>1, <1>2 DEF ControlInv, Newest
  <1>10. QED
    BY <1>3, <1>4, <1>5, <1>6, <1>7, <1>8, <1>9

LEMMA SignInKeeps ==
  ASSUME IInv, SignInAwaitsRefresh \/ SignInClears \/ SignInAuthorized \/ SignInUnsaves \/ SignInClearsUp
  PROVE  IInv'
  <1>1. /\ cleanupRequired \in BOOLEAN /\ None \notin dead /\ signIn.at \in SignInSteps
        /\ signIn.at # "none" => tokens = None
        /\ status # "free" /\ signIn.at # "none" => status = "signingIn" /\ Newest /\ signOut = "none"
        /\ Newest /\ signIn.at \in {"authorizing", "saving"} => store \notin dead
        /\ Newest => signIn.at # "unsaving"
    BY TokenFacts DEF IInv, TypeOK, TypeInv, SignInInv, ControlInv
  <1>2. CASE SignInAwaitsRefresh
    <2> DEFINE to == IF Newest /\ signOut = "none"
                     THEN IF cleanupRequired THEN "clearing" ELSE "authorizing"
                     ELSE "none"
    <2>1. /\ SignInAt("refresh", to) /\ ~AwaitsRefresh(signIn.generation)
          /\ Continue(~Newest \/ signOut # "none", "signedOut")
          /\ UNCHANGED <<tokens, store, generation, cleanupRequired, restore, signOut, refresh, waiting,
                         calls, accounts, dead>>
      BY <1>2 DEF SignInAwaitsRefresh, counts
    <2>2. signIn.at = "refresh"
      BY <2>1 DEF SignInAt
    <2>3. refresh.at = "none"
      BY <2>1, <2>2 DEF IInv, SignInInv, AwaitsRefresh
    <2>4. ~cleanupRequired => store \notin dead
      BY <2>2, <2>3 DEF IInv, LeftInv
    <2>5. /\ status' = status \/ (status # "free" /\ to = "none" /\ status' \in {"signedOut", "failed"})
          /\ status # "free" => to # "none" /\ status' = status
      BY <1>1, <2>1, <2>2 DEF Continue, Answer
    <2>6. /\ to \in SignInSteps \ {"refresh"} /\ to \in {"none", "clearing", "authorizing"}
          /\ to = "authorizing" => ~cleanupRequired
          /\ "refresh" \in SignInSteps \ {"none"}
      BY DEF SignInSteps
    <2>7. status' # "signedOut"
      BY <2>5, <1>1, <2>2 DEF IInv, TypeOK, Statuses
    <2> HIDE DEF to
    <2>8. QED
      BY <1>1, <2>1, <2>3, <2>4, <2>5, <2>6, <2>7, SignInMoves
  <1>3. CASE SignInClears
    <2>1. PICK ok \in BOOLEAN : /\ ClearContaminated(ok)
                                /\ SignInAt("clearing", IF ok THEN "authorizing" ELSE "none")
                                /\ Continue(~ok, "failed")
      BY <1>3 DEF SignInClears
    <2> DEFINE to == IF ok THEN "authorizing" ELSE "none"
    <2>2. /\ SignInAt("clearing", to) /\ Continue(~ok, "failed")
          /\ store' \in {store, None} /\ (ok => store' = None) /\ cleanupRequired' = ~ok
          /\ UNCHANGED <<tokens, generation, restore, signOut, refresh, waiting, calls, accounts, dead>>
      BY <1>3, <2>1 DEF SignInClears, ClearContaminated, ClearStore
    <2>3. signIn.at = "clearing"
      BY <2>2 DEF SignInAt
    <2>4. /\ status' = status \/ (status # "free" /\ to = "none" /\ status' = "failed")
          /\ status # "free" => (to = "none" <=> status' # status)
          /\ status' # "signedOut"
      BY <1>1, <2>2, <2>3 DEF Continue, Answer, IInv, TypeOK, Statuses
    <2>5. /\ to \in SignInSteps \ {"refresh"} /\ to \in {"none", "authorizing"} /\ (to = "authorizing" => ok)
          /\ "clearing" \in SignInSteps \ {"none"}
      BY DEF SignInSteps
    <2> HIDE DEF to
    <2>6. QED
      BY <1>1, <2>2, <2>4, <2>5, SignInMoves
  <1>4. CASE SignInAuthorized
    <2>1. /\ signIn.at = "authorizing"
          /\ UNCHANGED <<tokens, store, generation, cleanupRequired, restore, signOut, refresh, waiting,
                         calls, accounts, dead>>
      BY <1>4 DEF SignInAuthorized, SignInAt, counts
    <2>2. CASE SignInAt("authorizing", "none") /\ \E to \in {"signedOut", "failed"} : Answer(to)
      <3>1. /\ status' = status \/ (status # "free" /\ status' \in {"signedOut", "failed"})
            /\ status # "free" => status' # status
        BY <1>1, <2>1, <2>2 DEF Answer
      <3>2. QED
        BY <1>1, <2>1, <2>2, <3>1, SignInMoves DEF SignInSteps
    <2>3. CASE Newest /\ SignInAt("authorizing", "saving") /\ UNCHANGED status
      <3>1. Newest => status # "signedOut"
        BY <1>1, <2>1 DEF IInv, TypeOK, Statuses
      <3>2. QED
        BY <1>1, <2>1, <2>3, <3>1, SignInMoves DEF SignInSteps
    <2>4. QED
      BY <1>4, <2>2, <2>3 DEF SignInAuthorized
  <1>5. CASE SignInUnsaves
    <2>1. /\ signIn.at = "unsaving" /\ ~Newest
          /\ UNCHANGED <<generation, restore, signOut, refresh, waiting, calls, accounts, dead>>
      BY <1>1, <1>5 DEF SignInUnsaves, SignInAt
    <2>2. PICK ok \in BOOLEAN :
            /\ ClearStore(ok)
            /\ \/ ok /\ SignInAt("unsaving", "none") /\ Answer("signedOut") /\ UNCHANGED <<tokens, cleanupRequired>>
               \/ ~ok /\ SignInAt("unsaving", "clearingUp") /\ UNCHANGED status
                  /\ tokens' = None /\ cleanupRequired' = TRUE
      BY <1>5 DEF SignInUnsaves
    <2>3. store' \in {store, None} /\ (ok => store' = None) /\ tokens' = tokens
      BY <1>1, <2>1, <2>2 DEF ClearStore
    <2>4. CASE ok
      <3>1. SignInAt("unsaving", "none") /\ Answer("signedOut") /\ UNCHANGED cleanupRequired
        BY <2>2, <2>4
      <3>2. status = "free" /\ status' = status
        BY <1>1, <2>1, <3>1 DEF Answer
      <3>3. QED
        BY <1>1, <2>1, <2>3, <2>4, <3>1, <3>2, SignInMoves DEF SignInSteps
    <2>5. CASE ~ok
      BY <1>1, <2>1, <2>2, <2>3, <2>5, SignInMoves DEF SignInSteps
    <2>6. QED
      BY <2>4, <2>5
  <1>6. CASE SignInClearsUp
    <2>1. PICK ok \in BOOLEAN : ClearContaminated(ok)
      BY <1>6 DEF SignInClearsUp
    <2>2. /\ SignInAt("clearingUp", "none") /\ Answer("failed") /\ signIn.at = "clearingUp"
          /\ store' \in {store, None} /\ (ok => store' = None) /\ cleanupRequired' = ~ok
          /\ UNCHANGED <<tokens, generation, restore, signOut, refresh, waiting, calls, accounts, dead>>
      BY <1>6, <2>1 DEF SignInClearsUp, ClearContaminated, ClearStore, SignInAt
    <2>3. /\ status' = status \/ (status # "free" /\ status' = "failed")
          /\ status # "free" => status' # status
          /\ status' # "signedOut"
      BY <1>1, <2>2 DEF Answer, IInv, TypeOK, Statuses
    <2>4. QED
      BY <1>1, <2>2, <2>3, SignInMoves DEF SignInSteps
  <1>7. QED
    BY <1>2, <1>3, <1>4, <1>5, <1>6

LEMMA CallSignInKeeps ==
  ASSUME IInv, CallSignIn
  PROVE  IInv'
  <1> DEFINE new == [account |-> accounts + 1, version |-> 0]
  <1> USE DEF IInv
  <1>1. /\ signIn.at = "none" /\ signOut = "none" /\ tokens' = None
        /\ generation' = generation + 1 /\ calls' = calls + 1 /\ calls < MaxCalls /\ accounts' = accounts + 1
        /\ signIn' = [at |-> "refresh", generation |-> generation + 1, tokens |-> new]
        /\ status \in {"signedOut", "failed", "free"}
        /\ status' = IF status = "free" THEN "free" ELSE "signingIn"
        /\ UNCHANGED <<store, cleanupRequired, restore, signOut, refresh, waiting, dead>>
    BY DEF CallSignIn, Called
  <1>2. /\ generation \in Nat /\ generation <= 2 * calls /\ calls \in 0..MaxCalls /\ MaxCalls \in Nat
        /\ accounts \in 0..calls /\ None \notin Token /\ dead \subseteq Token
    BY TokenFacts, ConstantsAssumption DEF TypeInv, TypeOK
  <1>3. new \in Token /\ new.account = accounts + 1
    BY <1>1, <1>2, ConstantsAssumption DEF Token
  <1> HIDE DEF new
  <1>4. /\ signIn'.at = "refresh" /\ signIn'.generation = generation + 1 /\ signIn'.tokens = new
        /\ signIn' \in [at : SignInSteps, generation : Nat, tokens : Token \cup {None}]
    BY <1>1, <1>2, <1>3 DEF SignInSteps
  <1>5. new \notin dead
    BY <1>2, <1>3 DEF AccountInv
  <1>6. TypeOK'
    <2>1. generation' \in 0..2 * MaxCalls
      BY <1>1, <1>2
    <2>2. QED
      BY <1>1, <1>3, <1>4, <2>1 DEF TypeOK, Statuses
  <1>7. TypeInv'
    BY <1>1, <1>2, <1>4 DEF TypeInv
  <1>8. GenerationInv'
    BY <1>1, <1>2, <1>4 DEF GenerationInv, TypeInv
  <1>9. AccountInv'
    <2>1. \A t \in {store} \cup dead : t \in Token => t.account <= accounts + 1
      BY <1>2, TokenFacts DEF AccountInv
    <2>2. \A r \in Restores : restore[r].read # None => restore[r].read.account <= accounts + 1
      BY <1>2, TokenFacts, RestoreFacts DEF AccountInv
    <2>3. refresh.at # "none" => refresh.current # None /\ refresh.current.account <= accounts + 1
      BY <1>2, TokenFacts DEF AccountInv, TypeOK
    <2>4. new # None
      BY <1>2, <1>3
    <2>5. QED
      BY <1>1, <1>2, <1>3, <1>4, <2>1, <2>2, <2>3, <2>4 DEF AccountInv
  <1>10. RestoreInv'
    <2>1. \A r \in Restores : Pending(r) => restore[r].generation # generation'
      BY <1>1, <1>2 DEF GenerationInv, Pending
    <2>2. QED
      BY <1>1, <2>1 DEF RestoreInv, Pending
  <1>11. SignInInv'
    <2>1. refresh.at # "none" => refresh.generation < generation + 1 /\ refresh.current.account < accounts + 1
      BY <1>2, TokenFacts DEF GenerationInv, AccountInv, TypeOK, TypeInv
    <2>2. QED
      BY <1>1, <1>4, <1>5, <2>1 DEF SignInInv, Newest
  <1>12. SignOutInv' /\ RefreshInv' /\ DeadStaysDead' /\ EvidenceIsOwn'
    BY <1>1, <1>2 DEF SignOutInv, RefreshInv, DeadStaysDead, EvidenceIsOwn
  <1>13. LeftInv'
    BY <1>1 DEF LeftInv
  <1>14. ControlInv'
    <2> SUFFICES ASSUME status' # "free"
                 PROVE  ControlInv'
      BY DEF ControlInv
    <2>1. /\ status \in {"signedOut", "failed"} /\ status' = "signingIn" /\ refresh.at = "none"
          /\ \A r \in Restores : restore[r].at = "none"
      BY <1>1 DEF ControlInv
    <2>2. QED
      BY <1>1, <1>4, <2>1 DEF ControlInv, Newest
  <1>15. QED
    BY <1>6, <1>7, <1>8, <1>9, <1>10, <1>11, <1>12, <1>13, <1>14

\* The tokens of the browser are saved, and taken over, or given up.
LEMMA SignInSavesKeeps ==
  ASSUME IInv, SignInSaves
  PROVE  IInv'
  <1> DEFINE new == signIn.tokens
  <1> USE DEF IInv
  <1>1. /\ signIn.at = "saving" /\ tokens = None /\ refresh.at = "none" /\ new \in Token /\ new.account = accounts
        /\ Newest => new \notin dead /\ signOut = "none"
        /\ None \notin Token /\ Corrupt \notin Token /\ Corrupt # None
        /\ dead \subseteq Token /\ store \in Token \cup {None, Corrupt}
        /\ accounts \in Nat /\ generation \in Nat /\ signIn.generation \in Nat
        /\ UNCHANGED <<generation, restore, signOut, refresh, waiting, calls, accounts>>
    BY TokenFacts DEF SignInSaves, SignInInv, GenerationInv, AccountInv, TypeInv, TypeOK, Newest
  <1>2. PICK ok \in BOOLEAN :
          /\ SaveStore(new, ok)
          /\ dead' = dead \cup IF ok /\ Newest THEN {t \in Token : t.account < new.account} ELSE AllOf({new})
          /\ \/ ok /\ Newest /\ SignInAt("saving", "none")
                /\ tokens' = new /\ cleanupRequired' = FALSE /\ Answer("signedIn")
             \/ ok /\ ~Newest /\ SignInAt("saving", "unsaving") /\ UNCHANGED <<status, tokens, cleanupRequired>>
             \/ ~ok /\ SignInAt("saving", "clearingUp") /\ UNCHANGED status
                /\ tokens' = None /\ cleanupRequired' = TRUE
    BY DEF SignInSaves
  <1>3. \A r \in Restores : Pending(r) /\ restore[r].generation = generation =>
          restore[r].at = "signIn" /\ ~Newest
    BY <1>1 DEF RestoreInv, GenerationInv, Pending, Newest
  <1>4. \A t \in dead' : t \in Token /\ t.account <= accounts
    <2>1. \A t \in dead : t \in Token /\ t.account <= accounts
      BY <1>1 DEF AccountInv
    <2>2. \A t \in AllOf({new}) : t \in Token /\ t.account = accounts
      BY <1>1, AllOfFacts
    <2>3. \A t \in Token : t.account < new.account => t.account <= accounts
      BY <1>1, TokenFacts
    <2>4. QED
      BY <1>1, <1>2, <2>1, <2>2, <2>3
  <1>5. \A t \in dead', u \in Token : u.account = t.account => u \in dead'
    <2>1. \A t \in dead, u \in Token : u.account = t.account => u \in dead
      BY DEF AccountInv
    <2>2. \A t \in AllOf({new}), u \in Token : u.account = t.account => u \in AllOf({new})
      BY <1>1, AllOfFacts
    <2>3. QED
      BY <1>2, <2>1, <2>2
  <1>6. CASE ok /\ Newest
    <2>1. /\ SignInAt("saving", "none") /\ tokens' = new /\ cleanupRequired' = FALSE /\ Answer("signedIn")
          /\ store' = new
      BY <1>2, <1>6 DEF SaveStore
    <2>2. signIn' = NoSignIn /\ signIn'.at = "none" /\ signIn'.tokens = None
      BY <2>1 DEF SignInAt, NoSignIn
    <2>3. new \notin dead'
      BY <1>1, <1>2, <1>6
    <2>4. status' = IF status = "free" THEN "free" ELSE "signedIn"
      BY <2>1 DEF Answer
    <2>5. TypeOK'
      BY <1>1, <1>4, <2>1, <2>2, <2>4 DEF TypeOK, Statuses
    <2>6. TypeInv'
      BY <1>1, <2>2 DEF TypeInv, NoSignIn, SignInSteps
    <2>7. GenerationInv' /\ AccountInv'
      BY <1>1, <1>4, <1>5, <2>1, <2>2 DEF GenerationInv, AccountInv
    <2>8. RestoreInv'
      BY <1>1, <1>3, <1>6 DEF RestoreInv, Pending
    <2>9. SignInInv' /\ SignOutInv' /\ RefreshInv' /\ EvidenceIsOwn' /\ LeftInv' /\ DeadStaysDead'
      BY <1>1, <1>6, <2>1, <2>2, <2>3 DEF SignInInv, SignOutInv, RefreshInv, EvidenceIsOwn, LeftInv, DeadStaysDead
    <2>10. ControlInv'
      BY <1>1, <2>1, <2>2, <2>4 DEF ControlInv
    <2>11. QED
      BY <2>5, <2>6, <2>7, <2>8, <2>9, <2>10
  <1>7. CASE ~(ok /\ Newest)
    <2>1. PICK to \in {"unsaving", "clearingUp"} :
            /\ SignInAt("saving", to) /\ status' = status /\ tokens' = None
            /\ store' \in {store, new}
            /\ to = "unsaving" => ~Newest /\ cleanupRequired' = cleanupRequired
            /\ to = "clearingUp" => cleanupRequired' = TRUE
      BY <1>1, <1>2, <1>7 DEF SaveStore
    <2>2. /\ signIn'.at = to /\ signIn'.generation = signIn.generation /\ signIn'.tokens = new
          /\ signIn' \in [at : SignInSteps, generation : Nat, tokens : Token \cup {None}]
      BY <2>1, SignInAtFacts DEF SignInSteps
    <2>3. TypeOK'
      BY <1>1, <1>4, <2>1, <2>2 DEF TypeOK
    <2>4. TypeInv'
      BY <1>1, <2>1, <2>2 DEF TypeInv
    <2>5. GenerationInv' /\ AccountInv'
      BY <1>1, <1>4, <1>5, <2>1, <2>2 DEF GenerationInv, AccountInv
    <2>6. RestoreInv'
      BY <1>1, <1>3, <2>1, <2>2 DEF RestoreInv, Pending
    <2>7. SignInInv' /\ SignOutInv' /\ RefreshInv' /\ EvidenceIsOwn' /\ LeftInv'
      BY <1>1, <2>1, <2>2 DEF SignInInv, SignOutInv, RefreshInv, EvidenceIsOwn, LeftInv, Newest
    <2>8. DeadStaysDead'
      BY <1>1, <1>4, <2>1 DEF DeadStaysDead
    <2>9. ControlInv'
      BY <1>1, <2>1, <2>2 DEF ControlInv, Newest, Statuses
    <2>10. QED
      BY <2>3, <2>4, <2>5, <2>6, <2>7, <2>8, <2>9
  <1>8. QED
    BY <1>6, <1>7

-----------------------------------------------------------------------------
(* signOut *)

LEMMA CallSignOutKeeps ==
  ASSUME IInv, CallSignOut
  PROVE  IInv'
  <1> DEFINE gone == AllOf({tokens, store, signIn.tokens})
  <1> USE DEF IInv
  <1>1. /\ signOut = "none" /\ signOut' = "clearing" /\ tokens' = None /\ cleanupRequired' = TRUE
        /\ generation' = generation + 1 /\ calls' = calls + 1 /\ calls < MaxCalls
        /\ dead' = dead \cup gone
        /\ status \in {"signedIn", "free"}
        /\ status' = IF status = "free" THEN "free" ELSE "signingOut"
        /\ UNCHANGED <<store, restore, signIn, refresh, waiting, accounts>>
    BY DEF CallSignOut, Called
  <1>2. /\ generation \in Nat /\ generation <= 2 * calls /\ calls \in 0..MaxCalls /\ MaxCalls \in Nat
        /\ accounts \in 0..calls /\ None \notin Token /\ Corrupt \notin Token /\ dead \subseteq Token
        /\ tokens \in Token \cup {None} /\ store \in Token \cup {None, Corrupt}
        /\ signIn.tokens \in Token \cup {None}
    BY TokenFacts, ConstantsAssumption DEF TypeInv, TypeOK
  <1>3. \A t \in dead' : t \in Token /\ t.account <= accounts
    <2>1. \A t \in {tokens, store, signIn.tokens} : t \in Token => t.account <= accounts
      BY <1>2 DEF AccountInv, TypeInv
    <2>2. \A t \in gone : t \in Token /\ t.account <= accounts
      BY <1>2, <2>1, AllOfFacts
    <2>3. QED
      BY <1>1, <1>2, <2>2 DEF AccountInv
  <1>4. \A t \in dead', u \in Token : u.account = t.account => u \in dead'
    <2>1. \A t \in gone, u \in Token : u.account = t.account => u \in gone
      BY AllOfFacts
    <2>2. QED
      BY <1>1, <2>1 DEF AccountInv
  <1> HIDE DEF gone
  <1>5. TypeOK'
    <2>1. generation' \in 0..2 * MaxCalls
      BY <1>1, <1>2
    <2>2. QED
      BY <1>1, <1>3, <2>1 DEF TypeOK, Statuses
  <1>6. TypeInv' /\ GenerationInv'
    BY <1>1, <1>2 DEF TypeInv, GenerationInv
  <1>7. AccountInv'
    BY <1>1, <1>2, <1>3, <1>4 DEF AccountInv
  <1>8. \A r \in Restores : restore[r].at # "none" => restore[r].generation # generation'
    BY <1>1, <1>2 DEF GenerationInv
  <1>9. signIn.at # "none" => ~Newest'
    BY <1>1, <1>2 DEF GenerationInv, Newest
  <1>10. RestoreInv' /\ SignInInv'
    BY <1>1, <1>8, <1>9 DEF RestoreInv, Pending, SignInInv
  <1>11. SignOutInv' /\ RefreshInv' /\ EvidenceIsOwn' /\ LeftInv'
    BY <1>1 DEF SignOutInv, RefreshInv, EvidenceIsOwn, LeftInv
  <1>12. DeadStaysDead'
    BY <1>1, <1>2, <1>3 DEF DeadStaysDead
  <1>13. ControlInv'
    BY <1>1 DEF ControlInv
  <1>14. QED
    BY <1>5, <1>6, <1>7, <1>10, <1>11, <1>12, <1>13

LEMMA SignOutKeeps ==
  ASSUME IInv, SignOutGoesOn
  PROVE  IInv'
  <1> USE DEF IInv
  <1>1. /\ signOut # "none" /\ tokens = None /\ None \notin dead /\ cleanupRequired \in BOOLEAN
        /\ generation \in Nat /\ generation <= 2 * calls /\ calls \in 0..MaxCalls /\ MaxCalls \in Nat
        /\ UNCHANGED <<restore, signIn, refresh, waiting, calls, accounts, dead>>
        /\ \A r \in Restores : Pending(r) /\ restore[r].generation = generation =>
              restore[r].at \in {"signIn", "refresh"}
        /\ signIn.at # "none" => ~Newest
    BY TokenFacts, ConstantsAssumption
    DEF SignOutGoesOn, SignOutClears, SignOutAwaitsSignIn, SignOutAwaitsRefresh, SignOutClearsAgain, SignOutInv,
        TypeInv, TypeOK, RestoreInv, GenerationInv, Newest, counts
  <1>2. CASE SignOutAwaitsRefresh
    <2>1. /\ signOut = "refresh" /\ refresh.at = "none" /\ signOut' = "clearingAgain"
          /\ generation' = generation + 1 /\ tokens' = None /\ UNCHANGED <<status, store, cleanupRequired>>
      BY <1>2 DEF SignOutAwaitsRefresh
    <2>2. generation' \in 0..2 * MaxCalls /\ generation' <= 2 * calls
      BY <1>1, <2>1 DEF TypeInv
    <2>3. \A r \in Restores : restore[r].at # "none" => restore[r].generation # generation'
      BY <1>1, <2>1 DEF GenerationInv
    <2>4. signIn.at # "none" => ~Newest'
      BY <1>1, <2>1 DEF GenerationInv, Newest
    <2>5. TypeOK' /\ TypeInv' /\ AccountInv'
      BY <1>1, <2>1, <2>2 DEF TypeOK, TypeInv, AccountInv
    <2>6. GenerationInv'
      BY <1>1, <2>1 DEF GenerationInv, TypeInv
    <2>7. RestoreInv' /\ SignInInv'
      BY <1>1, <2>1, <2>3, <2>4 DEF RestoreInv, Pending, SignInInv
    <2>8. SignOutInv' /\ RefreshInv' /\ EvidenceIsOwn' /\ LeftInv' /\ DeadStaysDead' /\ ControlInv'
      BY <1>1, <2>1, <2>3 DEF SignOutInv, RefreshInv, EvidenceIsOwn, LeftInv, DeadStaysDead, ControlInv, Newest
    <2>9. QED
      BY <2>5, <2>6, <2>7, <2>8
  <1>3. CASE ~SignOutAwaitsRefresh
    <2>1. /\ UNCHANGED <<tokens, generation>>
          /\ store' \in {store, None}
          /\ signOut' \in {"none", "signIn", "refresh"}
          /\ signOut' # "none" => cleanupRequired' = cleanupRequired /\ status' = status
          /\ signOut' = "none" =>
               /\ refresh.at = "none" /\ cleanupRequired' \in BOOLEAN /\ (cleanupRequired' \/ store' = None)
               /\ status' = status \/ (status # "free" /\ status' \in {"signedOut", "failed"})
               /\ status # "free" => status' \in {"signedOut", "failed"}
               /\ status' = "signedOut" => status = "signedOut" \/ store' = None
      BY <1>1, <1>3
      DEF SignOutGoesOn, SignOutClears, SignOutAwaitsSignIn, SignOutClearsAgain, ClearStore, ClearContaminated,
          Answer, SignOutInv, counts
    <2>2. signOut' \in {"signIn", "refresh"} => generation < 2 * calls
      BY <1>1, <1>3
      DEF SignOutGoesOn, SignOutClears, SignOutAwaitsSignIn, SignOutClearsAgain, TypeInv
    <2>3. TypeOK' /\ TypeInv'
      BY <1>1, <2>1, <2>2 DEF TypeOK, TypeInv, Statuses
    <2>4. GenerationInv' /\ AccountInv'
      BY <1>1, <2>1, TokenFacts DEF GenerationInv, AccountInv
    <2>5. RestoreInv' /\ SignInInv'
      BY <1>1, <2>1 DEF RestoreInv, Pending, SignInInv, Newest
    <2>6. SignOutInv' /\ RefreshInv' /\ EvidenceIsOwn' /\ LeftInv' /\ DeadStaysDead'
      BY <1>1, <2>1 DEF SignOutInv, RefreshInv, EvidenceIsOwn, LeftInv, DeadStaysDead
    <2>7. ControlInv'
      BY <1>1, <2>1 DEF ControlInv, Newest
    <2>8. QED
      BY <2>3, <2>4, <2>5, <2>6, <2>7
  <1>4. QED
    BY <1>2, <1>3

-----------------------------------------------------------------------------
(* authenticationEvidence and _refresh *)

LEMMA CallEvidenceKeeps ==
  ASSUME IInv, NEW c \in Callers, CallEvidence(c)
  PROVE  IInv'
  <1> USE DEF IInv
  <1>1. /\ status \in {"free", "signedIn"} /\ tokens # None
        /\ waiting' = [waiting EXCEPT ![c] = tokens]
        /\ refresh' = IF refresh.at # "none" THEN refresh
                      ELSE [at |-> "asked", generation |-> generation, current |-> tokens, next |-> None]
        /\ UNCHANGED <<status, tokens, store, generation, cleanupRequired, restore, signIn, signOut,
                       calls, accounts, dead>>
    BY DEF CallEvidence, JoinRefresh, counts
  <1>2. /\ tokens \in Token /\ generation \in Nat /\ signIn.at = "none" /\ signOut = "none"
        /\ \A r \in Restores : Pending(r) => restore[r].generation # generation
        /\ tokens.account <= accounts
    BY <1>1 DEF TypeOK, TypeInv, SignInInv, SignOutInv, RestoreInv, AccountInv
  <1>3. /\ refresh'.at # "none" /\ refresh'.current = tokens /\ refresh'.generation <= generation
        /\ refresh' \in [at : RefreshSteps, generation : Nat, current : Token \cup {None}, next : Token \cup {None}]
        /\ refresh'.generation # generation \/ refresh'.at \in {"unsaving", "clearingUp"} => tokens = None
        /\ refresh'.at = "saving" => refresh'.next # None /\ refresh'.next.account = tokens.account
    <2>1. CASE refresh.at # "none"
      BY <1>1, <1>2, <2>1 DEF RefreshInv, GenerationInv, TypeInv, AccountInv
    <2>2. CASE refresh.at = "none"
      BY <1>1, <1>2, <2>2 DEF RefreshSteps
    <2>3. QED
      BY <2>1, <2>2
  <1>4. waiting' \in [Callers -> Token \cup {None}]
    BY <1>1, <1>2 DEF TypeOK
  <1>5. TypeOK'
    <2>1. refresh'.at \in RefreshSteps
      BY <1>3
    <2>2. QED
      BY <1>1, <1>2, <1>3, <1>4, <2>1 DEF TypeOK, RefreshSteps
  <1>6. TypeInv' /\ GenerationInv' /\ AccountInv'
    BY <1>1, <1>2, <1>3 DEF TypeInv, GenerationInv, AccountInv
  <1>7. RestoreInv' /\ SignInInv' /\ SignOutInv' /\ RefreshInv'
    BY <1>1, <1>2, <1>3 DEF RestoreInv, Pending, SignInInv, SignOutInv, RefreshInv
  <1>8. LeftInv' /\ DeadStaysDead' /\ ControlInv'
    BY <1>1, <1>2 DEF LeftInv, DeadStaysDead, ControlInv, Newest
  <1>9. EvidenceIsOwn'
    <2> SUFFICES ASSUME NEW d \in Callers, waiting'[d] # None
                 PROVE  refresh'.at # "none" /\ refresh'.current.account = waiting'[d].account
      BY DEF EvidenceIsOwn
    <2>1. CASE d = c
      BY <1>1, <1>3, <2>1 DEF TypeOK
    <2>2. CASE d # c
      BY <1>1, <2>2 DEF TypeOK, EvidenceIsOwn
    <2>3. QED
      BY <2>1, <2>2
  <1>10. QED
    BY <1>5, <1>6, <1>7, <1>8, <1>9

\* The refresh ends, and who waits for it goes on.
LEMMA RefreshEnds ==
  ASSUME IInv, refresh.at # "none", NEW succeeds \in BOOLEAN, EndRefresh(succeeds),
         UNCHANGED <<generation, signIn, signOut, calls, accounts, dead>>,
         cleanupRequired' \in BOOLEAN,
         tokens' \in Token \cup {None}, tokens' \notin dead,
         tokens' # None => tokens # None /\ tokens'.account <= accounts /\ (status # "free" => store' = tokens'),
         store' \in Token \cup {None, Corrupt}, store' \in Token => store'.account <= accounts,
         store' \in dead => cleanupRequired' \/ signIn.at = "unsaving"
  PROVE  IInv'
  <1> USE DEF IInv
  <1>1. /\ None \notin Token /\ Corrupt \notin Token /\ dead \subseteq Token
        /\ signIn.at # "none" => signIn.at = "refresh"
        /\ \A r \in Restores : Pending(r) /\ restore[r].generation = generation =>
              restore[r].at \in {"signIn", "refresh"}
    BY TokenFacts DEF SignInInv, RestoreInv, TypeOK
  <1>2. /\ refresh' = NoRefresh /\ refresh'.at = "none"
        /\ refresh' \in [at : RefreshSteps, generation : Nat, current : Token \cup {None}, next : Token \cup {None}]
        /\ waiting' = [c \in Callers |-> None]
    BY DEF EndRefresh, NoRefresh, RefreshSteps
  <1>3. \A r \in Restores :
          restore'[r] = IF restore[r].at = "refreshing" THEN NoRestore ELSE restore[r]
    BY DEF EndRefresh
  <1>4. \A r \in Restores :
          /\ restore'[r].at # "refreshing"
          /\ restore'[r].at # "none" => restore'[r] = restore[r] /\ restore[r].at # "none"
          /\ restore'[r].read # None => restore'[r] = restore[r]
          /\ Pending(r)' => Pending(r)
    BY <1>3 DEF NoRestore, Pending
  <1>5. \/ status' = status /\ (status # "free" => \A r \in Restores : restore[r].at # "refreshing")
        \/ /\ status # "free" /\ status' \in {"signedIn", "failed"}
           /\ \E r \in Restores : restore[r].at = "refreshing"
    BY DEF EndRefresh, Continue, Answer
  <1>6. TypeOK'
    <2>1. \A r \in Restores : /\ restore'[r].at \in RestoreSteps /\ restore'[r].read \in Token \cup {None}
                              /\ restore'[r].at # "refreshing"
      BY <1>3, <1>4 DEF TypeInv, NoRestore, RestoreSteps
    <2>2. status' \in Statuses \cup {"free"}
      BY <1>5 DEF TypeOK, Statuses
    <2>3. QED
      BY <1>2, <2>1, <2>2 DEF TypeOK, RestoreSteps
  <1>7. TypeInv'
    <2>1. restore' \in [Restores -> [at : RestoreSteps, generation : Nat, read : Token \cup {None}]]
      <3>1. NoRestore \in [at : RestoreSteps, generation : Nat, read : Token \cup {None}]
        BY DEF NoRestore, RestoreSteps
      <3>2. QED
        BY <3>1 DEF EndRefresh, TypeInv
    <2>2. \A r \in Restores : restore'[r].at \notin {"loaded", "refreshing"} => restore'[r].read = None
      BY <1>3 DEF TypeInv, NoRestore
    <2>3. QED
      BY <1>2, <2>1, <2>2 DEF TypeInv
  <1>8. GenerationInv'
    BY <1>2, <1>4 DEF GenerationInv
  <1>9. AccountInv'
    BY <1>1, <1>2, <1>4 DEF AccountInv
  <1>10. RestoreInv'
    BY <1>1, <1>2, <1>4 DEF RestoreInv, Pending
  <1>11. SignInInv' /\ SignOutInv' /\ RefreshInv' /\ LeftInv' /\ DeadStaysDead'
    BY <1>1, <1>2 DEF SignInInv, SignOutInv, RefreshInv, LeftInv, DeadStaysDead, Newest
  <1>12. EvidenceIsOwn'
    BY <1>2 DEF EvidenceIsOwn
  <1>13. ControlInv'
    <2> SUFFICES ASSUME status' # "free"
                 PROVE  ControlInv'
      BY DEF ControlInv
    <2>1. status # "free" /\ status \in {"restoring", "signedIn", "signingOut"}
      BY <1>5 DEF TypeOK, Statuses, ControlInv
    <2>2. \A r \in Restores : restore'[r].at # "loaded"
      BY <1>1, <1>4, <2>1 DEF ControlInv, Pending
    <2>3. \A r, q \in Restores : restore[r].at # "none" /\ restore[q].at # "none" => r = q
      BY <2>1 DEF ControlInv
    <2>4. CASE status' = status
      BY <1>2, <1>4, <2>1, <2>2, <2>4 DEF ControlInv, Newest
    <2>5. CASE status' \in {"signedIn", "failed"} /\ \E r \in Restores : restore[r].at = "refreshing"
      <3>1. status = "restoring" /\ \A r \in Restores : restore'[r].at = "none"
        BY <1>3, <1>4, <2>1, <2>3, <2>5 DEF ControlInv
      <3>2. QED
        BY <1>2, <2>1, <2>5, <3>1 DEF ControlInv
    <2>6. QED
      BY <1>5, <2>4, <2>5
  <1>14. QED
    BY <1>6, <1>7, <1>8, <1>9, <1>10, <1>11, <1>12, <1>13

\* A refresh whose tokens were not taken over gives up its account, and goes on.
LEMMA RefreshGivesUp ==
  ASSUME IInv, refresh.at \in {"saving", "unsaving"}, NEW to \in {"unsaving", "clearingUp"},
         refresh' = [refresh EXCEPT !.at = to],
         tokens' = None, to = "unsaving" => tokens = None,
         store' \in {store, None} \/ (refresh.at = "saving" /\ store' = refresh.next),
         dead' \in {dead, dead \cup AllOf({refresh.current})},
         cleanupRequired' = TRUE \/ (to = "unsaving" /\ cleanupRequired' = cleanupRequired),
         UNCHANGED <<status, generation, restore, signIn, signOut, waiting, calls, accounts>>
  PROVE  IInv'
  <1> USE DEF IInv
  <1>1. /\ None \notin Token /\ Corrupt \notin Token /\ dead \subseteq Token /\ accounts \in Nat
        /\ refresh.current \in Token /\ refresh.current.account <= accounts /\ refresh.current.account \in Nat
        /\ refresh.at = "saving" => refresh.next \in Token /\ refresh.next.account <= accounts
        /\ signIn.at # "none" => signIn.at = "refresh" /\ refresh.current.account < accounts
                                 /\ signIn.tokens \in Token /\ signIn.tokens.account = accounts
        /\ \A r \in Restores : Pending(r) /\ restore[r].generation = generation =>
              restore[r].at \in {"signIn", "refresh"}
    BY TokenFacts, ConstantsAssumption DEF SignInInv, RestoreInv, TypeOK, TypeInv, AccountInv
  <1>2. /\ refresh'.at = to /\ refresh'.generation = refresh.generation /\ refresh'.current = refresh.current
        /\ refresh' \in [at : RefreshSteps, generation : Nat, current : Token \cup {None}, next : Token \cup {None}]
    BY DEF TypeInv, RefreshSteps
  <1>3. /\ \A t \in dead' : t \in Token /\ t.account <= accounts
        /\ \A t \in dead', u \in Token : u.account = t.account => u \in dead'
        /\ \A t \in dead' : t \in dead \/ t.account = refresh.current.account
    <2>1. \A t \in AllOf({refresh.current}) : t \in Token /\ t.account = refresh.current.account
      BY AllOfFacts
    <2>2. \A t \in AllOf({refresh.current}), u \in Token :
            u.account = t.account => u \in AllOf({refresh.current})
      BY <1>1, <2>1, AllOfFacts
    <2>3. QED
      BY <1>1, <2>1, <2>2 DEF AccountInv
  <1>4. store' \in Token \cup {None, Corrupt} /\ (store' \in Token => store'.account <= accounts)
    BY <1>1 DEF TypeOK, AccountInv
  <1>5. TypeOK' /\ TypeInv'
    BY <1>1, <1>2, <1>3, <1>4 DEF TypeOK, TypeInv
  <1>6. GenerationInv' /\ AccountInv'
    BY <1>1, <1>2, <1>3, <1>4 DEF GenerationInv, AccountInv
  <1>7. RestoreInv'
    BY <1>1, <1>2 DEF RestoreInv, Pending
  <1>8. SignInInv'
    <2>1. signIn.at # "none" => signIn.tokens \notin dead' \/ signIn.tokens \in dead
      BY <1>1, <1>3
    <2>2. QED
      BY <1>1, <1>2, <2>1 DEF SignInInv, Newest
  <1>9. SignOutInv' /\ RefreshInv' /\ LeftInv' /\ EvidenceIsOwn'
    BY <1>1, <1>2 DEF SignOutInv, RefreshInv, LeftInv, EvidenceIsOwn
  <1>10. DeadStaysDead'
    BY <1>1, <1>3 DEF DeadStaysDead
  <1>11. ControlInv'
    BY <1>1, <1>2 DEF ControlInv, Newest, Pending
  <1>12. QED
    BY <1>5, <1>6, <1>7, <1>8, <1>9, <1>10, <1>11

LEMMA RefreshKeeps ==
  ASSUME IInv, RefreshGoesOn
  PROVE  IInv'
  <1>1. /\ refresh.at # "none" /\ cleanupRequired \in BOOLEAN /\ None \notin dead
        /\ tokens \in Token \cup {None} /\ tokens \notin dead
        /\ store \in Token \cup {None, Corrupt} /\ None \notin Token /\ Corrupt \notin Token
        /\ tokens # None => tokens.account <= accounts /\ (status # "free" => store = tokens)
        /\ store \in Token => store.account <= accounts
        /\ tokens \in {None, refresh.current}
        /\ refresh.generation # generation \/ refresh.at \in {"unsaving", "clearingUp"} => tokens = None
        /\ refresh.current \in Token /\ refresh.current.account <= accounts
        /\ refresh.at = "saving" => refresh.next \in Token /\ refresh.next.account = refresh.current.account
        /\ UNCHANGED <<generation, signIn, signOut, calls, accounts>>
    BY TokenFacts
    DEF IInv, RefreshGoesOn, RefreshAnswered, RefreshSaves, RefreshUnsaves, RefreshClearsUp, TypeOK, TypeInv,
        DeadStaysDead, AccountInv, ControlInv, RefreshInv, counts
  <1>2. CASE RefreshAnswered
    <2>1. refresh.at = "asked" /\ UNCHANGED <<tokens, store, cleanupRequired, dead>>
      BY <1>2 DEF RefreshAnswered
    <2>2. CASE EndRefresh(FALSE)
      <3>1. store \in dead => cleanupRequired \/ signIn.at = "unsaving"
        BY <2>1 DEF IInv, LeftInv
      <3>2. QED
        BY <1>1, <2>1, <2>2, <3>1, RefreshEnds
    <2>3. CASE ~EndRefresh(FALSE)
      <3> DEFINE next == [refresh.current EXCEPT !.version = @ + 1]
      <3>1. /\ tokens = refresh.current /\ refresh.current.version < MaxVersion
            /\ refresh' = [refresh EXCEPT !.at = "saving", !.next = next]
            /\ UNCHANGED <<status, waiting, restore>>
        BY <1>2, <2>3 DEF RefreshAnswered, Unchanged
      <3>2. next \in Token /\ next.account = refresh.current.account
        BY <1>1, <3>1, ConstantsAssumption DEF Token
      <3> HIDE DEF next
      <3>3. /\ refresh'.at = "saving" /\ refresh'.next = next
            /\ refresh'.generation = refresh.generation /\ refresh'.current = refresh.current
            /\ refresh' \in [at : RefreshSteps, generation : Nat, current : Token \cup {None},
                             next : Token \cup {None}]
        BY <3>1, <3>2 DEF IInv, TypeInv, RefreshSteps
      <3> USE DEF IInv
      <3>4. TypeOK' /\ TypeInv' /\ GenerationInv' /\ AccountInv'
        BY <1>1, <2>1, <3>1, <3>2, <3>3 DEF TypeOK, TypeInv, GenerationInv, AccountInv
      <3>5. RestoreInv' /\ SignInInv' /\ SignOutInv' /\ RefreshInv'
        BY <1>1, <2>1, <3>1, <3>3 DEF RestoreInv, Pending, SignInInv, Newest, SignOutInv, RefreshInv
      <3>6. LeftInv' /\ DeadStaysDead' /\ EvidenceIsOwn' /\ ControlInv'
        BY <1>1, <2>1, <3>1, <3>3 DEF LeftInv, DeadStaysDead, EvidenceIsOwn, ControlInv, Newest
      <3>7. QED
        BY <3>4, <3>5, <3>6
    <2>4. QED
      BY <2>2, <2>3
  <1>3. CASE RefreshSaves
    <2>1. PICK ok \in BOOLEAN :
            /\ SaveStore(refresh.next, ok)
            /\ dead' = IF ok /\ Unchanged THEN dead ELSE dead \cup AllOf({refresh.current})
            /\ \/ ok /\ Unchanged /\ EndRefresh(TRUE)
                  /\ tokens' = refresh.next /\ cleanupRequired' = FALSE
               \/ ok /\ ~Unchanged
                  /\ refresh' = [refresh EXCEPT !.at = "unsaving"]
                  /\ UNCHANGED <<status, tokens, cleanupRequired, waiting, restore>>
               \/ ~ok /\ refresh' = [refresh EXCEPT !.at = "clearingUp"]
                  /\ tokens' = None /\ cleanupRequired' = TRUE
                  /\ UNCHANGED <<status, waiting, restore>>
      BY <1>3 DEF RefreshSaves
    <2>2. refresh.at = "saving"
      BY <1>3 DEF RefreshSaves
    <2>3. CASE ok /\ Unchanged
      <3>1. /\ EndRefresh(TRUE) /\ tokens' = refresh.next /\ store' = refresh.next
            /\ cleanupRequired' = FALSE /\ dead' = dead /\ tokens = refresh.current
        BY <2>1, <2>3 DEF SaveStore, Unchanged
      <3>2. refresh.next \notin dead
        BY <1>1, <2>2, <3>1 DEF IInv, AccountInv
      <3>3. QED
        BY <1>1, <2>2, <3>1, <3>2, RefreshEnds
    <2>4. CASE ~(ok /\ Unchanged)
      <3>1. PICK to \in {"unsaving", "clearingUp"} :
              /\ refresh' = [refresh EXCEPT !.at = to]
              /\ to = "unsaving" => ~Unchanged /\ tokens' = tokens /\ cleanupRequired' = cleanupRequired
              /\ to = "clearingUp" => tokens' = None /\ cleanupRequired' = TRUE
              /\ UNCHANGED <<status, waiting, restore>>
              /\ store' \in {store, refresh.next}
        BY <2>1, <2>4 DEF SaveStore
      <3>2. ~Unchanged => tokens = None
        BY <1>1 DEF Unchanged
      <3>3. dead' = dead \cup AllOf({refresh.current})
        BY <2>1, <2>4
      <3>4. QED
        BY <1>1, <2>2, <3>1, <3>2, <3>3, RefreshGivesUp
    <2>5. QED
      BY <2>3, <2>4
  <1>4. CASE RefreshUnsaves
    <2>1. /\ refresh.at = "unsaving" /\ refresh' = [refresh EXCEPT !.at = "clearingUp"]
          /\ tokens' = None /\ cleanupRequired' = TRUE /\ store' \in {store, None}
          /\ UNCHANGED <<status, restore, waiting, dead>>
      BY <1>4 DEF RefreshUnsaves, ClearStore
    <2>2. QED
      BY <1>1, <2>1, RefreshGivesUp
  <1>5. CASE RefreshClearsUp
    <2>1. PICK ok \in BOOLEAN : ClearContaminated(ok)
      BY <1>5 DEF RefreshClearsUp
    <2>2. /\ refresh.at = "clearingUp" /\ EndRefresh(FALSE) /\ UNCHANGED <<tokens, dead>>
          /\ cleanupRequired' = ~ok /\ store' \in {store, None} /\ (ok => store' = None)
      BY <1>5, <2>1 DEF RefreshClearsUp, ClearContaminated, ClearStore
    <2>3. tokens = None
      BY <1>1, <2>2
    <2>4. QED
      BY <1>1, <2>2, <2>3, RefreshEnds
  <1>6. QED
    BY <1>2, <1>3, <1>4, <1>5 DEF RefreshGoesOn

-----------------------------------------------------------------------------
(* Initial states and steps *)

LEMMA Initially == Init => IInv
  <1> SUFFICES ASSUME Init
               PROVE  IInv
    OBVIOUS
  <1>1. /\ tokens = None /\ generation = 0 /\ cleanupRequired = FALSE /\ signOut = "none" /\ dead = {}
        /\ signIn = NoSignIn /\ refresh = NoRefresh
        /\ restore = [r \in Restores |-> NoRestore] /\ waiting = [c \in Callers |-> None]
        /\ calls = 0 /\ accounts = 0 /\ status \in {"initial", "free"}
    BY DEF Init
  <1>2. /\ [account |-> 0, version |-> 0] \in Token /\ MaxCalls \in Nat /\ None \notin Token
        /\ Corrupt \notin Token
    BY ConstantsAssumption DEF Token
  <1>3. store \in Token \cup {None, Corrupt} /\ (store \in Token => store.account = 0)
    BY <1>2 DEF Init
  <1>4. \A r \in Restores : restore[r].at = "none" /\ restore[r].read = None
    BY <1>1 DEF NoRestore
  <1>5. signIn.at = "none" /\ signIn.tokens = None /\ refresh.at = "none"
    BY <1>1 DEF NoSignIn, NoRefresh
  <1>6. TypeOK
    <2>1. signIn.tokens = None /\ waiting \in [Callers -> Token \cup {None}] /\ generation \in 0..2 * MaxCalls
      BY <1>1, <1>2, <1>5
    <2>2. QED
      BY <1>1, <1>3, <1>4, <1>5, <2>1 DEF TypeOK, Statuses
  <1>7. TypeInv
    BY <1>1, <1>2, <1>4, <1>5 DEF TypeInv, NoRestore, NoSignIn, NoRefresh, RestoreSteps, SignInSteps, RefreshSteps
  <1>8. GenerationInv /\ AccountInv /\ RestoreInv /\ SignInInv /\ SignOutInv /\ RefreshInv
    BY <1>1, <1>2, <1>3, <1>4, <1>5 DEF GenerationInv, AccountInv, RestoreInv, Pending, SignInInv, SignOutInv, RefreshInv
  <1>9. LeftInv /\ ControlInv /\ DeadStaysDead /\ EvidenceIsOwn
    BY <1>1, <1>4, <1>5 DEF LeftInv, ControlInv, DeadStaysDead, EvidenceIsOwn
  <1>10. QED
    BY <1>6, <1>7, <1>8, <1>9 DEF IInv

LEMMA Inductive == IInv /\ [Next]_vars => IInv'
  <1> SUFFICES ASSUME IInv, [Next]_vars
               PROVE  IInv'
    OBVIOUS
  <1>1. ASSUME NEW r \in Restores, CallRestore(r)
        PROVE  IInv'
    BY <1>1, CallRestoreKeeps
  <1>2. ASSUME NEW r \in Restores, RestoreGoesOn(r)
        PROVE  IInv'
    <2>1. CASE RestoreLoaded(r) /\ Current(r)
      BY <2>1, RestoreTakesOver
    <2>2. CASE ~(RestoreLoaded(r) /\ Current(r))
      BY <1>2, <2>2, RestoreKeeps DEF RestoreGoesOn
    <2>3. QED
      BY <2>1, <2>2
  <1>3. CASE CallSignIn \/ SignInGoesOn
    BY <1>3, CallSignInKeeps, SignInKeeps, SignInSavesKeeps DEF SignInGoesOn
  <1>4. CASE CallSignOut \/ SignOutGoesOn
    BY <1>4, CallSignOutKeeps, SignOutKeeps
  <1>5. ASSUME NEW c \in Callers, CallEvidence(c)
        PROVE  IInv'
    BY <1>5, CallEvidenceKeeps
  <1>6. CASE RefreshGoesOn
    BY <1>6, RefreshKeeps
  <1>7. CASE UNCHANGED vars
    BY <1>7
    DEF vars, ops, counts, IInv, TypeOK, TypeInv, GenerationInv, AccountInv, RestoreInv, Pending, SignInInv, Newest,
        SignOutInv, RefreshInv, LeftInv, ControlInv, DeadStaysDead, EvidenceIsOwn
  <1>8. QED
    BY <1>1, <1>2, <1>3, <1>4, <1>5, <1>6, <1>7 DEF Next

\* A process that ends when no cleanup is noted leaves a storage that the next one
\* may read.
LEMMA RelaunchKeeps ==
  ASSUME IInv, Relaunch, ~cleanupRequired
  PROVE  IInv'
  <1>1. /\ tokens' = None /\ generation' = 0 /\ cleanupRequired' = FALSE /\ signOut' = "none"
        /\ signIn' = NoSignIn /\ refresh' = NoRefresh /\ status' = "initial"
        /\ restore' = [r \in Restores |-> NoRestore] /\ waiting' = [c \in Callers |-> None]
        /\ store' = store /\ calls' = calls /\ accounts' = accounts /\ dead' = dead
    BY DEF Relaunch
  <1>2. store \notin dead
    BY DEF IInv, LeftInv, Relaunch, Quiet
  <1>3. /\ store \in Token \cup {None, Corrupt} /\ dead \subseteq Token
        /\ MaxCalls \in Nat /\ calls \in 0..MaxCalls /\ accounts \in 0..calls
        /\ None \notin Token
    BY ConstantsAssumption DEF IInv, TypeOK, TypeInv
  <1>4. \A r \in Restores : restore'[r].at = "none" /\ restore'[r].read = None
    BY <1>1 DEF NoRestore
  <1>5. signIn'.at = "none" /\ signIn'.tokens = None /\ refresh'.at = "none"
    BY <1>1 DEF NoSignIn, NoRefresh
  <1>6. TypeOK'
    <2>1. signIn'.tokens = None /\ waiting' \in [Callers -> Token \cup {None}] /\ generation' \in 0..2 * MaxCalls
      BY <1>1, <1>3, <1>5
    <2>2. QED
      BY <1>1, <1>3, <1>4, <1>5, <2>1 DEF TypeOK, Statuses
  <1>7. TypeInv'
    BY <1>1, <1>3, <1>4, <1>5 DEF TypeInv, NoRestore, NoSignIn, NoRefresh, RestoreSteps, SignInSteps, RefreshSteps
  <1>8. AccountInv'
    <2>1. /\ \A t \in {tokens, store} \cup dead : t \in Token => t.account <= accounts
          /\ \A t \in dead, u \in Token : u.account = t.account => u \in dead
      BY DEF IInv, AccountInv
    <2>2. \A t \in {tokens', store'} \cup dead' : t \in Token => t.account <= accounts'
      BY <1>1, <1>3, <2>1
    <2>3. QED
      BY <1>1, <1>4, <1>5, <2>1, <2>2 DEF AccountInv
  <1>9. GenerationInv' /\ RestoreInv' /\ SignInInv' /\ SignOutInv' /\ RefreshInv'
    BY <1>1, <1>4, <1>5 DEF GenerationInv, RestoreInv, Pending, SignInInv, SignOutInv, RefreshInv
  <1>10. LeftInv' /\ ControlInv' /\ DeadStaysDead' /\ EvidenceIsOwn'
    BY <1>1, <1>2, <1>3, <1>4, <1>5 DEF LeftInv, ControlInv, DeadStaysDead, EvidenceIsOwn
  <1>11. QED
    BY <1>6, <1>7, <1>8, <1>9, <1>10 DEF IInv

\* What the app relies on is part of the invariant.
LEMMA Follows == IInv => TokensAreStored /\ NothingLeft /\ RestoreRetriesCleanup
  <1> SUFFICES ASSUME IInv
               PROVE  TokensAreStored /\ NothingLeft /\ RestoreRetriesCleanup
    OBVIOUS
  <1>1. TokensAreStored
    BY DEF IInv, ControlInv, TokensAreStored
  <1>2. NothingLeft
    <2>1. Quiet /\ ~cleanupRequired => store \notin dead
      BY DEF IInv, LeftInv, Quiet
    <2>2. status = "signedOut" => tokens = None /\ store \notin dead
      BY DEF IInv, ControlInv
    <2>3. QED
      BY <2>1, <2>2 DEF NothingLeft
  <1>3. RestoreRetriesCleanup
    BY DEF IInv, RestoreInv, Pending, Current, RestoreRetriesCleanup
  <1>4. QED
    BY <1>1, <1>2, <1>3

-----------------------------------------------------------------------------
(* Theorems *)

\* Generations, accounts and what each operation has waited for hold together in every
\* state, whatever overlaps and fails.
THEOREM Invariance == Spec => []IInv
  BY Initially, Inductive, PTL DEF Spec

\* Every variable keeps its type, and a restore waits for a refresh only while there is
\* one, for any number of overlapping restores, sign-ins and sign-outs.
THEOREM TypeCorrect == Spec => []TypeOK
  BY Invariance, PTL DEF IInv

\* No interleaving of late answers brings an account back that was signed out or
\* replaced, or whose tokens could not be saved in time.
THEOREM GivenUpForGood == Spec => []DeadStaysDead
  BY Invariance, PTL DEF IInv

\* Under the controller, the tokens in use are those that a relaunch restores.
THEOREM Stored == Spec => []TokensAreStored
  BY Invariance, Follows, PTL

\* Tokens that were given up stay in the storage only while their cleanup is noted,
\* and never while the app shows "signed out".
THEOREM Cleaned == Spec => []NothingLeft
  BY Invariance, Follows, PTL

\* Who waits for evidence gets that of the account that it asked for, or none.
THEOREM OwnEvidence == Spec => []EvidenceIsOwn
  BY Invariance, PTL DEF IInv

\* As long as the process lives, a restore never goes on to use what was to be cleaned
\* up; after a relaunch it may, which the run OidcSession_relaunch shows.
THEOREM RetriesCleanup == Spec => []RestoreRetriesCleanup
  BY Invariance, Follows, PTL

\* No process ends while a cleanup is noted that memory alone remembers.
NoCleanupOwed == [][Relaunch => ~cleanupRequired]_vars

\* Over any number of relaunches nothing else goes wrong: as long as no process ends
\* with a cleanup noted, all of the above holds from one process to the next.
THEOREM Relaunches ==
  RelaunchSpec /\ NoCleanupOwed =>
    [](/\ TypeOK /\ DeadStaysDead /\ EvidenceIsOwn
       /\ TokensAreStored /\ NothingLeft /\ RestoreRetriesCleanup)
  <1>1. IInv /\ [Next \/ Relaunch]_vars /\ [Relaunch => ~cleanupRequired]_vars => IInv'
    <2> SUFFICES ASSUME IInv, [Next \/ Relaunch]_vars, [Relaunch => ~cleanupRequired]_vars
                 PROVE  IInv'
      OBVIOUS
    <2>1. CASE [Next]_vars
      BY <2>1, Inductive
    <2>2. CASE Relaunch /\ ~UNCHANGED vars
      BY <2>2, RelaunchKeeps
    <2>3. QED
      BY <2>1, <2>2
  <1>2. IInv => /\ TypeOK /\ DeadStaysDead /\ EvidenceIsOwn
                /\ TokensAreStored /\ NothingLeft /\ RestoreRetriesCleanup
    BY Follows DEF IInv
  <1>3. QED
    BY Initially, <1>1, <1>2, PTL DEF RelaunchSpec, NoCleanupOwed
===============================================================================
