---------------------------- MODULE TokenSource ----------------------------
(***************************************************************************)
(* The token of the identity manager (IM): how it is cached, rotated and   *)
(* put on the requests of a scan (pkg/client/token.go, and the calls in    *)
(* pkg/client/client.go, which all ask for a token, send one request and   *)
(* read the answer), and what the wait for it means to a process that is   *)
(* told to stop.                                                           *)
(*                                                                         *)
(* Time: only lengths of time are kept, what a token has left and what a   *)
(* call has taken; Tick lets a unit of it pass.  Code that makes no call   *)
(* takes no time, and a call takes at most its timeout.  One goroutine     *)
(* asks for tokens, so the mutex of the cache is never contended.          *)
(* In the runs a unit is 30 s: the margin is one, the timeout two.         *)
(*                                                                         *)
(* A scan is a list of one or more questions to the FM and the CM here;    *)
(* ResourcePoolLoop says which.                                            *)
(*                                                                         *)
(* Bound: `upsets' counts the calls that are lost and the changes of the   *)
(* IM and of the Secret; there are at most MaxUpsets of them.              *)
(***************************************************************************)
EXTENDS Integers

CONSTANTS
    MarginTime,       \* a token with no more than this left is rotated
    CDIAPITimeOut,    \* the longest a call to the IM, the FM or the CM takes
    Lifetimes,        \* what tokens may have left when the IM issues them
    Credentials,      \* what a Secret may hold
    MaxUpsets,
    None,             \* no token, no call, no answer
    Refused           \* the IM's answer that is no token

ASSUME TimesAssumption ==
    /\ MarginTime \in Nat
    /\ CDIAPITimeOut \in Nat
    /\ MaxUpsets \in Nat
(* A token outlives the call that fetches it by more than the margin. *)
ASSUME LifetimesAssumption ==
    /\ Lifetimes \subseteq Nat
    /\ \A life \in Lifetimes : life > CDIAPITimeOut + MarginTime
ASSUME CredentialsAssumption == Credentials \cap {"absent", "tooLong"} = {}
ASSUME NoneAssumption ==
    /\ None \notin Nat \cup Credentials
    /\ Refused \notin Nat \cup {None}

VARIABLES
    step,          \* where the manager goroutine is
    token,         \* the cached token: the time it has left, 0 when expired
    sent,          \* the credentials the call to the IM under way carries
    answer,        \* what the IM has answered and has not yet arrived
    stale,         \* history: no fresh token was had for the question under way
    waited,        \* how long the call under way has taken
    cancelled,     \* whether ctx is cancelled
    sinceSignal,   \* history: for how long
    im,            \* the credentials the IM accepts, none when it is down
    secret,        \* the Secret with the credentials, in the informer's cache
    steady,        \* history: nothing was upset since a token was last asked for
    upsets

call == <<sent, answer>>
asked == <<stale, waited>>
stop == <<cancelled, sinceSignal>>
world == <<im, secret, upsets>>
vars == <<step, token, call, asked, stop, world, steady>>

Steps == {"waiting", "token", "im", "send", "request", "stopped"}

(* A Secret is absent, has a field longer than the code takes, or holds    *)
(* credentials, which the IM accepts or not.                               *)
Secrets == {"absent", "tooLong"} \cup Credentials

Init ==
    /\ step = "waiting"
    /\ token = None
    /\ sent = None
    /\ answer = None
    /\ stale = FALSE
    /\ waited = 0
    /\ cancelled = FALSE
    /\ sinceSignal = 0
    /\ im \in SUBSET Credentials
    /\ secret \in Secrets
    /\ steady = FALSE
    /\ upsets = 0

-----------------------------------------------------------------------------
(* A token for the next question. *)

ScanBegins ==
    /\ step = "waiting"
    /\ ~cancelled
    /\ step' = "token"
    /\ steady' = TRUE
    /\ UNCHANGED <<token, call, asked, stop, world>>

(* Faulty variants of the next definition: a token is fresh until it       *)
(* expires; a token, once cached, is used for good.                        *)
Fresh_noMargin == token # None /\ token > 0
Fresh_always == token # None

Fresh == token # None /\ token > MarginTime

CachedToken ==
    /\ step = "token"
    /\ Fresh
    /\ step' = "send"
    /\ stale' = FALSE
    /\ waited' = 0
    /\ UNCHANGED <<token, call, stop, world, steady>>

(* The old token is used if there is one, expired or not; without one the  *)
(* question fails, and the scan with it.                                   *)
UnableToRotate ==
    /\ step' = IF token = None THEN "waiting" ELSE "send"
    /\ stale' = TRUE
    /\ waited' = 0
    /\ sent' = None
    /\ answer' = None
    /\ UNCHANGED <<token, stop>>

(* The credentials are read here; the call sends this copy, whatever the   *)
(* Secret becomes meanwhile.                                               *)
getIdManagerSecret ==
    /\ step = "token"
    /\ ~Fresh
    /\ \/ secret \notin Credentials /\ UnableToRotate
       \/ /\ secret \in Credentials
          /\ step' = "im"
          /\ sent' = secret
          /\ waited' = 0
          /\ UNCHANGED <<token, answer, stale, stop>>
    /\ UNCHANGED <<world, steady>>

(* The IM (external) judges what was sent, when it comes to it, and its    *)
(* answer takes its time.                                                  *)
IMIssues ==
    /\ step = "im"
    /\ answer = None
    /\ sent \in im
    /\ answer' \in Lifetimes
    /\ UNCHANGED <<step, token, sent, asked, stop, world, steady>>

(* It is down, refuses the credentials or sends what is no token. *)
IMRefuses ==
    /\ step = "im"
    /\ answer = None
    /\ sent \notin im
    /\ answer' = Refused
    /\ UNCHANGED <<step, token, sent, asked, stop, world, steady>>

NewToken ==
    /\ step = "im"
    /\ answer \notin {None, Refused}
    /\ token' = answer
    /\ answer' = None
    /\ sent' = None
    /\ step' = "send"
    /\ stale' = FALSE
    /\ waited' = 0
    /\ UNCHANGED <<stop, world, steady>>

RotationFails ==
    /\ step = "im"
    /\ answer = Refused
    /\ UnableToRotate
    /\ UNCHANGED <<world, steady>>

-----------------------------------------------------------------------------
(* The question itself. *)

QuestionFails ==
    /\ step' = "waiting"
    /\ UNCHANGED <<token, call, asked, stop>>

(* Faulty variant of the next definition: requests do not know ctx. *)
CutOff_never == FALSE

(* A request is sent under ctx: it ends when ctx does, or fails at once. *)
CutOff == cancelled

SendRequest ==
    /\ step = "send"
    /\ \/ CutOff /\ QuestionFails
       \/ ~CutOff /\ step' = "request" /\ UNCHANGED <<token, call, asked, stop>>
    /\ UNCHANGED <<world, steady>>

(* The FM or the CM answers; it refuses an expired token.  Another         *)
(* question follows, or none.                                              *)
ManagerAnswers ==
    /\ step = "request"
    /\ \/ token = 0 /\ QuestionFails /\ UNCHANGED steady
       \/ token > 0 /\ step' = "waiting" /\ UNCHANGED <<token, call, asked, stop, steady>>
       \/ /\ token > 0
          /\ step' = "token"
          /\ steady' = TRUE
          /\ UNCHANGED <<token, call, asked, stop>>
    /\ UNCHANGED world

RequestCancelled ==
    /\ step = "request"
    /\ CutOff
    /\ QuestionFails
    /\ UNCHANGED <<world, steady>>

LoopEnds ==
    /\ step = "waiting"
    /\ cancelled
    /\ step' = "stopped"
    /\ UNCHANGED <<token, call, asked, stop, world, steady>>

-----------------------------------------------------------------------------
(* Time, signals and upsets. *)

Left(t) == IF t \in {None, Refused, 0} THEN t ELSE t - 1

(* Faulty variant of the next definition: a call to the IM may hang. *)
Tick_noTimeout ==
    /\ \/ step = "waiting" /\ ~cancelled
       \/ step = "request" /\ ~CutOff /\ waited < CDIAPITimeOut
       \/ step = "im"
    /\ token' = Left(token)
    /\ answer' = Left(answer)
    /\ waited' = IF step = "waiting" THEN waited ELSE waited + 1
    /\ sinceSignal' = IF cancelled THEN sinceSignal + 1 ELSE sinceSignal
    /\ UNCHANGED <<step, sent, stale, cancelled, world, steady>>

(* Time passes between scans and in calls that have not timed out. *)
Tick ==
    /\ \/ step = "waiting" /\ ~cancelled
       \/ step = "request" /\ ~CutOff /\ waited < CDIAPITimeOut
       \/ step = "im" /\ waited < CDIAPITimeOut
    /\ token' = Left(token)
    /\ answer' = Left(answer)
    /\ waited' = IF step = "waiting" THEN waited ELSE waited + 1
    /\ sinceSignal' = IF cancelled THEN sinceSignal + 1 ELSE sinceSignal
    /\ UNCHANGED <<step, sent, stale, cancelled, world, steady>>

Signal ==
    /\ step # "stopped"
    /\ ~cancelled
    /\ cancelled' = TRUE
    /\ UNCHANGED <<step, token, call, asked, sinceSignal, world, steady>>

Upset ==
    /\ upsets < MaxUpsets
    /\ upsets' = upsets + 1
    /\ steady' = FALSE

(* A call is lost: no connection, an answer that does not come in time or  *)
(* cannot be read.                                                         *)
CallLost ==
    /\ Upset
    /\ \/ step = "im" /\ UnableToRotate
       \/ step = "request" /\ QuestionFails
    /\ UNCHANGED <<im, secret>>

(* The IM goes down, comes back, or takes other credentials than before. *)
IMChanges ==
    /\ Upset
    /\ im' \in (SUBSET Credentials) \ {im}
    /\ UNCHANGED <<step, token, call, asked, stop, secret>>

SecretChanges ==
    /\ Upset
    /\ secret' \in Secrets \ {secret}
    /\ UNCHANGED <<step, token, call, asked, stop, im>>

-----------------------------------------------------------------------------
ManagerStep ==
    \/ ScanBegins
    \/ CachedToken
    \/ getIdManagerSecret
    \/ IMIssues
    \/ IMRefuses
    \/ NewToken
    \/ RotationFails
    \/ SendRequest
    \/ ManagerAnswers
    \/ RequestCancelled
    \/ LoopEnds

Next ==
    \/ ManagerStep
    \/ Tick
    \/ Signal
    \/ CallLost
    \/ IMChanges
    \/ SecretChanges

(* The goroutine runs and its calls are answered, if nothing is upset, and *)
(* time goes on.  Signals and upsets are never owed.                       *)
Fairness == WF_vars(ManagerStep) /\ WF_vars(Tick)

Spec == Init /\ [][Next]_vars /\ Fairness

-----------------------------------------------------------------------------
(* Properties. *)

(* Every variable has its type.  A call never takes longer than its        *)
(* timeout.                                                                *)
TypeOK ==
    /\ step \in Steps
    /\ token \in Nat \cup {None}
    /\ sent \in Credentials \cup {None}
    /\ answer \in Nat \cup {None, Refused}
    /\ stale \in BOOLEAN
    /\ waited \in 0 .. CDIAPITimeOut
    /\ cancelled \in BOOLEAN
    /\ sinceSignal \in Nat
    /\ im \in SUBSET Credentials
    /\ secret \in Secrets
    /\ steady \in BOOLEAN
    /\ upsets \in 0 .. MaxUpsets

(* A request travels with an expired token, and is refused, only when the  *)
(* token could not be rotated for it or the request itself was on its way  *)
(* for longer than the margin: neither the age of the cached token nor a   *)
(* slow answer of the IM is ever the reason (Token in token.go).           *)
ExpiresForCause ==
    step = "request" /\ token = 0 => stale \/ waited > MarginTime

(* That a token could not be rotated is no excuse when nothing was wrong:  *)
(* when the IM accepts what the Secret holds, and neither has changed, nor *)
(* was a call lost, since a token was asked for, the question sets out     *)
(* with one that has more than the margin left, whatever was cached and    *)
(* however slow the IM was.  It takes all of that: credentials that were   *)
(* corrected while the old ones were on their way do not help.             *)
FreshWhenPossible ==
    [][step # "send" /\ step' = "send" /\ steady' /\ secret \in im
         => token' # None /\ token' > MarginTime]_vars

(* A process that is told to stop is held up by at most one call to the IM *)
(* (main.go, line 181): that call does not know ctx, every other is cut    *)
(* off, and no second token is asked for.                                  *)
StopIsPrompt == sinceSignal <= CDIAPITimeOut

(* When the IM accepts what the Secret holds again, questions are asked    *)
(* with fresh tokens again, however long the rotation failed before and    *)
(* whatever was cached.                                                    *)
Recovers ==
    <>[](secret \in im /\ ~cancelled) =>
        []<>(step = "request" /\ token > 0 /\ ~stale)
=============================================================================
