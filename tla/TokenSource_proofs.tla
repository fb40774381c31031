------------------------- MODULE TokenSource_proofs -------------------------
(***************************************************************************)
(* Theorems about the token source, for any margin, timeout, lifetimes of  *)
(* tokens that outlive a call by more than the margin, and upsets.         *)
(***************************************************************************)
EXTENDS TokenSource, TLAPS

-----------------------------------------------------------------------------
(* The inductive invariant. *)

(* A token on its way, and one that was fresh when a question was asked:   *)
(* what it has left and what the call has taken add up to enough.          *)
TokenShape ==
    /\ sent # None \/ answer # None => step = "im"
    /\ answer \in Nat => answer + waited > CDIAPITimeOut + MarginTime
    /\ step = "send" => waited = 0
    /\ step \in {"send", "request"} => token # None
    /\ step \in {"send", "request"} /\ ~stale => token + waited > MarginTime

(* Before a call to the IM no time has passed since the signal. *)
StopShape ==
    /\ ~cancelled \/ step \in {"token", "request"} => sinceSignal = 0
    /\ step = "im" => sinceSignal <= waited

(* In steady times a call that carries what the IM would not accept was    *)
(* never made, and none is refused.                                        *)
SteadyShape ==
    steady /\ secret \in im /\ step = "im" => sent = secret /\ answer # Refused

IInv == TypeOK /\ TokenShape /\ StopShape /\ SteadyShape /\ StopIsPrompt

(* What more than suffices still does when time taken is added. *)
LEMMA SumSuffices ==
  ASSUME NEW left \in Nat, NEW taken \in Nat, NEW enough \in Nat, left > enough
  PROVE  left + taken > enough
OBVIOUS

LEMMA InitIInv == Init => IInv
<1> SUFFICES ASSUME Init PROVE IInv
  OBVIOUS
<1>1. /\ stale \in BOOLEAN
      /\ cancelled \in BOOLEAN
      /\ steady \in BOOLEAN
  BY Zenon DEF Init
<1>2. TypeOK
  BY <1>1, TimesAssumption DEF Init, TypeOK, Steps
<1>3. TokenShape
  BY NoneAssumption DEF Init, TokenShape
<1>4. StopShape /\ SteadyShape /\ StopIsPrompt
  BY TimesAssumption DEF Init, StopShape, SteadyShape, StopIsPrompt
<1> QED
  BY <1>2, <1>3, <1>4 DEF IInv

(* A rotation that failed leaves the cached token, and the wait for the IM *)
(* behind.                                                                 *)
LEMMA UnableToRotateInv ==
  ASSUME IInv, UnableToRotate, step \in {"token", "im"},
         im' \in SUBSET Credentials, secret' \in Secrets, steady' \in BOOLEAN,
         upsets' \in 0 .. MaxUpsets
  PROVE  IInv'
BY TimesAssumption, NoneAssumption
   DEF IInv, TypeOK, TokenShape, StopShape, SteadyShape, StopIsPrompt,
       UnableToRotate, Steps, stop

(* A question that failed ends the scan, and with it the use of the token. *)
LEMMA QuestionFailsInv ==
  ASSUME IInv, QuestionFails, step \in {"send", "request"},
         im' \in SUBSET Credentials, secret' \in Secrets, steady' \in BOOLEAN,
         upsets' \in 0 .. MaxUpsets
  PROVE  IInv'
BY TimesAssumption, NoneAssumption
   DEF IInv, TypeOK, TokenShape, StopShape, SteadyShape, StopIsPrompt,
       QuestionFails, Steps, call, asked, stop

LEMMA TickInv == IInv /\ Tick => IInv'
<1> SUFFICES ASSUME IInv, Tick PROVE IInv'
  OBVIOUS
<1> USE TimesAssumption, NoneAssumption
<1>1. /\ Left(token) \in Nat \cup {None}
      /\ token # None => Left(token) # None /\ Left(token) + 1 >= token
  BY DEF Left, IInv, TypeOK
<1>2. /\ Left(answer) \in Nat \cup {None, Refused}
      /\ answer \in Nat => Left(answer) \in Nat /\ Left(answer) + 1 >= answer
      /\ answer \in {None, Refused} => Left(answer) = answer
  BY DEF Left, IInv, TypeOK
<1>3. TypeOK'
  BY <1>1, <1>2 DEF Tick, IInv, TypeOK, world, Steps
<1>4. TokenShape'
  <2>1. /\ sent' # None \/ answer' # None => step' = "im"
        /\ answer' \in Nat => answer' + waited' > CDIAPITimeOut + MarginTime
    BY <1>2 DEF Tick, IInv, TypeOK, TokenShape
  <2>2. step' # "send"
    BY DEF Tick
  <2>3. ASSUME step' = "request"
        PROVE  token' # None /\ (~stale' => token' + waited' > MarginTime)
    BY <1>1, <2>3 DEF Tick, IInv, TypeOK, TokenShape
  <2> QED
    BY <2>1, <2>2, <2>3 DEF TokenShape
<1>5. StopShape' /\ StopIsPrompt'
  BY DEF Tick, IInv, TypeOK, StopShape, StopIsPrompt, CutOff
<1>6. SteadyShape'
  BY <1>2 DEF Tick, IInv, TypeOK, SteadyShape, world
<1> QED
  BY <1>3, <1>4, <1>5, <1>6 DEF IInv

LEMMA ManagerStepInv == IInv /\ ManagerStep => IInv'
<1> SUFFICES ASSUME IInv, ManagerStep PROVE IInv'
  OBVIOUS
<1> USE TimesAssumption, NoneAssumption
<1> USE DEF IInv, TypeOK, TokenShape, StopShape, SteadyShape, StopIsPrompt, Steps,
            call, asked, stop, world
<1>1. CASE ScanBegins
  <2>1. steady' \in BOOLEAN
    BY <1>1, Zenon DEF ScanBegins
  <2> QED
    BY <1>1, <2>1 DEF ScanBegins
<1>2. CASE CachedToken
  <2>0. stale' \in BOOLEAN
    BY <1>2, Zenon DEF CachedToken
  <2>1. TypeOK'
    BY <1>2, <2>0 DEF CachedToken
  <2>2. TokenShape'
    BY <1>2 DEF CachedToken, Fresh
  <2>3. StopShape' /\ SteadyShape' /\ StopIsPrompt'
    BY <1>2 DEF CachedToken
  <2> QED
    BY <2>1, <2>2, <2>3
<1>3. CASE getIdManagerSecret
  <2>1. CASE UnableToRotate
    BY <1>3, <2>1, UnableToRotateInv DEF getIdManagerSecret
  <2>2. CASE /\ step' = "im" /\ sent' = secret /\ waited' = 0 /\ secret \in Credentials
             /\ UNCHANGED <<token, answer, stale, stop>>
    <3>1. TypeOK'
      BY <1>3, <2>2 DEF getIdManagerSecret
    <3>2. answer = None /\ answer' = None
      BY <1>3, <2>2 DEF getIdManagerSecret
    <3>3. TokenShape' /\ SteadyShape'
      BY <1>3, <2>2, <3>2 DEF getIdManagerSecret
    <3>4. StopShape' /\ StopIsPrompt'
      BY <1>3, <2>2 DEF getIdManagerSecret
    <3> QED
      BY <3>1, <3>3, <3>4
  <2> QED
    BY <1>3, <2>1, <2>2 DEF getIdManagerSecret
<1>4. CASE IMIssues
  <2>1. TypeOK'
    BY <1>4, LifetimesAssumption DEF IMIssues
  <2>2. answer' \in Nat /\ answer' > CDIAPITimeOut + MarginTime
    BY <1>4, LifetimesAssumption DEF IMIssues
  <2>3. waited \in Nat /\ waited' = waited /\ step' = "im" /\ step = "im"
    BY <1>4 DEF IMIssues
  <2>4. answer' + waited' > CDIAPITimeOut + MarginTime
    <3>1. CDIAPITimeOut + MarginTime \in Nat
      BY DEF IInv
    <3>2. answer' + waited > CDIAPITimeOut + MarginTime
      BY <2>2, <2>3, <3>1, SumSuffices, Zenon
    <3> QED
      BY <2>3, <3>2, Zenon
  <2>5. TokenShape'
    BY <2>3, <2>4
  <2>6. StopShape' /\ SteadyShape' /\ StopIsPrompt'
    BY <1>4, <2>2 DEF IMIssues
  <2> QED
    BY <2>1, <2>5, <2>6
(* What steady times send is not refused. *)
<1>5. CASE IMRefuses
  BY <1>5 DEF IMRefuses
<1>6. CASE NewToken
  <2>0. stale' \in BOOLEAN
    BY <1>6, Zenon DEF NewToken
  <2>1. TypeOK'
    BY <1>6, <2>0 DEF NewToken
  <2>2. TokenShape'
    BY <1>6 DEF NewToken
  <2>3. StopShape' /\ SteadyShape' /\ StopIsPrompt'
    BY <1>6 DEF NewToken
  <2> QED
    BY <2>1, <2>2, <2>3
<1>7. CASE RotationFails
  BY <1>7, UnableToRotateInv DEF RotationFails
<1>8. CASE SendRequest
  <2>1. CASE QuestionFails
    BY <1>8, <2>1, QuestionFailsInv DEF SendRequest
  <2>2. CASE ~CutOff /\ step' = "request" /\ UNCHANGED <<token, call, asked, stop>>
    BY <1>8, <2>2 DEF SendRequest, CutOff
  <2> QED
    BY <1>8, <2>1, <2>2 DEF SendRequest
<1>9. CASE ManagerAnswers
  <2>1. CASE QuestionFails /\ UNCHANGED steady
    BY <1>9, <2>1, QuestionFailsInv DEF ManagerAnswers
  <2>2. CASE step' = "waiting" /\ UNCHANGED <<token, call, asked, stop, steady>>
    BY <1>9, <2>2 DEF ManagerAnswers
  <2>3. CASE step' = "token" /\ steady' = TRUE /\ UNCHANGED <<token, call, asked, stop>>
    <3>1. steady' \in BOOLEAN
      BY <2>3, Zenon
    <3> QED
      BY <1>9, <2>3, <3>1 DEF ManagerAnswers
  <2> QED
    BY <1>9, <2>1, <2>2, <2>3 DEF ManagerAnswers
<1>10. CASE RequestCancelled
  BY <1>10, QuestionFailsInv DEF RequestCancelled
<1>11. CASE LoopEnds
  BY <1>11 DEF LoopEnds
<1> QED
  BY <1>1, <1>2, <1>3, <1>4, <1>5, <1>6, <1>7, <1>8, <1>9, <1>10, <1>11 DEF ManagerStep

LEMMA NextIInv == IInv /\ [Next]_vars => IInv'
<1> SUFFICES ASSUME IInv, [Next]_vars PROVE IInv'
  OBVIOUS
<1> USE TimesAssumption, NoneAssumption
<1>0. ASSUME Upset PROVE /\ ~steady' /\ steady' \in BOOLEAN
                         /\ upsets' \in 0 .. MaxUpsets
  <2>1. ~steady' /\ steady' \in BOOLEAN
    BY <1>0, Zenon DEF Upset
  <2>2. upsets' \in 0 .. MaxUpsets
    BY <1>0 DEF Upset, IInv, TypeOK
  <2> QED
    BY <2>1, <2>2
<1>1. CASE ManagerStep
  BY <1>1, ManagerStepInv
<1>2. CASE Tick
  BY <1>2, TickInv
<1>3. CASE Signal
  BY <1>3 DEF Signal, IInv, TypeOK, TokenShape, StopShape, SteadyShape, StopIsPrompt,
              call, asked, world
<1>4. CASE CallLost
  <2>1. /\ im' \in SUBSET Credentials /\ secret' \in Secrets /\ steady' \in BOOLEAN
        /\ upsets' \in 0 .. MaxUpsets
    BY <1>0, <1>4 DEF CallLost, IInv, TypeOK
  <2> QED
    BY <1>4, <2>1, UnableToRotateInv, QuestionFailsInv DEF CallLost
<1>5. CASE IMChanges
  BY <1>0, <1>5 DEF IMChanges, IInv, TypeOK, TokenShape, StopShape, SteadyShape,
                     StopIsPrompt, call, asked, stop
<1>6. CASE SecretChanges
  BY <1>0, <1>6 DEF SecretChanges, IInv, TypeOK, TokenShape, StopShape, SteadyShape,
                     StopIsPrompt, call, asked, stop
<1>7. CASE UNCHANGED vars
  BY <1>7 DEF vars, IInv, TypeOK, TokenShape, StopShape, SteadyShape, StopIsPrompt,
              call, asked, stop, world
<1> QED
  BY <1>1, <1>2, <1>3, <1>4, <1>5, <1>6, <1>7 DEF Next

(* The inductive invariant holds in every reachable state. *)
THEOREM Invariance == Spec => []IInv
<1>1. Init => IInv
  BY InitIInv
<1>2. IInv /\ [Next]_vars => IInv'
  BY NextIInv
<1> QED
  BY <1>1, <1>2, PTL DEF Spec

-----------------------------------------------------------------------------
(* Every variable of the token source keeps its type, and no call exceeds  *)
(* its timeout.                                                            *)
THEOREM TokenTypeCorrect == Spec => []TypeOK
<1>1. IInv => TypeOK
  BY DEF IInv
<1> QED
  BY <1>1, Invariance, PTL

(* A request never travels with an expired token because the cache gave    *)
(* out an old one or the IM was slow.                                      *)
THEOREM TokensExpireForCause == Spec => []ExpiresForCause
<1>1. IInv => ExpiresForCause
  BY TimesAssumption DEF IInv, TypeOK, TokenShape, ExpiresForCause
<1> QED
  BY <1>1, Invariance, PTL

(* In steady times, in which the IM accepts what the Secret holds, no      *)
(* question sets out with an old token: the credentials that are sent are  *)
(* those of the Secret, an answer outlasts the call that brings it by more *)
(* than the margin, and a cached token is measured when it is taken.       *)
THEOREM QuestionsSetOutFresh == Spec => FreshWhenPossible
<1>1. ASSUME IInv, [Next]_vars, step # "send", step' = "send", steady', secret \in im
      PROVE  token' # None /\ token' > MarginTime
  <2> USE TimesAssumption, NoneAssumption
  <2>1. CASE CachedToken
    BY <2>1 DEF CachedToken, Fresh
  <2>2. CASE NewToken
    <3>1. /\ answer \in Nat /\ waited \in Nat /\ waited <= CDIAPITimeOut
          /\ answer + waited > CDIAPITimeOut + MarginTime
      BY <1>1, <2>2 DEF NewToken, IInv, TypeOK, TokenShape
    <3>2. answer > MarginTime
      BY <3>1
    <3> QED
      BY <2>2, <3>1, <3>2 DEF NewToken
  (* The old token is used, if at all, because of the Secret, the IM or a *)
  (* lost call.                                                           *)
  <2>3. ~getIdManagerSecret
    BY <1>1 DEF getIdManagerSecret, IInv, TypeOK
  <2>4. ~RotationFails
    BY <1>1 DEF RotationFails, IInv, SteadyShape, world
  <2>5. ~CallLost
    BY <1>1, Zenon DEF CallLost, Upset
  <2>6. ~( \/ ScanBegins \/ IMIssues \/ IMRefuses \/ SendRequest \/ ManagerAnswers
           \/ RequestCancelled \/ LoopEnds \/ Tick \/ Signal \/ IMChanges
           \/ SecretChanges \/ UNCHANGED vars )
    BY <1>1 DEF ScanBegins, IMIssues, IMRefuses, SendRequest, ManagerAnswers,
                RequestCancelled, LoopEnds, QuestionFails, Tick, Signal, IMChanges,
                SecretChanges, vars
  <2> QED
    BY <1>1, <2>1, <2>2, <2>3, <2>4, <2>5, <2>6 DEF Next, ManagerStep
<1> QED
  BY <1>1, Invariance, PTL DEF Spec, FreshWhenPossible

(* A signal is held up by at most one timeout before the scan is over. *)
THEOREM StopsPromptly == Spec => []StopIsPrompt
<1>1. IInv => StopIsPrompt
  BY DEF IInv
<1> QED
  BY <1>1, Invariance, PTL
=============================================================================
