----------------------------- MODULE PhoneSession -----------------------------
(***************************************************************************)
(* The phone's session with the backend: short-lived access tokens, refresh *)
(* tokens that slide, and the OkHttp authenticator that trades one for the  *)
(* other in the middle of a call.  The service loop and the screens call at *)
(* the same time and share one token store.  Time is counted in beats; a    *)
(* token is what is left of its life.                                       *)
(***************************************************************************)
EXTENDS Integers

CONSTANTS
  Callers,       \* threads that call the backend
  AccessLife,    \* ACCESS_TOKEN_EXPIRE_MINUTES
  RefreshLife,   \* REFRESH_TOKEN_EXPIRE_MINUTES
  MaxGap,        \* the app has an answer at least this often: it keeps polling
  MaxLost        \* bound on lost answers and dead processes

\* What a refresh token may age before the next one is stored: the life of the access
\* token, the longest silence and the beat a call may take.
Period == AccessLife + MaxGap + 1

\* A beat is much shorter than an access token's life, and a refresh token outlives
\* one such period and one more for each failure.
ASSUME SessionAssumption ==
  /\ AccessLife \in Nat /\ AccessLife >= 3
  /\ MaxGap \in Nat \ {0} /\ MaxLost \in Nat
  /\ RefreshLife \in Nat /\ RefreshLife > (MaxLost + 1) * Period

VARIABLES
  access, refresh,   \* SecureCredentialStore: the two stored tokens
  call,              \* the call each thread is in
  gap,               \* beats since the last answered call
  lost               \* failures so far

sessionVars == <<access, refresh, call, gap, lost>>

\* pc; the access token the request carries; attempt: responseChainLength; the
\* token pair a refresh has brought; old: a beat has passed since the call began.
Calls == [pc : {"idle", "sent", "refreshing", "saveAccess", "saveRefresh"},
          token : 0..AccessLife, attempt : 1..2, pair : (0..AccessLife) \X (0..RefreshLife),
          old : BOOLEAN]

NoCall == [pc |-> "idle", token |-> 0, attempt |-> 1, pair |-> <<0, 0>>, old |-> FALSE]

SessionTypeOK ==
  /\ access \in 0..AccessLife /\ refresh \in 0..RefreshLife
  /\ call \in [Callers -> Calls] /\ gap \in 0..MaxGap /\ lost \in 0..MaxLost

\* The user has just logged in.
SessionInit ==
  /\ access = AccessLife /\ refresh = RefreshLife
  /\ call = [c \in Callers |-> NoCall] /\ gap = 0 /\ lost = 0

-----------------------------------------------------------------------------
\* The interceptor attaches the stored access token.
Send(c) ==
  /\ call[c].pc = "idle"
  /\ call' = [call EXCEPT ![c] = [NoCall EXCEPT !.pc = "sent", !.token = access]]
  /\ UNCHANGED <<access, refresh, gap, lost>>

\* get_current_user accepts the token.
Answered(c) ==
  /\ call[c].pc = "sent" /\ call[c].token > 0
  /\ gap' = 0
  /\ call' = [call EXCEPT ![c] = NoCall]
  /\ UNCHANGED <<access, refresh, lost>>

\* Variant: the authenticator gives up at the first 401.
GiveUpAtOnce(c) == TRUE

\* authenticate: a request that came back twice is given up.
TriedTwice(c) == call[c].attempt >= 2

\* A 401: the authenticator posts the stored refresh token, kept in the pair.
Denied(c) ==
  /\ call[c].pc = "sent" /\ call[c].token = 0
  /\ call' = [call EXCEPT ![c] =
                IF TriedTwice(c) THEN NoCall
                ELSE [@ EXCEPT !.pc = "refreshing", !.pair = <<0, refresh>>]]
  /\ UNCHANGED <<access, refresh, gap, lost>>

\* Variant: the refresh token handed back is the one that was sent.
NotSliding(old) == <<AccessLife, old>>

\* _issue_tokens
Issued(old) == <<AccessLife, RefreshLife>>

\* POST /api/auth/refresh: a new pair, or a 401 the authenticator gives up on.
Refresh(c) ==
  /\ call[c].pc = "refreshing"
  /\ call' = [call EXCEPT ![c] =
                IF @.pair[2] = 0 THEN NoCall
                ELSE [@ EXCEPT !.pc = "saveAccess", !.pair = Issued(@[2])]]
  /\ UNCHANGED <<access, refresh, gap, lost>>

\* saveBackendTokens is two edits of the store.
SaveAccess(c) ==
  /\ call[c].pc = "saveAccess"
  /\ access' = call[c].pair[1]
  /\ call' = [call EXCEPT ![c].pc = "saveRefresh"]
  /\ UNCHANGED <<refresh, gap, lost>>

\* The second edit; the request is retried with the new access token.
SaveRefresh(c) ==
  /\ call[c].pc = "saveRefresh"
  /\ refresh' = call[c].pair[2]
  /\ call' = [call EXCEPT ![c].pc = "sent", ![c].token = call[c].pair[1], ![c].attempt = 2]
  /\ UNCHANGED <<access, gap, lost>>

\* A network failure ends the call, in either request.
LoseAnswer(c) ==
  /\ call[c].pc \in {"sent", "refreshing"} /\ lost < MaxLost
  /\ call' = [call EXCEPT ![c] = NoCall] /\ lost' = lost + 1
  /\ UNCHANGED <<access, refresh, gap>>

\* The process dies; only the store survives.
ProcessDies ==
  /\ \E c \in Callers : call[c].pc # "idle"
  /\ lost < MaxLost
  /\ call' = [c \in Callers |-> NoCall] /\ lost' = lost + 1
  /\ UNCHANGED <<access, refresh, gap>>

\* Variant: a life may become negative.
OlderUnclamped(life) == life - 1

Older(life) == IF life = 0 THEN 0 ELSE life - 1

\* A beat passes for every token, stored or under way.  No call lasts longer than
\* a beat, and the app keeps polling.
Beat ==
  /\ gap < MaxGap /\ \A c \in Callers : ~call[c].old
  /\ gap' = gap + 1
  /\ access' = Older(access) /\ refresh' = Older(refresh)
  /\ call' = [c \in Callers |->
       [call[c] EXCEPT !.token = Older(@), !.pair = <<Older(@[1]), Older(@[2])>>,
                       !.old = call[c].pc # "idle"]]
  /\ UNCHANGED lost

CallStep(c) ==
  \/ Send(c) \/ Answered(c) \/ Denied(c) \/ Refresh(c) \/ SaveAccess(c) \/ SaveRefresh(c)

SessionNext ==
  \/ \E c \in Callers : CallStep(c) \/ LoseAnswer(c)
  \/ ProcessDies \/ Beat

SessionSpec == SessionInit /\ [][SessionNext]_sessionVars

\* Every thread goes on calling.
SessionFairSpec == SessionSpec /\ \A c \in Callers : WF_sessionVars(CallStep(c))

-----------------------------------------------------------------------------
(* Properties *)

\* As long as the app keeps polling, the user never has to log in again: the stored
\* refresh token stays valid, whatever two refreshes at a time write over each other
\* and although a death between the two edits leaves a new access token beside an
\* old refresh token.
NeverLoggedOut == refresh > 0

\* An access token that expired silences the app for a moment only: some call is
\* answered again.
AnsweredAgain == gap > 0 ~> gap = 0
=============================================================================
