----------------------------- MODULE SessionProofs -----------------------------
(***************************************************************************)
(* NeverLoggedOut of PhoneSession, for any threads and any lives that leave *)
(* enough room.  The invariant bounds the age of the stored refresh token:  *)
(* one Period for each failure, and what has passed since the store was     *)
(* last written.                                                            *)
(***************************************************************************)
EXTENDS PhoneSession, TLAPS

Owed(n) == n * Period

\* The age of the stored refresh token.
Age == RefreshLife - refresh

\* Threads between the two edits of the store.
HalfSaved == {c \in Callers : call[c].pc = "saveRefresh"}

OldHalf == \E c \in HalfSaved : call[c].old

\* A pair is as new as the call that brought it.
PairInv ==
  \A c \in Callers : call[c].pc \in {"saveAccess", "saveRefresh"} =>
    /\ call[c].pair[1] >= AccessLife - 1 /\ call[c].pair[2] >= RefreshLife - 1
    /\ call[c].old \/ call[c].pair = <<AccessLife, RefreshLife>>

\* The stored access token is hardly older than one that is in use.
Covers(t, old) == t <= access \/ access >= AccessLife - 1 \/ (old /\ access >= AccessLife - 2)

InUseInv ==
  \A c \in Callers :
    /\ call[c].pc = "sent" /\ call[c].token > 0 => Covers(call[c].token, call[c].old)
    /\ call[c].pc = "saveRefresh" => Covers(call[c].pair[1], call[c].old)

\* An expired access token is stored only after some silence.
SilentInv == access = 0 => gap > 0

\* Both edits made: the refresh token is as old as the access token, or has waited
\* for an answer since that expired.
WholeInv ==
  HalfSaved = {} =>
    Age <= Owed(lost) + (AccessLife - access) + (IF access = 0 THEN gap ELSE 1)

\* Between the edits the old refresh token ages by one beat at most.
HalfInv ==
  HalfSaved # {} => Age <= Owed(lost) + AccessLife + MaxGap + (IF OldHalf THEN 1 ELSE 0)

SessionInv ==
  SessionTypeOK /\ PairInv /\ InUseInv /\ SilentInv /\ WholeInv /\ HalfInv

-----------------------------------------------------------------------------
(* The lives *)

LEMMA Lives ==
  /\ AccessLife \in Nat /\ AccessLife >= 3 /\ MaxGap \in Nat \ {0} /\ MaxLost \in Nat
  /\ RefreshLife \in Nat /\ RefreshLife > (MaxLost + 1) * Period
  /\ Period \in Nat /\ Period = AccessLife + MaxGap + 1
BY SessionAssumption DEF Period

\* Each failure is owed one period, and the refresh token outlives what may be owed.
LEMMA OwedStep ==
  ASSUME NEW n \in 0..MaxLost
  PROVE  /\ Owed(n) \in Nat /\ Owed(n + 1) = Owed(n) + Period
         /\ Owed(n) + Period < RefreshLife
<1>1. n * Period \in Nat /\ (n + 1) * Period = n * Period + Period
  BY Lives, SMT
<1>2. (MaxLost - n) * Period \in Nat
  BY Lives, SMT
<1>3. (MaxLost + 1) * Period = (n + 1) * Period + (MaxLost - n) * Period
  BY Lives, SMT
<1> QED BY <1>1, <1>2, <1>3, Lives, SMT DEF Owed

\* In every state of the invariant the refresh token has some life left.
LEMMA Young ==
  ASSUME SessionInv
  PROVE  Age <= Owed(lost) + Period /\ refresh > 0
<1>1. /\ access \in 0..AccessLife /\ refresh \in 0..RefreshLife
      /\ gap \in 0..MaxGap /\ lost \in 0..MaxLost
  BY DEF SessionInv, SessionTypeOK
<1>2. Age <= Owed(lost) + Period
  <2>1. CASE HalfSaved = {}
    BY <1>1, <2>1, OwedStep, Lives DEF SessionInv, WholeInv, Age
  <2>2. CASE HalfSaved # {}
    BY <1>1, <2>2, OwedStep, Lives DEF SessionInv, HalfInv, Age
  <2> QED BY <2>1, <2>2
<1> QED BY <1>1, <1>2, OwedStep, Lives DEF Age

-----------------------------------------------------------------------------
(* The steps *)

LEMMA OneCall ==
  ASSUME SessionTypeOK, NEW c \in Callers, NEW k \in Calls,
         call' = [call EXCEPT ![c] = k]
  PROVE  /\ call' \in [Callers -> Calls]
         /\ \A d \in Callers : call'[d] = IF d = c THEN k ELSE call[d]
BY DEF SessionTypeOK

LEMMA NoCallType == NoCall \in Calls /\ NoCall.pc = "idle"
BY Lives DEF NoCall, Calls

\* A step that leaves the store, the silence and the threads between the two edits
\* alone disturbs only what is said of the calls.
LEMMA StoreKept ==
  ASSUME SessionInv, UNCHANGED <<access, refresh, gap, lost>>, HalfSaved' = HalfSaved,
         \A d \in HalfSaved : call'[d].old = call[d].old
  PROVE  SilentInv' /\ WholeInv' /\ HalfInv'
<1>1. OldHalf' <=> OldHalf
  BY DEF OldHalf
<1> QED BY <1>1 DEF SessionInv, SilentInv, WholeInv, HalfInv, Age, Owed

\* One call moves on, not into or out of the two edits.
LEMMA CallMoves ==
  ASSUME SessionInv, NEW c \in Callers, NEW k \in Calls,
         call' = [call EXCEPT ![c] = k], UNCHANGED <<access, refresh, gap, lost>>,
         call[c].pc # "saveRefresh", k.pc # "saveRefresh",
         k.pc = "sent" /\ k.token > 0 => Covers(k.token, k.old),
         k.pc = "saveAccess" => k.pair = <<AccessLife, RefreshLife>>
  PROVE  SessionInv'
<1>1. \A d \in Callers : call'[d] = IF d = c THEN k ELSE call[d]
  BY OneCall DEF SessionInv
<1>2. SessionTypeOK'
  BY OneCall DEF SessionInv, SessionTypeOK
<1>3. HalfSaved' = HalfSaved
  BY <1>1 DEF HalfSaved
<1>4. \A d \in HalfSaved : call'[d].old = call[d].old
  BY <1>1 DEF HalfSaved
<1>5. PairInv'
  BY <1>1, Lives DEF SessionInv, PairInv
<1>6. InUseInv'
  BY <1>1 DEF SessionInv, InUseInv, Covers
<1> QED BY <1>2, <1>3, <1>4, <1>5, <1>6, StoreKept DEF SessionInv

LEMMA SendStep ==
  ASSUME SessionInv, NEW c \in Callers, Send(c)
  PROVE  SessionInv'
<1> DEFINE k == [NoCall EXCEPT !.pc = "sent", !.token = access]
<1>1. k \in Calls /\ k.pc = "sent" /\ k.token = access
  BY NoCallType, Lives DEF SessionInv, SessionTypeOK, Calls, NoCall
<1>2. Covers(k.token, k.old)
  BY <1>1 DEF Covers, SessionInv, SessionTypeOK
<1> HIDE DEF k
<1>3. call[c].pc = "idle" /\ call' = [call EXCEPT ![c] = k]
      /\ UNCHANGED <<access, refresh, gap, lost>>
  BY DEF Send, k
<1> QED BY <1>1, <1>2, <1>3, CallMoves

LEMMA DeniedStep ==
  ASSUME SessionInv, NEW c \in Callers, Denied(c)
  PROVE  SessionInv'
<1> DEFINE k == IF TriedTwice(c) THEN NoCall
                ELSE [call[c] EXCEPT !.pc = "refreshing", !.pair = <<0, refresh>>]
<1>1. k \in Calls /\ k.pc \in {"idle", "refreshing"}
  <2>1. call[c] \in Calls /\ <<0, refresh>> \in (0..AccessLife) \X (0..RefreshLife)
    BY Lives DEF SessionInv, SessionTypeOK
  <2>2. [call[c] EXCEPT !.pc = "refreshing", !.pair = <<0, refresh>>] \in Calls
    BY <2>1 DEF Calls
  <2>3. [call[c] EXCEPT !.pc = "refreshing", !.pair = <<0, refresh>>].pc = "refreshing"
    BY <2>1 DEF Calls
  <2> QED BY <2>2, <2>3, NoCallType
<1> HIDE DEF k
<1>2. call[c].pc = "sent" /\ call' = [call EXCEPT ![c] = k]
      /\ UNCHANGED <<access, refresh, gap, lost>>
  BY DEF Denied, k, SessionInv, SessionTypeOK
<1> QED BY <1>1, <1>2, CallMoves

LEMMA RefreshStep ==
  ASSUME SessionInv, NEW c \in Callers, Refresh(c)
  PROVE  SessionInv'
<1> DEFINE k == IF call[c].pair[2] = 0 THEN NoCall
                ELSE [call[c] EXCEPT !.pc = "saveAccess", !.pair = <<AccessLife, RefreshLife>>]
<1>1. /\ k \in Calls /\ k.pc \in {"idle", "saveAccess"}
      /\ k.pc = "saveAccess" => k.pair = <<AccessLife, RefreshLife>>
  <2> DEFINE new == [call[c] EXCEPT !.pc = "saveAccess", !.pair = <<AccessLife, RefreshLife>>]
  <2>1. /\ call[c] \in Calls
        /\ <<AccessLife, RefreshLife>> \in (0..AccessLife) \X (0..RefreshLife)
    BY Lives DEF SessionInv, SessionTypeOK
  <2>2. new \in Calls
    BY <2>1 DEF Calls
  <2>3. new.pc = "saveAccess" /\ new.pair = <<AccessLife, RefreshLife>>
    BY <2>1 DEF Calls
  <2> HIDE DEF new
  <2>4. k = IF call[c].pair[2] = 0 THEN NoCall ELSE new
    BY DEF new
  <2> QED BY <2>2, <2>3, <2>4, NoCallType
<1> HIDE DEF k
<1>2. call[c].pc = "refreshing" /\ call' = [call EXCEPT ![c] = k]
      /\ UNCHANGED <<access, refresh, gap, lost>>
  BY DEF Refresh, Issued, k, SessionInv, SessionTypeOK
<1> QED BY <1>1, <1>2, CallMoves

\* An answer proves the stored access token alive.
LEMMA AnsweredStep ==
  ASSUME SessionInv, NEW c \in Callers, Answered(c)
  PROVE  SessionInv'
<1>1. /\ call[c].pc = "sent" /\ call[c].token > 0
      /\ call' = [call EXCEPT ![c] = NoCall] /\ gap' = 0
      /\ UNCHANGED <<access, refresh, lost>>
  BY DEF Answered
<1>2. \A d \in Callers : call'[d] = IF d = c THEN NoCall ELSE call[d]
  BY <1>1, OneCall, NoCallType DEF SessionInv
<1>3. SessionTypeOK'
  BY <1>1, OneCall, NoCallType, Lives DEF SessionInv, SessionTypeOK
<1>4. access > 0
  BY <1>1, Lives DEF SessionInv, InUseInv, Covers, SessionTypeOK, Calls
<1>5. HalfSaved' = HalfSaved /\ (OldHalf' <=> OldHalf)
  BY <1>1, <1>2, NoCallType DEF HalfSaved, OldHalf
<1>6. PairInv' /\ InUseInv'
  BY <1>1, <1>2, NoCallType DEF SessionInv, PairInv, InUseInv, Covers
<1>7. SilentInv' /\ WholeInv' /\ HalfInv'
  BY <1>1, <1>4, <1>5 DEF SessionInv, SilentInv, WholeInv, HalfInv, Age, Owed
<1> QED BY <1>3, <1>6, <1>7 DEF SessionInv

\* After the first edit the old refresh token has a beat to go.
LEMMA SaveAccessStep ==
  ASSUME SessionInv, NEW c \in Callers, SaveAccess(c)
  PROVE  SessionInv'
<1> DEFINE k == [call[c] EXCEPT !.pc = "saveRefresh"]
<1>0. call[c] \in Calls
  BY DEF SessionInv, SessionTypeOK
<1>1. k \in Calls /\ k.pc = "saveRefresh" /\ k.old = call[c].old /\ k.pair = call[c].pair
  BY <1>0 DEF Calls
<1>2. /\ call[c].pc = "saveAccess" /\ access' = call[c].pair[1]
      /\ call' = [call EXCEPT ![c] = k]
      /\ UNCHANGED <<refresh, gap, lost>>
  BY DEF SaveAccess
<1> HIDE DEF k
<1>3. \A d \in Callers : call'[d] = IF d = c THEN k ELSE call[d]
  BY <1>1, <1>2, OneCall DEF SessionInv
<1>4. access' \in 0..AccessLife /\ access' >= AccessLife - 1
  BY <1>0, <1>2 DEF SessionInv, PairInv, Calls
<1>5. SessionTypeOK'
  BY <1>1, <1>2, <1>4, OneCall DEF SessionInv, SessionTypeOK
<1>6. PairInv' /\ InUseInv' /\ SilentInv'
  BY <1>1, <1>2, <1>3, <1>4, Lives
  DEF SessionInv, PairInv, InUseInv, SilentInv, Covers
<1>7. HalfSaved' # {} /\ (OldHalf => OldHalf')
  BY <1>1, <1>2, <1>3 DEF HalfSaved, OldHalf
<1>8. HalfInv'
  <2>1. /\ access \in 0..AccessLife /\ refresh \in 0..RefreshLife /\ gap \in 0..MaxGap
        /\ Owed(lost) \in Nat
    BY OwedStep DEF SessionInv, SessionTypeOK
  <2>2. Age' = Age /\ Owed(lost)' = Owed(lost) /\ Age \in Int
    BY <1>2, <2>1, Lives DEF Age, Owed
  <2>3. CASE HalfSaved = {}
    <3>1. Age <= Owed(lost) + AccessLife + MaxGap
      BY <2>1, <2>2, <2>3, Lives DEF SessionInv, WholeInv
    <3> QED BY <2>1, <2>2, <3>1, Lives DEF HalfInv
  <2>4. CASE HalfSaved # {}
    BY <1>7, <2>1, <2>2, <2>4, Lives DEF SessionInv, HalfInv
  <2> QED BY <2>3, <2>4
<1> QED BY <1>5, <1>6, <1>7, <1>8 DEF SessionInv, WholeInv

\* The second edit leaves a refresh token of at most a beat.
LEMMA SaveRefreshStep ==
  ASSUME SessionInv, NEW c \in Callers, SaveRefresh(c)
  PROVE  SessionInv'
<1> DEFINE k == [call[c] EXCEPT !.pc = "sent", !.token = call[c].pair[1], !.attempt = 2]
<1>0. call[c] \in Calls
  BY DEF SessionInv, SessionTypeOK
<1>1. /\ k \in Calls /\ k.pc = "sent" /\ k.token = call[c].pair[1] /\ k.old = call[c].old
  <2>1. call[c].pair[1] \in 0..AccessLife /\ 2 \in 1..2
    BY <1>0 DEF Calls
  <2>2. k \in Calls
    BY <1>0, <2>1 DEF Calls
  <2> QED BY <1>0, <2>2 DEF Calls
<1>2. /\ call[c].pc = "saveRefresh" /\ refresh' = call[c].pair[2]
      /\ call' = [call EXCEPT ![c] = k]
      /\ UNCHANGED <<access, gap, lost>>
  BY <1>0 DEF SaveRefresh, Calls, SessionInv, SessionTypeOK
<1> HIDE DEF k
<1>3. \A d \in Callers : call'[d] = IF d = c THEN k ELSE call[d]
  BY <1>1, <1>2, OneCall DEF SessionInv
<1>4. refresh' \in 0..RefreshLife /\ refresh' >= RefreshLife - 1
  BY <1>0, <1>2 DEF SessionInv, PairInv, Calls
<1>5. SessionTypeOK'
  BY <1>1, <1>2, <1>4, OneCall DEF SessionInv, SessionTypeOK
<1>6. PairInv' /\ SilentInv'
  BY <1>1, <1>2, <1>3 DEF SessionInv, PairInv, SilentInv
<1>7. InUseInv'
  BY <1>1, <1>2, <1>3 DEF SessionInv, InUseInv, Covers
<1>8. Age' <= 1 /\ Owed(lost)' \in Nat
  BY <1>2, <1>4, OwedStep, Lives DEF Age, Owed, SessionInv, SessionTypeOK
<1>9. access' \in 0..AccessLife /\ gap' \in Nat /\ Age' \in Int
  BY <1>2, <1>4, Lives DEF SessionInv, SessionTypeOK, Age
<1>10. WholeInv' /\ HalfInv'
  BY <1>8, <1>9, Lives DEF WholeInv, HalfInv
<1> QED BY <1>5, <1>6, <1>7, <1>10 DEF SessionInv

\* A failure is owed a period.
LEMMA LoseAnswerStep ==
  ASSUME SessionInv, NEW c \in Callers, LoseAnswer(c)
  PROVE  SessionInv'
<1>1. /\ call[c].pc \in {"sent", "refreshing"} /\ lost < MaxLost /\ lost' = lost + 1
      /\ call' = [call EXCEPT ![c] = NoCall]
      /\ UNCHANGED <<access, refresh, gap>>
  BY DEF LoseAnswer
<1>2. \A d \in Callers : call'[d] = IF d = c THEN NoCall ELSE call[d]
  BY <1>1, OneCall, NoCallType DEF SessionInv
<1>3. SessionTypeOK'
  BY <1>1, OneCall, NoCallType, Lives DEF SessionInv, SessionTypeOK
<1>4. PairInv' /\ InUseInv' /\ SilentInv'
  BY <1>1, <1>2, NoCallType DEF SessionInv, PairInv, InUseInv, SilentInv, Covers
<1>5. Age' = Age /\ Owed(lost)' = Owed(lost) + Period
  BY <1>1, OwedStep DEF Age, Owed, SessionInv, SessionTypeOK
<1>6. Age' <= Owed(lost)' /\ Owed(lost)' \in Nat /\ Age' \in Int
  BY <1>5, Young, OwedStep, Lives DEF SessionInv, SessionTypeOK, Age
<1>7. access' \in 0..AccessLife /\ gap' \in Nat
  BY <1>1, Lives DEF SessionInv, SessionTypeOK
<1>8. WholeInv' /\ HalfInv'
  BY <1>6, <1>7, Lives DEF WholeInv, HalfInv
<1> QED BY <1>3, <1>4, <1>8 DEF SessionInv

LEMMA ProcessDiesStep ==
  ASSUME SessionInv, ProcessDies
  PROVE  SessionInv'
<1>1. /\ lost < MaxLost /\ lost' = lost + 1
      /\ call' = [d \in Callers |-> NoCall]
      /\ UNCHANGED <<access, refresh, gap>>
  BY DEF ProcessDies
<1>2. SessionTypeOK'
  BY <1>1, NoCallType, Lives DEF SessionInv, SessionTypeOK
<1>3. PairInv' /\ InUseInv' /\ SilentInv' /\ HalfSaved' = {}
  BY <1>1, NoCallType DEF SessionInv, PairInv, InUseInv, SilentInv, HalfSaved
<1>4. Age' = Age /\ Owed(lost)' = Owed(lost) + Period
  BY <1>1, OwedStep DEF Age, Owed, SessionInv, SessionTypeOK
<1>5. Age' <= Owed(lost)' /\ Owed(lost)' \in Nat /\ Age' \in Int
  BY <1>4, Young, OwedStep, Lives DEF SessionInv, SessionTypeOK, Age
<1>6. access' \in 0..AccessLife /\ gap' \in Nat
  BY <1>1, Lives DEF SessionInv, SessionTypeOK
<1>7. WholeInv' /\ HalfInv'
  BY <1>3, <1>5, <1>6, Lives DEF WholeInv, HalfInv
<1> QED BY <1>2, <1>3, <1>7 DEF SessionInv

-----------------------------------------------------------------------------
(* A beat *)

LEMMA OlderType ==
  ASSUME NEW m \in Nat, NEW t \in 0..m
  PROVE  Older(t) \in 0..m /\ (t > 0 => Older(t) = t - 1) /\ (t = 0 => Older(t) = 0)
BY DEF Older

LEMMA BeatCalls ==
  ASSUME SessionInv, Beat, NEW c \in Callers
  PROVE  /\ call'[c] \in Calls /\ call'[c].pc = call[c].pc
         /\ call'[c].token = Older(call[c].token)
         /\ call'[c].pair = <<Older(call[c].pair[1]), Older(call[c].pair[2])>>
         /\ call'[c].old = (call[c].pc # "idle") /\ ~call[c].old
<1>1. call[c] \in Calls
  BY DEF SessionInv, SessionTypeOK
<1>2. call'[c] = [call[c] EXCEPT !.token = Older(@),
                                 !.pair = <<Older(@[1]), Older(@[2])>>,
                                 !.old = call[c].pc # "idle"]
  BY DEF Beat
<1>3. Older(call[c].token) \in 0..AccessLife
  BY <1>1, OlderType, Lives DEF Calls
<1>4. /\ Older(call[c].pair[1]) \in 0..AccessLife
      /\ Older(call[c].pair[2]) \in 0..RefreshLife
  BY <1>1, OlderType, Lives DEF Calls
<1> QED BY <1>1, <1>2, <1>3, <1>4 DEF Beat, Calls

LEMMA BeatStep ==
  ASSUME SessionInv, Beat
  PROVE  SessionInv'
<1>1. /\ gap < MaxGap /\ gap' = gap + 1 /\ lost' = lost
      /\ access' = Older(access) /\ refresh' = Older(refresh)
  BY DEF Beat
<1>2. /\ access \in 0..AccessLife /\ refresh \in 0..RefreshLife
      /\ gap \in 0..MaxGap /\ lost \in 0..MaxLost /\ Owed(lost) \in Nat
  BY OwedStep DEF SessionInv, SessionTypeOK
<1>3. /\ access' \in 0..AccessLife /\ refresh' = refresh - 1
      /\ access > 0 => access' = access - 1
      /\ access = 0 => access' = 0
  BY <1>1, <1>2, Young, OlderType, Lives
<1>4. call' \in [Callers -> Calls]
  <2>1. call' = [c \in Callers |-> call'[c]]
    BY DEF Beat
  <2> QED BY <2>1, BeatCalls
<1>5. SessionTypeOK'
  BY <1>1, <1>2, <1>3, <1>4, Young, Lives DEF SessionTypeOK
<1>6. HalfSaved' = HalfSaved /\ (HalfSaved # {} => OldHalf') /\ ~OldHalf
  BY BeatCalls DEF HalfSaved, OldHalf
<1>7. ASSUME NEW c \in Callers, call[c].pc \in {"saveAccess", "saveRefresh"}
      PROVE  /\ call[c].pair = <<AccessLife, RefreshLife>>
             /\ call'[c].pair[1] = AccessLife - 1 /\ call'[c].pair[2] = RefreshLife - 1
             /\ call'[c].old
  <2>1. call[c].pair = <<AccessLife, RefreshLife>>
    BY <1>7, BeatCalls DEF SessionInv, PairInv
  <2>2. RefreshLife > 0
    BY <1>2, Young, Lives
  <2>3. call[c].pair[1] = AccessLife /\ call[c].pair[2] = RefreshLife
    BY <2>1
  <2>4. Older(AccessLife) = AccessLife - 1 /\ Older(RefreshLife) = RefreshLife - 1
    BY <2>2, Lives DEF Older
  <2>5. call'[c].pair = <<AccessLife - 1, RefreshLife - 1>> /\ call'[c].old
    BY <1>7, <2>3, <2>4, BeatCalls
  <2> QED BY <2>1, <2>5
<1>8. PairInv'
  BY <1>7, BeatCalls, Lives DEF PairInv
<1>9. InUseInv'
  <2>1. ASSUME NEW c \in Callers, call'[c].pc = "sent", call'[c].token > 0
        PROVE  call'[c].token <= access' \/ (call'[c].old /\ access' >= AccessLife - 2)
    <3>1. call[c].pc = "sent" /\ call'[c].old /\ ~call[c].old
      BY <2>1, BeatCalls
    <3>2. call[c].token \in 0..AccessLife
      BY DEF SessionInv, SessionTypeOK, Calls
    <3>3. call[c].token > 0 /\ call'[c].token = call[c].token - 1
      BY <2>1, <3>2, BeatCalls, OlderType, Lives
    <3>4. call[c].token <= access \/ access >= AccessLife - 1
      BY <3>1, <3>3 DEF SessionInv, InUseInv, Covers
    <3>5. call'[c].token <= access' \/ access' >= AccessLife - 2
      BY <1>2, <1>3, <3>2, <3>3, <3>4, Lives
    <3> QED BY <3>1, <3>5
  <2>2. ASSUME NEW c \in Callers, call'[c].pc = "saveRefresh"
        PROVE  call'[c].old /\ access' >= AccessLife - 2
    <3>1. call[c].pc = "saveRefresh" /\ ~call[c].old
      BY <2>2, BeatCalls
    <3>2. call[c].pair[1] = AccessLife /\ call'[c].old
      BY <1>7, <3>1
    <3>3. access >= AccessLife - 1
      BY <1>2, <3>1, <3>2, Lives DEF SessionInv, InUseInv, Covers
    <3>4. access' >= AccessLife - 2
      BY <1>2, <1>3, <3>3, Lives
    <3> QED BY <3>2, <3>4
  <2> QED BY <2>1, <2>2 DEF InUseInv, Covers
<1>10. SilentInv'
  BY <1>1, <1>2 DEF SilentInv
<1>11. Age' = Age + 1 /\ Owed(lost)' = Owed(lost) /\ Age \in Int
  BY <1>1, <1>2, <1>3, Lives DEF Age, Owed
<1>12. WholeInv'
  <2>1. CASE HalfSaved # {}
    BY <1>6, <2>1 DEF WholeInv
  <2>2. CASE HalfSaved = {}
    <3>1. Age <= Owed(lost) + (AccessLife - access) + (IF access = 0 THEN gap ELSE 1)
      BY <2>2 DEF SessionInv, WholeInv
    <3>2. Age + 1 <= Owed(lost) + (AccessLife - access') + (IF access' = 0 THEN gap + 1 ELSE 1)
      BY <1>2, <1>3, <1>11, <3>1, Lives
    <3> QED BY <1>1, <1>11, <3>2 DEF WholeInv
  <2> QED BY <2>1, <2>2
<1>13. HalfInv'
  BY <1>2, <1>6, <1>11, Lives DEF SessionInv, HalfInv
<1> QED BY <1>5, <1>8, <1>9, <1>10, <1>12, <1>13 DEF SessionInv

-----------------------------------------------------------------------------
(* The theorems *)

LEMMA SessionStart ==
  ASSUME SessionInit
  PROVE  SessionInv
<1>1. SessionTypeOK /\ HalfSaved = {}
  BY NoCallType, Lives DEF SessionInit, SessionTypeOK, HalfSaved
<1>2. PairInv /\ InUseInv /\ SilentInv
  BY NoCallType, Lives DEF SessionInit, PairInv, InUseInv, SilentInv
<1>3. Age = 0 /\ Owed(lost) \in Nat
  BY OwedStep, Lives DEF SessionInit, Age
<1>4. WholeInv
  BY <1>3, Lives DEF SessionInit, WholeInv
<1> QED BY <1>1, <1>2, <1>4 DEF SessionInv, HalfInv

LEMMA SessionStep ==
  ASSUME SessionInv, [SessionNext]_sessionVars
  PROVE  SessionInv'
<1>1. CASE UNCHANGED sessionVars
  BY <1>1 DEF sessionVars, SessionInv, SessionTypeOK, PairInv, InUseInv, Covers, SilentInv,
              WholeInv, HalfInv, HalfSaved, OldHalf, Age, Owed
<1>2. CASE SessionNext
  BY <1>2, SendStep, AnsweredStep, DeniedStep, RefreshStep, SaveAccessStep, SaveRefreshStep,
     LoseAnswerStep, ProcessDiesStep, BeatStep DEF SessionNext, CallStep
<1> QED BY <1>1, <1>2

LEMMA SessionInvariant == SessionSpec => []SessionInv
BY SessionStart, SessionStep, PTL DEF SessionSpec

\* The tokens and the calls keep their types: no life runs below zero and no call is
\* tried a third time.
THEOREM SessionTypes == SessionSpec => []SessionTypeOK
<1>1. SessionInv => SessionTypeOK
  BY DEF SessionInv
<1> QED BY <1>1, SessionInvariant, PTL

\* The stored refresh token never dies, for any number of threads, any lives that
\* leave a period for each failure, and any failures: PhoneSession's two edits and
\* racing refreshes.
THEOREM SessionNeverLoggedOut == SessionSpec => []NeverLoggedOut
<1>1. SessionInv => NeverLoggedOut
  BY Young DEF NeverLoggedOut
<1> QED BY <1>1, SessionInvariant, PTL
=============================================================================
