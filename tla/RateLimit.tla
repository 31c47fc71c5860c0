------------------------------- MODULE RateLimit -------------------------------
(***************************************************************************)
(* RateLimitMiddleware with Redis: one counter per client and window, shared *)
(* by the threads and processes that serve requests.  INCR and EXPIRE are   *)
(* two calls.  One client address.                                          *)
(***************************************************************************)
EXTENDS Integers

CONSTANTS
  Servers,        \* requests that may be served at a time
  MaxRequests,    \* _MAX_REQUESTS_PER_WINDOW
  MaxHiccups      \* bound on Redis calls that fail

ASSUME RateAssumption == MaxRequests \in Nat \ {0} /\ MaxHiccups \in Nat

VARIABLES
  counter,    \* the key's value, counted up to MaxRequests + 1; 0: no key
  expires,    \* the key has a time to live
  serving,    \* per request: none, first (its INCR made the key) or counted
  admitted,   \* history: requests of this window that were counted and let through
  hiccups

rateVars == <<counter, expires, serving, admitted, hiccups>>

RateInit ==
  /\ counter = 0 /\ expires = FALSE
  /\ serving = [s \in Servers |-> "none"] /\ admitted = 0 /\ hiccups = 0

Capped(n) == IF n > MaxRequests + 1 THEN MaxRequests + 1 ELSE n

\* Variant: off by one.
OverByOne(n) == n > MaxRequests + 1

Over(n) == n > MaxRequests

\* INCR: the answer decides whether this request sets the time to live and whether
\* it is let through; both are settled here, for others cannot change the answer.
Count(s) ==
  LET n == counter + 1
  IN  /\ serving[s] = "none"
      /\ counter' = Capped(n)
      /\ serving' = [serving EXCEPT ![s] = IF n = 1 THEN "first" ELSE "counted"]
      /\ admitted' = IF Over(Capped(n)) THEN admitted ELSE admitted + 1
      /\ UNCHANGED <<expires, hiccups>>

\* Variant: the key never gets a time to live.
SkipExpire(s) ==
  /\ serving[s] = "first"
  /\ serving' = [serving EXCEPT ![s] = "counted"]
  /\ UNCHANGED <<counter, expires, admitted, hiccups>>

\* EXPIRE
SetExpiry(s) ==
  /\ serving[s] = "first"
  /\ expires' = TRUE
  /\ serving' = [serving EXCEPT ![s] = "counted"]
  /\ UNCHANGED <<counter, admitted, hiccups>>

\* The request is answered, by the application or with a 429.
Answer(s) ==
  /\ serving[s] = "counted"
  /\ serving' = [serving EXCEPT ![s] = "none"]
  /\ UNCHANGED <<counter, expires, admitted, hiccups>>

\* EXPIRE raises: the request is let through, the key stays without an end.
LoseExpire(s) ==
  /\ serving[s] = "first" /\ hiccups < MaxHiccups
  /\ serving' = [serving EXCEPT ![s] = "counted"] /\ hiccups' = hiccups + 1
  /\ UNCHANGED <<counter, expires, admitted>>

\* The window is over: Redis drops the key.
WindowEnds ==
  /\ expires
  /\ counter' = 0 /\ expires' = FALSE /\ admitted' = 0
  /\ UNCHANGED <<serving, hiccups>>

ServeStep(s) == Count(s) \/ SetExpiry(s) \/ Answer(s)

RateNext == \/ \E s \in Servers : ServeStep(s) \/ LoseExpire(s)
            \/ WindowEnds

RateSpec == RateInit /\ [][RateNext]_rateVars

RateFairSpec ==
  RateSpec /\ WF_rateVars(WindowEnds) /\ \A s \in Servers : WF_rateVars(SetExpiry(s))

-----------------------------------------------------------------------------
(* Properties *)

\* No window lets more requests through than the limit, however many are served at
\* a time.
WindowCapped == admitted <= MaxRequests

Blocked == Over(counter)

\* The key has lost its only chance of a time to live: every request sees a count
\* beyond the first.
NeverExpires == counter > 0 /\ ~expires /\ \A s \in Servers : serving[s] # "first"

\* A client that hit the limit is let in again, though it goes on asking, except
\* where a Redis failure has left the key without an end.
LetInAgain == Blocked ~> ~Blocked \/ (NeverExpires /\ hiccups > 0)
=============================================================================
