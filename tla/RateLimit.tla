----------------------------- MODULE RateLimit ------------------------------
(***************************************************************************)
(* SharedRateLimitMiddleware of app/shared.py: a deque of admission times  *)
(* per client.  The check and the append happen without an await between   *)
(* them, so a request is one step.  Time is time.monotonic in whole ticks, *)
(* several requests may share one.                                         *)
(***************************************************************************)
EXTENDS Naturals, Sequences, FiniteSets

CONSTANTS
    Clients,
    Requests,    \* the limit: requests
    Window,      \* window_seconds
    MaxTime,     \* bound on the clock
    MaxArrivals  \* bound on the requests of one client

RateLimitAssumption ==
    Requests \in Nat \ {0} /\ Window \in Nat \ {0} /\ MaxTime \in Nat

VARIABLES
    now,
    events,      \* client -> times kept
    admitted,    \* history: client -> times of all requests let through
    refused      \* history: client -> times of all requests turned away

vars == <<now, events, admitted, refused>>

Init ==
    /\ now = 0
    /\ events = [c \in Clients |-> <<>>]
    /\ admitted = [c \in Clients |-> <<>>]
    /\ refused = [c \in Clients |-> {}]

Tick == now < MaxTime /\ now' = now + 1 /\ UNCHANGED <<events, admitted, refused>>

\* Mutant of Expired: an event one window old is still counted.
ExpiredLate(e) == e + Window < now

\* events[0] <= now - window.
Expired(e) == e + Window <= now

\* How often popleft is called: until the deque is empty or its first event counts.
Popped(s) ==
    CHOOSE n \in 0..Len(s) :
        /\ \A k \in 1..n : Expired(s[k])
        /\ n < Len(s) => ~Expired(s[n + 1])

\* The deque after the loop.
Kept(s) == [k \in 1..(Len(s) - Popped(s)) |-> s[Popped(s) + k]]

\* Mutant of Full: one more is let in.
FullLate(s) == Len(s) > Requests

Full(s) == Len(s) >= Requests

Request(c) ==
    /\ Len(admitted[c]) + Cardinality(refused[c]) < MaxArrivals
    /\ LET kept == Kept(events[c]) IN
       \/ /\ Full(kept)
          /\ events' = [events EXCEPT ![c] = kept]
          /\ refused' = [refused EXCEPT ![c] = @ \cup {now}]
          /\ UNCHANGED admitted
       \/ /\ ~Full(kept)
          /\ events' = [events EXCEPT ![c] = Append(kept, now)]
          /\ admitted' = [admitted EXCEPT ![c] = Append(@, now)]
          /\ UNCHANGED refused
    /\ UNCHANGED now

Next == Tick \/ \E c \in Clients : Request(c)

Spec == Init /\ [][Next]_vars

----------------------------------------------------------------------------
AdmittedIn(c, from, to) ==
    Cardinality({k \in DOMAIN admitted[c] : from <= admitted[c][k] /\ admitted[c][k] < to})

\* In no window of window_seconds, wherever it begins, is a client let in more
\* than the limit: the window slides, it does not start over.
NeverOverLimit ==
    \A c \in Clients, t \in 0..MaxTime : AdmittedIn(c, t, t + Window) <= Requests

\* A client is turned away only when it has used its limit within the window
\* that ends now: what is older has been forgotten, and what other clients do
\* does not count.
RefusedOnlyAtLimit ==
    \A c \in Clients : \A t \in refused[c] :
        Cardinality({k \in DOMAIN admitted[c] : t < admitted[c][k] + Window
                                                /\ admitted[c][k] <= t}) = Requests

\* In no window is a client let in more than its limit, and it is turned away
\* only when it has used it (SharedRateLimitMiddleware).
LimitExact == NeverOverLimit /\ RefusedOnlyAtLimit

----------------------------------------------------------------------------
\* What makes LimitExact inductive.

\* Times are numbers up to now, and a client is let in in their order.
TypeOK ==
    /\ now \in 0..MaxTime
    /\ events \in [Clients -> Seq(Nat)]
    /\ admitted \in [Clients -> Seq(Nat)]
    /\ refused \in [Clients -> SUBSET (0..now)]

\* The deque holds the latest admissions, at most the limit, and what it no
\* longer holds has left the window.
DequeInv(c) ==
    LET forgotten == Len(admitted[c]) - Len(events[c]) IN
    /\ forgotten \in Nat /\ Len(events[c]) <= Requests
    /\ \A k \in 1..Len(events[c]) : events[c][k] = admitted[c][forgotten + k]
    /\ \A k \in 1..forgotten : admitted[c][k] + Window <= now

\* Admissions are in order, and two that are as far apart as the limit are as
\* far apart as the window.
SpacedInv(c) ==
    /\ \A k \in 1..Len(admitted[c]) : admitted[c][k] <= now
    /\ \A j, k \in 1..Len(admitted[c]) : j <= k => admitted[c][j] <= admitted[c][k]
    /\ \A j, k \in 1..Len(admitted[c]) : j + Requests = k => admitted[c][j] + Window <= admitted[c][k]

\* When a request was refused, the window held the limit: the admissions after
\* the m-th.
UsedUp(c, t, m) ==
    /\ m + Requests <= Len(admitted[c])
    /\ \A k \in 1..m : admitted[c][k] + Window <= t
    /\ \A k \in (m + 1)..(m + Requests) : t < admitted[c][k] + Window /\ admitted[c][k] <= t
    /\ \A k \in (m + Requests + 1)..Len(admitted[c]) : t < admitted[c][k]

RefusedInv(c) == \A t \in refused[c] : \E m \in Nat : UsedUp(c, t, m)

LimitInv == TypeOK /\ \A c \in Clients : DequeInv(c) /\ SpacedInv(c) /\ RefusedInv(c)
=============================================================================
