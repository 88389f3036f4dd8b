----------------------------- MODULE RateLimits -----------------------------
(***************************************************************************)
(* How often a user or an address may call: the counters in Redis          *)
(* (redis_client.py; _rate_limit_smart_agent in main.py, the password and  *)
(* e-mail limits in auth.py) and the lists of times in the memory of the   *)
(* server (RateLimiter in main.py and in main_limiter.py), which also      *)
(* stand in for Redis while it does not answer.                            *)
(*                                                                         *)
(* A counter is raised and its time to live read in one transaction of     *)
(* Redis; the time to live is set in a second call, when there is none.    *)
(* The handlers run in threads, and RateLimiter.check takes no lock: each  *)
(* of its tests and changes of the list is a step.                         *)
(***************************************************************************)
EXTENDS Integers, Sequences, FiniteSets, Functions

CONSTANTS RateCallers, \* handlers under way
          RateKeys,    \* one user or address, for one purpose
          RateLimit,   \* calls a window admits
          RateWindow,
          ClockBound, BreakBound, CountBound \* bounds of the model

ASSUME RateConstants ==
    /\ RateLimit \in Nat \ {0} /\ RateWindow \in Nat \ {0} /\ ClockBound \in Nat
    /\ BreakBound \in Nat /\ CountBound \in Nat
    /\ RateKeys \subseteq Nat /\ IsFiniteSet(RateCallers)

VARIABLES clock,   \* time.monotonic()
          hits,    \* events[key]
          rater,   \* the handlers
          counter, \* the keys in Redis; expires: Redis has a time to live
          breaks,  \* calls of Redis that failed after the counter was raised
          admitted,\* how many calls the list has admitted, by their time
          dropped  \* times removed from a list before their window was over

rateVars == <<clock, hits, rater, counter, breaks, admitted, dropped>>

Rater == [pc : {"idle", "raise", "expire", "decide", "prune", "pop", "count", "append"},
          keys : SUBSET RateKeys, all : SUBSET RateKeys, over : BOOLEAN, missed : BOOLEAN, now : 0..ClockBound]

IdleRater == [pc |-> "idle", keys |-> {}, all |-> {}, over |-> FALSE, missed |-> FALSE, now |-> 0]

RateInit ==
    /\ clock = 0
    /\ hits = [k \in RateKeys |-> <<>>]
    /\ rater = [c \in RateCallers |-> IdleRater]
    /\ counter = [k \in RateKeys |-> [count |-> 0, expires |-> FALSE]]
    /\ breaks = 0
    /\ admitted = [k \in RateKeys |-> [t \in 0..ClockBound |-> 0]]
    /\ dropped = [k \in RateKeys |-> 0]

\* The key a handler is at: the user's before the address's.
At(c, k) == k \in rater[c].keys /\ \A l \in rater[c].keys : k <= l

----------------------------------------------------------------------------
(* Counters in Redis *)

\* _rate_limit_smart_agent: a chat counts for the address, a picture for user
\* and address.
BeginLimited(c, ks) ==
    /\ rater[c].pc = "idle" /\ ks # {}
    /\ rater' = [rater EXCEPT ![c] = [IdleRater EXCEPT !.pc = "raise", !.keys = ks, !.all = ks]]
    /\ UNCHANGED <<clock, hits, counter, breaks, admitted, dropped>>

\* On to the next key; after the last one the limits are compared.
RaisedKey(c, k, over, missed) ==
    rater' = [rater EXCEPT ![c] = [rater[c] EXCEPT
        !.keys = rater[c].keys \ {k},
        !.pc = IF rater[c].keys = {k} THEN "decide" ELSE "raise",
        !.over = rater[c].over \/ over,
        !.missed = rater[c].missed \/ missed]]

\* Mutant: only the call that finds no counter gives it a time to live.
RaiseExpiresFirst(c, k) ==
    LET count == counter[k].count + 1 IN
    /\ rater[c].pc = "raise" /\ At(c, k) /\ count <= CountBound
    /\ counter' = [counter EXCEPT ![k].count = count]
    /\ IF count > 1 THEN RaisedKey(c, k, count > RateLimit, FALSE)
       ELSE rater' = [rater EXCEPT ![c].pc = "expire"]
    /\ UNCHANGED <<clock, hits, breaks, admitted, dropped>>

\* incr_with_ttl: INCR and TTL ...
Raise(c, k) ==
    LET count == counter[k].count + 1 IN
    /\ rater[c].pc = "raise" /\ At(c, k) /\ count <= CountBound
    /\ counter' = [counter EXCEPT ![k].count = count]
    /\ IF counter[k].expires THEN RaisedKey(c, k, count > RateLimit, FALSE)
       ELSE rater' = [rater EXCEPT ![c].pc = "expire"]
    /\ UNCHANGED <<clock, hits, breaks, admitted, dropped>>

\* ... and EXPIRE.  (What is compared is the count the transaction returned,
\* which another call may have raised by now; that call is over the limit too.)
Expire(c, k) ==
    /\ rater[c].pc = "expire" /\ At(c, k)
    /\ counter' = [counter EXCEPT ![k].expires = counter[k].count > 0]
    /\ RaisedKey(c, k, counter[k].count > RateLimit, FALSE)
    /\ UNCHANGED <<clock, hits, breaks, admitted, dropped>>

\* Redis does not answer: _safe returns None and asks nobody for 30 seconds.
RedisFails(c, k) ==
    /\ rater[c].pc \in {"raise", "expire"} /\ At(c, k)
    /\ IF rater[c].pc = "expire" THEN breaks < BreakBound /\ breaks' = breaks + 1 ELSE breaks' = breaks
    /\ RaisedKey(c, k, FALSE, TRUE)
    /\ UNCHANGED <<clock, hits, counter, admitted, dropped>>

\* The process ends before EXPIRE.
RaterDies(c) ==
    /\ rater[c].pc = "expire" /\ breaks < BreakBound
    /\ breaks' = breaks + 1
    /\ rater' = [rater EXCEPT ![c] = IdleRater]
    /\ UNCHANGED <<clock, hits, counter, admitted, dropped>>

\* Redis drops the key, or a successful login deletes it.
CounterEnds(k) ==
    /\ counter[k].expires
    /\ counter' = [counter EXCEPT ![k] = [count |-> 0, expires |-> FALSE]]
    /\ UNCHANGED <<clock, hits, rater, breaks, admitted, dropped>>

\* Over the limit: refused.  Redis missing for a key: the lists decide.
Decide(c) ==
    /\ rater[c].pc = "decide"
    /\ rater' = [rater EXCEPT ![c] =
                    IF rater[c].missed /\ ~rater[c].over
                    THEN [@ EXCEPT !.pc = "prune", !.keys = rater[c].all, !.now = clock]
                    ELSE IdleRater]
    /\ UNCHANGED <<clock, hits, counter, breaks, admitted, dropped>>

----------------------------------------------------------------------------
(* Lists in memory *)

\* limiter.check of a handler that has no counter in Redis.
BeginListed(c, k) ==
    /\ rater[c].pc = "idle"
    /\ rater' = [rater EXCEPT ![c] = [IdleRater EXCEPT !.pc = "prune", !.keys = {k}, !.all = {k}, !.now = clock]]
    /\ UNCHANGED <<clock, hits, counter, breaks, admitted, dropped>>

Old(time, now) == time <= now - RateWindow

\* The test of the while loop ...
Prune(c, k) ==
    /\ rater[c].pc = "prune" /\ At(c, k)
    /\ rater' = [rater EXCEPT ![c].pc = IF hits[k] # <<>> /\ Old(Head(hits[k]), rater[c].now) THEN "pop" ELSE "count"]
    /\ UNCHANGED <<clock, hits, counter, breaks, admitted, dropped>>

\* ... and its popleft, of whatever is first by now; an empty list raises.
Pop(c, k) ==
    /\ rater[c].pc = "pop" /\ At(c, k)
    /\ IF hits[k] = <<>>
       THEN rater' = [rater EXCEPT ![c] = IdleRater] /\ UNCHANGED <<hits, dropped>>
       ELSE /\ hits' = [hits EXCEPT ![k] = Tail(@)]
            /\ dropped' = [dropped EXCEPT ![k] = IF Old(Head(hits[k]), rater[c].now) THEN @ ELSE @ + 1]
            /\ rater' = [rater EXCEPT ![c].pc = "prune"]
    /\ UNCHANGED <<clock, counter, breaks, admitted>>

\* Mutant: a list that is as long as the limit still admits one.
CountPastLimit(c, k) ==
    /\ rater[c].pc = "count" /\ At(c, k)
    /\ rater' = [rater EXCEPT ![c] = IF Len(hits[k]) > RateLimit THEN IdleRater ELSE [@ EXCEPT !.pc = "append"]]
    /\ UNCHANGED <<clock, hits, counter, breaks, admitted, dropped>>

\* len(queue) >= limit refuses.
Count(c, k) ==
    /\ rater[c].pc = "count" /\ At(c, k)
    /\ rater' = [rater EXCEPT ![c] = IF Len(hits[k]) >= RateLimit THEN IdleRater ELSE [@ EXCEPT !.pc = "append"]]
    /\ UNCHANGED <<clock, hits, counter, breaks, admitted, dropped>>

\* queue.append(now), the time the check began; then the next key.
AppendHit(c, k) ==
    /\ rater[c].pc = "append" /\ At(c, k)
    /\ hits' = [hits EXCEPT ![k] = Append(@, rater[c].now)]
    /\ admitted' = [admitted EXCEPT ![k][rater[c].now] = @ + 1]
    /\ rater' = [rater EXCEPT ![c] = IF rater[c].keys = {k} THEN IdleRater
                                     ELSE [@ EXCEPT !.pc = "prune", !.keys = rater[c].keys \ {k}, !.now = clock]]
    /\ UNCHANGED <<clock, counter, breaks, dropped>>

RateTick ==
    /\ clock < ClockBound
    /\ clock' = clock + 1
    /\ UNCHANGED <<hits, rater, counter, breaks, admitted, dropped>>

RateNext ==
    \/ \E c \in RateCallers :
           \/ \E ks \in SUBSET RateKeys : BeginLimited(c, ks)
           \/ Decide(c)
           \/ RaterDies(c)
           \/ \E k \in RateKeys :
                  \/ Raise(c, k) \/ Expire(c, k) \/ RedisFails(c, k)
                  \/ BeginListed(c, k) \/ Prune(c, k) \/ Pop(c, k) \/ Count(c, k) \/ AppendHit(c, k)
    \/ \E k \in RateKeys : CounterEnds(k)
    \/ RateTick

RateSpec == RateInit /\ [][RateNext]_rateVars

----------------------------------------------------------------------------
(* Properties *)

RateTypeOK ==
    /\ clock \in 0..ClockBound
    /\ hits \in [RateKeys -> Seq(0..ClockBound)]
    /\ rater \in [RateCallers -> Rater]
    /\ counter \in [RateKeys -> [count : Nat, expires : BOOLEAN]]
    /\ breaks \in 0..BreakBound
    /\ admitted \in [RateKeys -> [0..ClockBound -> Nat]]
    /\ dropped \in [RateKeys -> Nat]

\* The handlers that have raised a counter and still have to give it a time to
\* live.
Waiting(k) == {c \in RateCallers : rater[c].pc = "expire" /\ At(c, k)}

\* A counter that Redis keeps for ever stays small: as high as there were
\* failures and calls under way.  So it takes as many failures as the limit
\* has calls before a user is locked out for good - for one who is refused
\* before he is counted, as with passwords, nobody would set the time to live.
LockoutEnds ==
    \A k \in RateKeys :
        ~counter[k].expires
            => counter[k].count <= breaks + Cardinality(Waiting(k))

\* The times of the window that ends now.
Window == {t \in 0..ClockBound : ~Old(t, clock)}

\* The list has no lock, yet what it admitted in the last window exceeds the
\* limit only by the calls that ran beside one another, and by the times a
\* thread took from the list because another thread had taken the old one
\* first: a thread that was slow to start or to append adds nothing more.
WindowAlmostKept ==
    \A k \in RateKeys :
        SumFunctionOnSet(admitted[k], Window) <= RateLimit + Cardinality(RateCallers) - 1 + dropped[k]

\* Why: a handler that has counted leaves room for the others that have; what
\* was admitted within the window is still listed or was dropped, whichever
\* times are looked at; and no handler's time is ahead of the clock.
Appending(k) == {c \in RateCallers : rater[c].pc = "append" /\ At(c, k)}
ListsStayShort ==
    \A k \in RateKeys :
        Len(hits[k]) + Cardinality(Appending(k)) <= RateLimit - 1 + Cardinality(RateCallers)

TimesListed(k, T) == {i \in DOMAIN hits[k] : hits[k][i] \in T}
RecentIsListed ==
    \A k \in RateKeys, T \in SUBSET Window :
        SumFunctionOnSet(admitted[k], T) <= Cardinality(TimesListed(k, T)) + dropped[k]

NowIsPast == \A c \in RateCallers : rater[c].now <= clock

WindowInv == NowIsPast /\ ListsStayShort /\ RecentIsListed
=============================================================================
