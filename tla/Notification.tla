---------------------------- MODULE Notification ----------------------------
(***************************************************************************)
(* The notification service's rate limit. A consumer of each topic         *)
(* (processMessage, under the key "all") and SendNotification (under the   *)
(* channel's key) ask RateLimiter.Allow before they insert a pending       *)
(* notification. Allow sends INCR and EXPIRE to Redis in one pipeline,     *)
(* which is no transaction: other senders' commands, and the end of the    *)
(* key's life, fall between them.                                          *)
(*                                                                         *)
(* The rows are left out: they are inserted as pending and no code of the  *)
(* repository takes them any further.                                      *)
(***************************************************************************)
EXTENDS FiniteSets, Naturals, Sequences

CONSTANTS Channels, \* the keys notif:rl:<tenant>:<channel>
          Senders,  \* consumers and SendNotification calls
          Limit,    \* RateLimiter.limit
          Window,   \* rateLimitWindow, in ticks
          MaxCount  \* bound: the value of a counter

VARIABLES count,   \* the value of each key; 0 when Redis has none
          ttl,     \* the ticks it has left; 0 when it has no time to live
          sender,  \* what each sender is doing
          admitted \* history: how long ago Allow admitted a sender within its window

vars == <<count, ttl, sender, admitted>>

Idle == [at |-> "idle"]

Init ==
    /\ count = [k \in Channels |-> 0]
    /\ ttl = [k \in Channels |-> 0]
    /\ sender = [s \in Senders |-> Idle]
    /\ admitted = [k \in Channels |-> <<>>]

-----------------------------------------------------------------------------
(* RateLimiter.Allow *)

Incr(s, k) ==
    /\ sender[s] = Idle
    /\ count[k] < MaxCount
    /\ count' = [count EXCEPT ![k] = @ + 1]
    /\ sender' = [sender EXCEPT ![s] =
                     [at |-> "counted", key |-> k, value |-> count[k] + 1, lapsed |-> FALSE]]
    /\ UNCHANGED <<ttl, admitted>>

\* Fault: the window starts at the first attempt and is never pushed.
Expire_FirstOnly(s) ==
    /\ sender[s] # Idle
    /\ LET k == sender[s].key IN
        /\ ttl' = [ttl EXCEPT ![k] = IF count[k] > 0 /\ sender[s].value = 1 THEN Window ELSE @]
        /\ admitted' = [admitted EXCEPT ![k] =
              IF sender[s].value <= Limit /\ ~sender[s].lapsed THEN Append(@, 0) ELSE @]
    /\ sender' = [sender EXCEPT ![s] = Idle]
    /\ UNCHANGED count

\* EXPIRE, which every attempt sends and which does nothing to a key that is
\* gone; the sender is admitted by the value INCR gave it.
Expire(s) ==
    /\ sender[s] # Idle
    /\ LET k == sender[s].key IN
        /\ ttl' = [ttl EXCEPT ![k] = IF count[k] > 0 THEN Window ELSE @]
        /\ admitted' = [admitted EXCEPT ![k] =
              IF sender[s].value <= Limit /\ ~sender[s].lapsed THEN Append(@, 0) ELSE @]
    /\ sender' = [sender EXCEPT ![s] = Idle]
    /\ UNCHANGED count

\* The connection breaks, or the service dies, between the two: the error admits
\* the sender whatever the count, and the key has got no time to live from it.
PipelineBreaks(s) ==
    /\ sender[s] # Idle
    /\ sender' = [sender EXCEPT ![s] = Idle]
    /\ UNCHANGED <<count, ttl, admitted>>

-----------------------------------------------------------------------------
(* Time *)

\* A tick later: the admissions, oldest first, without those the window has left.
Aged(ages) ==
    LET over == Cardinality({i \in DOMAIN ages : ages[i] + 1 >= Window})
    IN  [i \in 1..(Len(ages) - over) |-> ages[i + over] + 1]

\* Redis deletes the keys whose time is up; a sender between its two commands has
\* then been counted in a window that is over.
Tick ==
    LET gone == {k \in Channels : ttl[k] = 1} IN
    /\ ttl' = [k \in Channels |-> IF ttl[k] = 0 THEN 0 ELSE ttl[k] - 1]
    /\ count' = [k \in Channels |-> IF k \in gone THEN 0 ELSE count[k]]
    /\ sender' = [s \in Senders |->
                    IF sender[s] # Idle /\ sender[s].key \in gone
                    THEN [sender[s] EXCEPT !.lapsed = TRUE] ELSE sender[s]]
    /\ admitted' = [k \in Channels |-> Aged(admitted[k])]

Next ==
    \/ \E s \in Senders : Expire(s) \/ PipelineBreaks(s) \/ \E k \in Channels : Incr(s, k)
    \/ Tick

-----------------------------------------------------------------------------
(* Properties *)

TypeOK ==
    /\ count \in [Channels -> 0..MaxCount]
    /\ ttl \in [Channels -> 0..Window]
    /\ \A k \in Channels : ttl[k] > 0 => count[k] > 0
    /\ sender \in [Senders -> {Idle} \cup [at : {"counted"}, key : Channels,
                                           value : 1..MaxCount, lapsed : BOOLEAN]]
    /\ admitted \in [Channels -> Seq(0..Window - 1)]

\* Within any stretch of one window a key admits no more than the limit, wherever
\* that stretch begins; an error of Redis and a window that ended between a
\* sender's INCR and its EXPIRE are the only ways around it. (Each attempt pushes
\* the end of the window: no burst at the end of one and the start of the next.)
RateWindowBounded ==
    \A k \in Channels : Len(admitted[k]) <= Limit
=============================================================================
