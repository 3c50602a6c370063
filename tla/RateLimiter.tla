----------------------------- MODULE RateLimiter ----------------------------
(***************************************************************************)
(* The limiter in front of login and registration: one bucket of tokens    *)
(* per address, under one mutex, so that a request is one step.  A minute  *)
(* is cut into Minute units of time.                                       *)
(***************************************************************************)
EXTENDS Integers, FiniteSets

CONSTANTS Ips,     \* addresses requests come from
          PerMin,  \* the configured rate, whatever number that is
          Minute   \* units of time in a minute

RateAssumption == PerMin \in Int /\ Minute \in Nat \ {0}

(* A rate that is not positive is replaced by the default. *)
perMin == IF PerMin <= 0 THEN 120 ELSE PerMin

capacity == perMin

VARIABLES buckets,  \* Ips -> tokens, and units since lastFill
          recent,   \* history: Ips -> the requests of the last minute
          spent,    \* history: Ips -> granted since a minute's pause
          refused   \* the address the last request of which was refused

vars == <<buckets, recent, spent, refused>>

NoBucket == [tokens |-> 0, age |-> -1]

(* Bound: requests of one unit are counted up to one over the rate. *)
Counted(n) == IF n > perMin THEN perMin + 1 ELSE n

(***************************************************************************)
(* A request of the last minute: how many units ago it came, whether it    *)
(* was let through, and a number that tells it from those of its unit.     *)
(***************************************************************************)
Recent == [age : 0..(Minute - 1), granted : BOOLEAN, number : 1..(perMin + 1)]

Granted(ip) == {q \in recent[ip] : q.granted}

(* The next request of this unit. *)
Asks(ip, granted) ==
  [age |-> 0, granted |-> granted,
   number |-> Counted(1 + Cardinality(
     {q \in recent[ip] : q.age = 0 /\ q.granted = granted}))]

(* What is still of the last minute a unit later. *)
OneOlder(requests) ==
  {[q EXCEPT !.age = @ + 1] : q \in {q \in requests : q.age + 1 < Minute}}

Init ==
  /\ buckets = [ip \in Ips |-> NoBucket]
  /\ recent = [ip \in Ips |-> {}]
  /\ spent = [ip \in Ips |-> 0]
  /\ refused = {}

(* Wrong on purpose: parts of a minute count. *)
RefilledInProportion(b) ==
  LET filled == b.tokens + (b.age * perMin) \div Minute
  IN IF filled > capacity THEN capacity ELSE filled

(* Whole minutes since the last request bring perMin tokens each. *)
Refilled(b) ==
  LET filled == b.tokens + (b.age \div Minute) * perMin
  IN IF filled > capacity THEN capacity ELSE filled

(* Wrong on purpose: a refused request takes a token too. *)
TakenFromAll(tokens) == tokens - 1

Taken(tokens) == IF tokens <= 0 THEN tokens ELSE tokens - 1

(* Every request, a refused one too, sets lastFill. *)
Limit(ip) ==
  LET b      == IF buckets[ip] = NoBucket THEN [tokens |-> capacity, age |-> 0]
                ELSE buckets[ip]
      tokens == Refilled(b)
      grants == IF tokens <= 0 THEN 0 ELSE 1
  IN /\ buckets' = [buckets EXCEPT ![ip] = [tokens |-> Taken(tokens), age |-> 0]]
     /\ recent' = [recent EXCEPT ![ip] = @ \cup {Asks(ip, grants = 1)}]
     /\ spent' = [spent EXCEPT ![ip] =
                    Counted((IF b.age < Minute THEN @ ELSE 0) + grants)]
     /\ refused' = IF grants = 0 THEN {ip} ELSE {}

(* A bucket as old as a minute is full whatever its further age. *)
Tick ==
  /\ buckets' = [ip \in Ips |->
                   IF buckets[ip] = NoBucket \/ buckets[ip].age = Minute
                   THEN buckets[ip] ELSE [buckets[ip] EXCEPT !.age = @ + 1]]
  /\ recent' = [ip \in Ips |-> OneOlder(recent[ip])]
  /\ refused' = {}
  /\ UNCHANGED spent

(* The buckets are the process's: what is counted is one life of it. *)
Restart ==
  /\ buckets # [ip \in Ips |-> NoBucket]
  /\ buckets' = [ip \in Ips |-> NoBucket]
  /\ recent' = [ip \in Ips |-> {}]
  /\ spent' = [ip \in Ips |-> 0]
  /\ refused' = {}

Next == (\E ip \in Ips : Limit(ip)) \/ Tick \/ Restart

Spec == Init /\ [][Next]_vars

-----------------------------------------------------------------------------
(* Types: tokens are counted from nothing to the capacity                  *)
(* (rate_limiter.go, bucket).                                              *)
TypeOK ==
  /\ buckets \in [Ips -> [tokens : 0..capacity, age : 0..Minute] \cup {NoBucket}]
  /\ recent \in [Ips -> SUBSET Recent]
  /\ spent \in [Ips -> 0..(perMin + 1)]
  /\ refused \subseteq Ips

(* No address is let through more than perMin times in any minute, at      *)
(* whichever moment the minute begins (rate_limiter.go, Limit: a bucket    *)
(* is only filled after a minute without a request).                       *)
NoMoreThanPerMin == \A ip \in Ips : Cardinality(Granted(ip)) <= perMin

(* Who is refused has had perMin requests let through since it last kept   *)
(* quiet for a minute: after a quiet minute all of the rate is there again *)
(* (rate_limiter.go, Limit).                                               *)
RefusedOnceSpent == \A ip \in refused : spent[ip] = perMin

-----------------------------------------------------------------------------
(* What the code says of itself and does not do: a token bucket refuses    *)
(* nobody who has asked for no more than the rate in the last minute       *)
(* (rate_limiter.go, the comment of RateLimiter).                          *)
WithinRateIsServed ==
  \A ip \in refused : Cardinality(recent[ip]) > perMin
=============================================================================
