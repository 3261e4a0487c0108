------------------------------ MODULE Settings -------------------------------
(***************************************************************************)
(* SystemSettingsService: the settings an admin stores, and the two caches *)
(* of them in the process, of the dispatch settings and of the fare        *)
(* settings, which last 30 seconds.  A setting of each kind stands for     *)
(* all; a row that is missing reads as its default, which is also what     *)
(* onModuleInit stores.                                                    *)
(***************************************************************************)
EXTENDS Integers, FiniteSets

CONSTANTS
  Values,      \* what an admin may store
  MaxCalls,    \* bound: reads in flight at once
  MaxUpdates,  \* bound: updates
  MaxFailures  \* bound: failed reads and restarts

VARIABLES
  stored,   \* table system_settings
  cache,    \* cache and fareCache
  fresh,    \* kinds whose cacheAt is less than CACHE_TTL_MS ago
  calls,    \* reads and updates that have awaited
  updates,
  failures

vars == <<stored, cache, fresh, calls, updates, failures>>

Kinds == {"dispatch", "fare"}
Defaults == [dispatch |-> 4, fare |-> 5]
NoCache == -1
Call == [op : {"read"}, kind : Kinds, n : 1..MaxCalls] \cup [op : {"found"}, kind : Kinds, n : 1..MaxCalls, value : Int]
          \cup [op : {"save"}, kind : Kinds, value : Values] \cup [op : {"invalidate"}]

Init ==
  /\ stored = Defaults
  /\ cache = [k \in Kinds |-> NoCache] /\ fresh = {}
  /\ calls = {} /\ updates = 0 /\ failures = 0

\* "Platform fee has a HARD FLOOR of Rs 5".
Parse(k, value) == IF k = "fare" /\ value < 5 THEN 5 ELSE value

FaultyHit(k) ==  \* for ever
  cache[k] # NoCache

Hit(k) == cache[k] # NoCache /\ k \in fresh

(***************************************************************************)
(* getDispatchSettings, getFareSettings.                                   *)
(***************************************************************************)

Get(k, n) ==
  /\ ~Hit(k) /\ \A c \in calls : c.op \in {"read", "found"} => c.n # n
  /\ calls' = calls \cup {[op |-> "read", kind |-> k, n |-> n]}
  /\ UNCHANGED <<stored, cache, fresh, updates, failures>>

Find(c) ==
  /\ c \in calls /\ c.op = "read"
  /\ calls' = (calls \ {c}) \cup {[op |-> "found", kind |-> c.kind, n |-> c.n, value |-> stored[c.kind]]}
  /\ UNCHANGED <<stored, cache, fresh, updates, failures>>

Got(c) ==
  /\ c \in calls /\ c.op = "found"
  /\ cache' = [cache EXCEPT ![c.kind] = Parse(c.kind, c.value)]
  /\ fresh' = fresh \cup {c.kind}
  /\ calls' = calls \ {c}
  /\ UNCHANGED <<stored, updates, failures>>

\* "Fall back to hardcoded defaults so booking flow never breaks": in the cache,
\* whose time stays what it was.
GetFails(c) ==
  /\ c \in calls /\ c.op = "read" /\ failures < MaxFailures
  /\ cache' = [cache EXCEPT ![c.kind] = Defaults[c.kind]]
  /\ calls' = calls \ {c}
  /\ failures' = failures + 1
  /\ UNCHANGED <<stored, fresh, updates>>

(***************************************************************************)
(* update, by an admin; the clock; a restart.                              *)
(***************************************************************************)

Update(k, value) ==
  /\ updates < MaxUpdates /\ updates' = updates + 1
  /\ calls' = calls \cup {[op |-> "save", kind |-> k, value |-> value]}
  /\ UNCHANGED <<stored, cache, fresh, failures>>

Save(c) ==
  /\ c \in calls /\ c.op = "save"
  /\ stored' = [stored EXCEPT ![c.kind] = c.value]
  /\ calls' = (calls \ {c}) \cup {[op |-> "invalidate"]}
  /\ UNCHANGED <<cache, fresh, updates, failures>>

\* Both caches, not their times.
Invalidate(c) ==
  /\ c \in calls /\ c.op = "invalidate"
  /\ cache' = [k \in Kinds |-> NoCache]
  /\ calls' = calls \ {c}
  /\ UNCHANGED <<stored, fresh, updates, failures>>

Expire(k) ==
  /\ k \in fresh
  /\ fresh' = fresh \ {k}
  /\ UNCHANGED <<stored, cache, calls, updates, failures>>

Restart ==
  /\ failures < MaxFailures /\ failures' = failures + 1
  /\ cache' = [k \in Kinds |-> NoCache] /\ fresh' = {} /\ calls' = {}
  /\ UNCHANGED <<stored, updates>>

CallStep(c) == Find(c) \/ Got(c) \/ GetFails(c) \/ Save(c) \/ Invalidate(c)

Next ==
  \/ \E k \in Kinds : \/ Expire(k)
                      \/ \E n \in 1..MaxCalls : Get(k, n)
                      \/ \E value \in Values : Update(k, value)
  \/ \E c \in calls : CallStep(c)
  \/ Restart

Spec == Init /\ [][Next]_vars

\* Handlers run on and time passes: 30 seconds after the last read was cached.
Fairness ==
  /\ \A k \in Kinds : WF_vars(Expire(k))
  /\ \A n \in 1..MaxCalls : WF_vars(\E c \in calls : c.op \in {"read", "found"} /\ c.n = n /\ CallStep(c))
  /\ WF_vars(\E c \in calls : c.op \in {"save", "invalidate"} /\ CallStep(c))

FairSpec == Spec /\ Fairness

(***************************************************************************)
(* Properties.                                                             *)
(***************************************************************************)

\* Every variable has its type.
TypeOK ==
  /\ stored \in [Kinds -> Int] /\ cache \in [Kinds -> Int] /\ fresh \subseteq Kinds
  /\ calls \subseteq Call /\ updates \in 0..MaxUpdates /\ failures \in 0..MaxFailures

\* What a request of this kind would be given.
Served(k) == IF Hit(k) THEN cache[k] ELSE Parse(k, stored[k])

\* Once the admin is done, what the process works with becomes what is stored,
\* for good: a read that was in flight across the update may cache the old value
\* again, and a failed one the defaults, but not beyond the time to live.
SettingsCatchUp == \A k \in Kinds : <>[](Served(k) = Parse(k, stored[k]))
=============================================================================
