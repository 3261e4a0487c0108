------------------------------- MODULE Ratings -------------------------------
(***************************************************************************)
(* The ratings of one driver and the average on the driver's profile.      *)
(* submitRating looks for an earlier rating of the booking, saves one,     *)
(* asks the database for average and count, and writes them to the         *)
(* profile, each after an await; no constraint of the table keeps a        *)
(* booking from having two.  Stars are in tenths, averages in hundredths.  *)
(***************************************************************************)
EXTENDS Integers, Sequences, FiniteSets

CONSTANTS
  Bookings,  \* the driver's completed bookings, each of one customer
  Stars,     \* the ratings given, from 1 to 5
  MaxCalls   \* bound: submissions in flight at once

VARIABLES
  ratings,   \* the table, in the order of its rows
  profile,   \* average_rating and total_trips of the profile
  calls,     \* submissions that have awaited
  doubled,   \* for properties only: bookings submitted twice at once
  disturbed  \* for properties only: the latest submissions overlapped, or stopped

vars == <<ratings, profile, calls, doubled, disturbed>>

Profile == [average : Nat, total : Nat]
Call == [op : {"save", "aggregate", "profile"}, by : Bookings, stars : Stars,
         n : 1..MaxCalls, found : Profile]
NoProfile == [average |-> 0, total |-> 0]

Init ==
  /\ ratings = <<>>
  /\ profile = NoProfile
  /\ calls = {} /\ doubled = {} /\ disturbed = FALSE

Rated(b) == \E i \in DOMAIN ratings : ratings[i].by = b
\* The sum of all stars.
Stellar(rows) == Cardinality({p \in (1..Len(rows)) \X (1..50) : p[2] <= rows[p[1]].stars})

\* AVG and COUNT of the driver's ratings, and Math.round(average * 100) / 100.
Statistics(rows) ==
  [average |-> (20 * Stellar(rows) + Len(rows)) \div (2 * Len(rows)), total |-> Len(rows)]

Begin(b, stars, n) ==
  /\ \A c \in calls : c.n # n
  /\ calls' = calls \cup {[op |-> "save", by |-> b, stars |-> stars, n |-> n, found |-> NoProfile]}
  /\ doubled' = IF \E c \in calls : c.op = "save" /\ c.by = b THEN doubled \cup {b} ELSE doubled
  /\ disturbed' = (calls # {})
  /\ UNCHANGED <<ratings, profile>>

FaultySubmitRating(b, stars, n) ==  \* no look for an earlier rating
  Begin(b, stars, n)

SubmitRating(b, stars, n) ==
  /\ ~Rated(b)
  /\ Begin(b, stars, n)

Continue(c, op, found) == calls' = (calls \ {c}) \cup {[c EXCEPT !.op = op, !.found = found]}

SaveRating(c) ==
  /\ c \in calls /\ c.op = "save"
  /\ ratings' = Append(ratings, [by |-> c.by, stars |-> c.stars])
  /\ Continue(c, "aggregate", NoProfile)
  /\ UNCHANGED <<profile, doubled, disturbed>>

\* updateDriverAverageRating.
Aggregate(c) ==
  /\ c \in calls /\ c.op = "aggregate"
  /\ Continue(c, "profile", Statistics(ratings))
  /\ UNCHANGED <<ratings, profile, doubled, disturbed>>

SaveProfile(c) ==
  /\ c \in calls /\ c.op = "profile"
  /\ profile' = c.found
  /\ calls' = calls \ {c}
  /\ UNCHANGED <<ratings, doubled, disturbed>>

\* A submission fails, or the process restarts.
Stop(c) ==
  /\ c \in calls
  /\ calls' = calls \ {c}
  /\ disturbed' = TRUE
  /\ UNCHANGED <<ratings, profile, doubled>>

Next ==
  \/ \E b \in Bookings, stars \in Stars, n \in 1..MaxCalls : SubmitRating(b, stars, n)
  \/ \E c \in calls : SaveRating(c) \/ Aggregate(c) \/ SaveProfile(c) \/ Stop(c)

Spec == Init /\ [][Next]_vars

(***************************************************************************)
(* Properties.                                                             *)
(***************************************************************************)

\* Every variable has its type.
TypeOK ==
  /\ ratings \in Seq([by : Bookings, stars : Stars])
  /\ profile \in Profile /\ calls \subseteq Call
  /\ doubled \subseteq Bookings /\ disturbed \in BOOLEAN

\* "You have already rated this booking": a booking is rated once, unless it was
\* submitted twice at once.  A submission that no other overlaps leaves a profile
\* that agrees with all the ratings, whatever earlier ones left; the profile never
\* counts ratings that are not there.
RatingsAgree ==
  /\ \A i, j \in DOMAIN ratings :
       ratings[i].by = ratings[j].by /\ ratings[i].by \notin doubled => i = j
  /\ profile.total <= Len(ratings)
  /\ calls = {} /\ ~disturbed /\ ratings # <<>> => profile = Statistics(ratings)
=============================================================================
