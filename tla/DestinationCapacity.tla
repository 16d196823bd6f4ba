------------------------ MODULE DestinationCapacity ------------------------
(***************************************************************************)
(* How the dispatcher promises and charges the bandwidth of destinations.  *)
(*                                                                         *)
(* A submission reserves the floor of its run over the window it asked for *)
(* (resource/schedule); when the run starts, its executor has the floor    *)
(* charged on every destination and what is left is shared fairly between  *)
(* the executors there (resource/destinations, internal/avl).  Operators   *)
(* limit and deny destinations; how a policy is recorded, delivered and    *)
(* expired is BandwidthDelivery's.  Every action is one critical section   *)
(* of Dispatcher.mu.                                                       *)
(***************************************************************************)
EXTENDS FairshareTree, ReservationTree, Functions, Sequences

CONSTANTS
    Destinations, Runs,
    Owner,          \* the executor of a run
    Route,          \* the declared destinations of a run, in order
    Floor, Ceil,    \* the admitted bandwidth policy of a run
    Start,          \* the start time a run asks for
    Timeout,        \* the budget a run asks for
    Grace,          \* schedulingGrace
    Granularity,    \* time units per slot of the schedule
    MaxDuration,    \* the longest signed duration
    ExecCapacity,   \* the bandwidth each executor reported
    DefaultCap,     \* the capacity of a destination without a limit
    Governed,       \* the destinations operators set policies for
    Limits,         \* the limits they set
    MaxTime         \* bound: the clock

(* The executors that runs are submitted to. *)
Owners == Range(Owner)

(* maxReservableTime: the last time the schedule has a slot for. *)
LastTime == LastSlot * Granularity

ASSUME CapacityAssumption ==
    /\ IsFiniteSet(Runs)
    /\ Owners \cap Destinations = {}   \* each has its trees: execTrees, destTrees
    /\ Owner \in [Runs -> Owners] /\ Route \in [Runs -> Seq(Destinations)]
    /\ {Floor, Ceil, Start} \subseteq [Runs -> Nat]
    /\ \A r \in Runs : Floor[r] <= Ceil[r]   \* ErrInvalidPolicy, ErrMinGreater
    /\ MaxDuration \in Nat /\ Timeout \in [Runs -> 0..MaxDuration] /\ Grace \in 0..MaxDuration
    /\ Granularity \in Nat \ {0} /\ MaxTime \in 0..LastTime
    /\ ExecCapacity \in [Owners -> Nat] /\ DefaultCap \in Nat
    /\ Governed \subseteq Destinations /\ Limits \subseteq Nat

VARIABLES
    now,
    stage,      \* how far each run has come
    from,       \* the start of each admitted run's window
    schedule,   \* the reservation tree of each executor and destination
    reserved,   \* the runs that hold a reservation (Dispatcher.reservations)
    books,      \* DestinationsUsage: charged allocations, totals and trees
    applied     \* what is applied to each destination

capacityVars == <<now, stage, from, schedule, reserved, books, applied>>

-----------------------------------------------------------------------------
(* The schedule of reserved floors. *)

WrapDuration(n) ==
    ((n + MaxDuration + 1) % (2 * (MaxDuration + 1))) - (MaxDuration + 1)

Budget(r) == WrapDuration(Timeout[r] + Grace)

(* admissionWindowEnd: the checks a window passes. *)
WindowFits(r, f) ==
    /\ Budget(r) >= Timeout[r]
    /\ f + Budget(r) > f
    /\ f + Budget(r) <= LastTime

SlotOf(t) == t \div Granularity

(* schedule.ceil: the last slot of a window is the one its end lies in. *)
EndSlotOf(t) == IF t = 0 THEN 0 ELSE 1 + (t - 1) \div Granularity

(* What a run is booked on: its executor and the destinations it declares. *)
Keys(r) == {Owner[r]} \union Range(Route[r])

(* JobScheduler.Submit, and Remove with the use negated. *)
Booked(s, r, f, use) ==
    [k \in DOMAIN s |->
        IF k \in Keys(r)
        THEN Book(s[k], SlotOf(f), EndSlotOf(f + Budget(r)), use)
        ELSE s[k]]

MaxReserved(k, f, t) == QueryMax(schedule[k], SlotOf(f), EndSlotOf(t))

-----------------------------------------------------------------------------
(* The charged allocations. *)

NoCharges ==
    [active |-> {},
     used   |-> [d \in Destinations |-> 0],
     total  |-> [e \in Owners |-> [d \in Destinations |-> [minimum |-> 0, maximum |-> 0, runs |-> 0]]],
     share  |-> [d \in Destinations |-> NoTree]]

Denied(d) == applied[d].kind = "deny"

Cap(d) == IF applied[d].kind = "limit" THEN applied[d].limit ELSE DefaultCap

(* The totals of an executor on a destination with n runs like r more. *)
TotalWith(b, r, d, n) ==
    [minimum |-> b.total[Owner[r]][d].minimum + n * Floor[r],
     maximum |-> b.total[Owner[r]][d].maximum + n * Ceil[r],
     runs    |-> b.total[Owner[r]][d].runs + n]

Residual(t) == t.maximum - t.minimum

(* charge: the destinations D of a run that is not recorded there. *)
Charged(b, r, D) ==
    [active |-> b.active \union ({r} \X D),
     used   |-> [d \in Destinations |-> IF d \in D THEN b.used[d] + Floor[r] ELSE b.used[d]],
     total  |-> [b.total EXCEPT ![Owner[r]] =
                    [d \in Destinations |-> IF d \in D THEN TotalWith(b, r, d, 1) ELSE @[d]]],
     share  |-> [d \in Destinations |->
                    IF d \in D THEN Replace(b.share[d], Owner[r], Residual(TotalWith(b, r, d, 1)))
                               ELSE b.share[d]]]

(* Remove: give back what was recorded on the destinations D.  The executor *)
(* leaves the tree with its last run there.                                 *)
Removed(b, r, D) ==
    LET gone     == {d \in D : <<r, d>> \in b.active}
        share(d) == LET t == TotalWith(b, r, d, -1)
                    IN  IF t.runs > 0 THEN Replace(b.share[d], Owner[r], Residual(t))
                                      ELSE DeleteMember(b.share[d], Owner[r])
    IN  [active |-> b.active \ ({r} \X gone),
         used   |-> [d \in Destinations |-> IF d \in gone THEN b.used[d] - Floor[r] ELSE b.used[d]],
         total  |-> [b.total EXCEPT ![Owner[r]] =
                        [d \in Destinations |-> IF d \in gone THEN TotalWith(b, r, d, -1) ELSE @[d]]],
         share  |-> [d \in Destinations |-> IF d \in gone THEN share(d) ELSE b.share[d]]]

CanCharge(b, r, d) == ~Denied(d) /\ b.used[d] + Floor[r] <= Cap(d)

(* Allocate: every destination in turn, each once; the first that cannot be *)
(* charged gives back the ones this call charged.  What is charged on one   *)
(* destination does not change another.                                     *)
Fresh(b, r, i) == <<r, Route[r][i]>> \notin b.active

Refuses(b, r, i) == Fresh(b, r, i) /\ ~CanCharge(b, r, Route[r][i])

ChargedBefore(b, r) ==
    {Route[r][i] : i \in {i \in DOMAIN Route[r] : Fresh(b, r, i) /\ \A j \in 1..i : ~Refuses(b, r, j)}}

Fails(b, r) == \E i \in DOMAIN Route[r] : Refuses(b, r, i)

Allocated(b, r) ==
    LET new == ChargedBefore(b, r)
    IN  IF Fails(b, r) THEN Removed(Charged(b, r, new), r, new) ELSE Charged(b, r, new)

(* Fairshare: the limit an executor is given on a destination. *)
Shareable(d) == Max({Cap(d) - books.used[d], 0})

LimitOf(e, d) ==
    LET t == books.total[e][d]
    IN  IF Denied(d) THEN 0
        ELSE Min({t.maximum, AVLFairshare(books.share[d], Shareable(d)) + t.minimum})

-----------------------------------------------------------------------------

NoPolicy == [kind |-> "allow", limit |-> 0]

Policies ==
    {NoPolicy, [NoPolicy EXCEPT !.kind = "deny"]} \union [kind : {"limit"}, limit : Limits]

CapacityInit ==
    /\ now = 0
    /\ stage = [r \in Runs |-> "idle"]
    /\ from = [r \in Runs |-> 0]
    /\ schedule = [k \in Owners \union Destinations |-> Blank]
    /\ reserved = {}
    /\ books = NoCharges
    /\ applied = [d \in Destinations |-> NoPolicy]

(* The window of a run that asks now; a start that has passed means now. *)
From(r) == Max({now, Start[r]})

(* validateDebugletSpec: the reserved floors of the window with this one. *)
Admissible(r) ==
    /\ WindowFits(r, From(r))
    /\ MaxReserved(Owner[r], From(r), From(r) + Budget(r)) + Floor[r] <= ExecCapacity[Owner[r]]
    /\ \A d \in Range(Route[r]) :
          /\ ~Denied(d)
          /\ MaxReserved(d, From(r), From(r) + Budget(r)) + Floor[r] <= Cap(d)

(* A submission is admitted: its floor is reserved under the run's identity. *)
Submit(r) ==
    /\ stage[r] = "idle"
    /\ Admissible(r)
    /\ stage' = [stage EXCEPT ![r] = "admitted"]
    /\ from' = [from EXCEPT ![r] = From(r)]
    /\ schedule' = Booked(schedule, r, From(r), Floor[r])
    /\ reserved' = reserved \union {r}
    /\ UNCHANGED <<now, books, applied>>

(* A later step of the submission fails: the reservation is rolled back. *)
SubmitFails(r) ==
    /\ stage[r] = "idle"
    /\ Admissible(r)
    /\ schedule' = Booked(Booked(schedule, r, From(r), Floor[r]), r, From(r), -Floor[r])
    /\ UNCHANGED <<now, stage, from, reserved, books, applied>>

(* OnDebugletAllocate from an executor that starts the run in its window. *)
Allocate(r) ==
    /\ stage[r] = "admitted"
    /\ now >= from[r]
    /\ now < from[r] + Budget(r)
    /\ books' = Allocated(books, r)
    /\ stage' = [stage EXCEPT ![r] = IF Fails(books, r) THEN "refused" ELSE "running"]
    /\ UNCHANGED <<now, from, schedule, reserved, applied>>

Underway == {"admitted", "refused", "running", "orphan"}

(* Mutant: the floor is given back by a run that holds no reservation, too. *)
ReleaseUnreserved(r) ==
    /\ stage[r] \in Underway
    /\ stage' = [stage EXCEPT ![r] = "done"]
    /\ books' = Removed(books, r, Range(Route[r]))
    /\ schedule' = Booked(schedule, r, from[r], -Floor[r])
    /\ reserved' = reserved \ {r}
    /\ from' = [from EXCEPT ![r] = 0]
    /\ UNCHANGED <<now, applied>>

(* releaseTerminalResources: a run ended, was cancelled or was reclaimed. *)
Release(r) ==
    /\ stage[r] \in Underway
    /\ stage' = [stage EXCEPT ![r] = "done"]
    /\ books' = Removed(books, r, Range(Route[r]))
    /\ schedule' = IF r \in reserved THEN Booked(schedule, r, from[r], -Floor[r]) ELSE schedule
    /\ reserved' = reserved \ {r}
    /\ from' = [from EXCEPT ![r] = 0]   \* not read again
    /\ UNCHANGED <<now, applied>>

(* Mutant: what is reserved for later windows is not looked at. *)
LimitCoversCharged(d, l) == l >= books.used[d]

(* A limit covers what is charged now and what is reserved from now on. *)
LimitCovers(d, l) ==
    /\ l >= MaxReserved(d, now, LastTime)
    /\ l >= books.used[d]

(* changeDestinationPolicy up to its deliveries: a limit, a deny, or the *)
(* return to the default of a policy that expired.                       *)
SetPolicy(d, p) ==
    /\ p.kind = "limit" => LimitCovers(d, p.limit)
    /\ applied' = [applied EXCEPT ![d] = p]
    /\ UNCHANGED <<now, stage, from, schedule, reserved, books>>

(* RestoreScheduler: the reservations of S, one after the other. *)
Rebooked(S) ==
    LET book[T \in SUBSET S] ==
            IF T = {} THEN [k \in Owners \union Destinations |-> Blank]
            ELSE LET r == CHOOSE r \in T : TRUE
                 IN  Booked(book[T \ {r}], r, from[r], Floor[r])
    IN  book[S]

StillOpen == {r \in Runs : stage[r] \in Underway /\ from[r] + Budget(r) > now}

(* A dispatcher restart: nothing is charged, and the runs of the previous   *)
(* lifetime keep their reservations while their windows are open.           *)
RestoreScheduler ==
    /\ stage' = [r \in Runs |-> IF stage[r] \in Underway THEN "orphan" ELSE stage[r]]
    /\ reserved' = StillOpen
    /\ schedule' = Rebooked(StillOpen)
    /\ books' = NoCharges
    /\ UNCHANGED <<now, from, applied>>

Tick ==
    /\ now < MaxTime
    /\ now' = now + 1
    /\ UNCHANGED <<stage, from, schedule, reserved, books, applied>>

CapacityNext ==
    \/ \E r \in Runs : Submit(r) \/ SubmitFails(r) \/ Allocate(r) \/ Release(r)
    \/ \E d \in Governed : \E p \in Policies \ {applied[d]} : SetPolicy(d, p)
    \/ RestoreScheduler
    \/ Tick

CapacitySpec == CapacityInit /\ [][CapacityNext]_capacityVars

-----------------------------------------------------------------------------
(* Properties *)

Stages == Underway \union {"idle", "done"}

(* Every variable has its type; no charge is negative. *)
CapacityTypeOK ==
    /\ now \in 0..MaxTime
    /\ stage \in [Runs -> Stages]
    /\ from \in [Runs -> 0..LastTime]
    /\ DOMAIN schedule = Owners \union Destinations
    /\ reserved \subseteq Runs
    /\ books.active \subseteq Runs \X Destinations
    /\ \A d \in Destinations : books.used[d] >= 0
    /\ applied \in [Destinations -> Policies]

(* The floors promised on k in a slot: of the runs whose requested window, *)
(* budget and grace included, touches it.                                  *)
Promising(k, s) ==
    {r \in reserved : /\ k \in Keys(r)
                      /\ s \in SlotOf(from[r])..EndSlotOf(from[r] + Timeout[r] + Grace)}

PromisedIn(k, s) == Total(Promising(k, s), Floor)

(* Whatever was booked, rolled back, released and restored, the schedule    *)
(* answers every query with the floors promised to the runs that hold a     *)
(* reservation, over the whole window each of them asked for.               *)
ReservationsAreExact ==
    \A k \in Owners \union Destinations :
      \A promised \in {[s \in Slots |-> PromisedIn(k, s)]} :
        \A l \in Slots : \A r \in l..LastSlot :
          QueryMax(schedule[k], l, r) = Max({promised[s] : s \in l..r})

RunsAt(e, d) == {r \in Runs : Owner[r] = e /\ <<r, d>> \in books.active}

(* What is charged on a destination is what its recorded runs were admitted *)
(* with, and an executor is in the tree there exactly while it has a run,   *)
(* with the residual of all its runs.                                       *)
ChargesAreExact ==
    \A d \in Destinations :
      /\ books.used[d] = Total({r \in Runs : <<r, d>> \in books.active}, Floor)
      /\ \A e \in Owners :
           books.total[e][d] = [minimum |-> Total(RunsAt(e, d), Floor),
                                maximum |-> Total(RunsAt(e, d), Ceil),
                                runs    |-> Cardinality(RunsAt(e, d))]
      /\ Sound(books.share[d])
      /\ books.share[d].refs =
           [e \in {e \in Owners : RunsAt(e, d) # {}} |->
              Total(RunsAt(e, d), Ceil) - Total(RunsAt(e, d), Floor)]

(* A run that is running is charged on every destination it declared, and  *)
(* any other on none: a refused allocation leaves nothing behind.          *)
AllOrNothing ==
    \A r \in Runs :
      {d \in Destinations : <<r, d>> \in books.active} =
         IF stage[r] = "running" THEN Range(Route[r]) ELSE {}

(* The limits handed out for a destination are max-min fair: each executor *)
(* gets its floors and at most its ceilings, the level is the highest that *)
(* fits, and together they stay within the capacity the floors leave.      *)
SharesAreFair ==
    \A d \in Destinations :
      LET V    == ValuesOf(books.share[d].root)
          free == Max({Cap(d) - books.used[d], 0})
          at   == {p[1] : p \in V}
      IN  /\ AVLFairshare(books.share[d], free) = FairLevel(V, free)
          /\ ~Denied(d) =>
                /\ \A e \in at : LimitOf(e, d) \in books.total[e][d].minimum..books.total[e][d].maximum
                /\ Total(at, [e \in at |-> LimitOf(e, d)]) <= Max({Cap(d), books.used[d]})

(* The destination has promised more than its capacity from now on. *)
Overcommitted(d) == MaxReserved(d, now, LastTime) > Cap(d)

(* A run admitted for a destination is not refused there for capacity while *)
(* it is in its window: only a deny, a capacity that fell back to a lower   *)
(* default, or a run that holds its charge past its window can do that.     *)
AdmittedRunFits ==
    \A r \in Runs : \A d \in Range(Route[r]) :
      (/\ stage[r] = "admitted"
       /\ now >= from[r] /\ now < from[r] + Budget(r)
       /\ ~Denied(d) /\ ~Overcommitted(d)
       /\ \A x \in Runs : <<x, d>> \in books.active => from[x] + Budget(x) > now)
      => CanCharge(books, r, d)

(* A limit an operator sets, and a default nobody changed, is never         *)
(* overcommitted: what is reserved and charged from now on stays within it  *)
(* whatever is admitted, restored and set around it.                        *)
LimitsAreKept ==
    \A d \in Destinations :
      applied[d].kind = "limit" \/ d \notin Governed
        => ~Overcommitted(d) /\ books.used[d] <= Cap(d)

(* The books of the destinations are exact: what is charged, to whom, and   *)
(* the shares computed from it (chargeDestinations, releaseDestinations,    *)
(* the fairshare tree).                                                     *)
BooksAreExact == CapacityTypeOK /\ ChargesAreExact /\ AllOrNothing /\ SharesAreFair

(* Admission promises what allocation and policy later keep.                *)
PromisesAreKept == AdmittedRunFits /\ LimitsAreKept

============================================================================
