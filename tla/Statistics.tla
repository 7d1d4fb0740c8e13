----------------------------- MODULE Statistics -----------------------------
(***************************************************************************)
(* Statistics derived from drinks (pykeg/core/stats.py) by the jobs of the *)
(* stats queue (pykeg/core/tasks.py, signal_handlers.py).                  *)
(*                                                                         *)
(* A request that changes drinks queues its job before its transaction     *)
(* commits.  One worker (rqworker) takes the jobs in order, each in a      *)
(* transaction of its own; a job that raises is not tried again.  The      *)
(* requests and the worker share nothing but the database and the queue.   *)
(*                                                                         *)
(* A request holds the rows it has written to its commit, those of the     *)
(* sessions and kegs of its drinks among them: two open requests have      *)
(* written none in common.  What goes wrong before the first write is the  *)
(* subject of RequestRace.                                                 *)
(***************************************************************************)
EXTENDS Integers, Sequences, FiniteSets, FiniteSetsExt, Folds, VolumeSums

CONSTANTS
  Requests,   \* server processes that may have a request under way
  Users, Guest, Kegs, Sessions,
  Volumes,    \* volumes of drinks
  None,       \* NULL
  Pours,      \* bound: what the pours may be
  MaxDrinks,  \* bound: number of drinks ever recorded
  MaxChanges, \* bound: number of changes to them
  MaxQueue    \* bound: jobs waiting

ASSUME StatisticsAssumption ==
  /\ Guest \in Users /\ None \notin Users \cup Kegs \cup Sessions \cup Requests
  /\ Volumes \subseteq Nat \ {0}
  /\ Pours \subseteq [user : Users, keg : Kegs, session : Sessions, volume : Volumes]
  /\ MaxDrinks \in Nat /\ MaxChanges \in Nat /\ MaxQueue \in Nat

VARIABLES
  drink,      \* the Drink rows committed, by id
  lastDrink,  \* the id given out last
  changes,    \* number of changes so far
  open,       \* open[p]: what request p has yet to commit, or None
  queue,      \* the stats queue
  rows,       \* rows[v]: the Stats rows of view v, by id
  amiss       \* history: in which ways jobs have met the wrong database

vars == <<drink, lastDrink, changes, open, queue, rows, amiss>>

DrinkIds == 1 .. MaxDrinks
DrinkRow == [user : Users, keg : Kegs, session : Sessions, volume : Volumes]

\* StatsView: the statistics of a user, of a session, of a keg, of their
\* combinations, and of the whole site when all are None.
View == [user : Users \cup {None}, session : Sessions \cup {None}, keg : Kegs \cup {None}]

InView(row, v) ==
  v.user \in {None, row.user} /\ v.session \in {None, row.session} /\ v.keg \in {None, row.keg}

DrinksIn(v) == {d \in DOMAIN drink : InView(drink[d], v)}

SessionVolume(s) == VolumeOf(drink, {d \in DOMAIN drink : drink[d].session = s})

\* What Op makes of base and one drink of ds after the other, in the order of their ids.
FoldAscending(Op(_, _), base, ds) ==
  MapThenFoldSet(Op, base, LAMBDA d : d, LAMBDA s : Max(s), ds)

-----------------------------------------------------------------------------
(* StatsBuilder *)

\* A dictionary that has lived without key x so far counts from zero.
Plus(f, x, v) ==
  [y \in DOMAIN f \cup {x} |-> IF y # x THEN f[y] ELSE v + (IF x \in DOMAIN f THEN f[x] ELSE 0)]

NoStats ==
  [pours |-> 0, total |-> 0, greatest |-> 0, greatestId |-> 0, guest |-> FALSE,
   byDrinker |-> << >>, bySession |-> << >>]

\* StatsBuilder.build: the statistics after drink d from those before it.  Volumes
\* by year are like those by drinker and session, whose keys are the lists of
\* drinkers and sessions.  Left out: the day of the week, which like the largest
\* session is asked of the session as it is now.
Build(d, prev) ==
  LET row == drink[d]
  IN  [pours |-> prev.pours + 1,
       total |-> prev.total + row.volume,
       greatest |-> Max({row.volume, prev.greatest}),
       greatestId |-> IF row.volume > prev.greatest THEN d ELSE prev.greatestId,
       guest |-> prev.guest \/ row.user = Guest,
       byDrinker |-> Plus(prev.byDrinker, row.user, row.volume),
       bySession |-> Plus(prev.bySession, row.session, row.volume)]

\* StatsBuilder.largest_session, which asks the session for its volume of now.
LargestSession(d, prev) ==
  LET s == drink[d].session
  IN  IF SessionVolume(s) >= prev.volume
      THEN [session |-> s, volume |-> SessionVolume(s)]
      ELSE prev

-----------------------------------------------------------------------------
(* The jobs.  A job has made for each view the rows it had and some more, or it *)
(* has raised.                                                                 *)

IdsOf(t) == {t[i].drink : i \in DOMAIN t}

\* The drinks now in view v before d that have a row in t, the rows of that view.
Built(t, d, v) == {x \in IdsOf(t) \cap DrinksIn(v) : x < d}

RowFor(t, d) == t[Max({i \in DOMAIN t : t[i].drink = d})]

\* The rows t and a new one, whose id is the latest.
WithRow(t, row) ==
  LET id == Max({0} \cup DOMAIN t) + 1
  IN  [i \in DOMAIN t \cup {id} |-> IF i = id THEN row ELSE t[i]]

\* As below, on a table without unique_together (a mutant).
CreateRowUnchecked(d, made, v) ==
  LET prior == Built(made.rows, d, v)
      prev == IF prior = {} THEN [stats |-> NoStats, largest |-> [session |-> None, volume |-> 0]]
              ELSE RowFor(made.rows, Max(prior))
  IN  [made EXCEPT !.rows =
         WithRow(@, [drink |-> d, first |-> prior = {},
                     stats |-> Build(d, prev.stats), largest |-> LargestSession(d, prev.largest)])]

\* Stats.objects.create, on top of the row of the prior drink.  The uniqueness of
\* (drink, user, keg, session) does not hold for rows with a NULL.
CreateRow(d, made, v) ==
  IF made.raised \/ (None \notin {v.user, v.session, v.keg} /\ d \in IdsOf(made.rows))
  THEN [made EXCEPT !.raised = TRUE]
  ELSE CreateRowUnchecked(d, made, v)

\* As below, taking no notice of drinks that have been passed over (a mutant).
BuildListOne(t, d, v) == {d}

\* The prior drinks of the view that come after the last one with a row, and d.
BuildList(t, d, v) ==
  {x \in DrinksIn(v) : x < d /\ \A y \in Built(t, d, v) : y < x} \cup {d}

CreateRows(ds, made, v) == FoldAscending(LAMBDA x, m : CreateRow(x, m, v), made, ds)

\* _build_single_view.  The lookup of the prior row raises when there are two.
BuildSingleView(made, d, v) ==
  LET t == made.rows
      last == {i \in DOMAIN t : Built(t, d, v) # {} /\ t[i].drink = Max(Built(t, d, v))}
  IN  IF Cardinality(last) > 1 THEN [made EXCEPT !.raised = TRUE]
      ELSE CreateRows(BuildList(t, d, v), made, v)

\* _build_all_views.  Its results cache only saves the lookup of rows just made.
BuildAllViews(d, table) ==
  [v \in View |-> IF table[v].raised \/ ~InView(drink[d], v) THEN table[v]
                  ELSE BuildSingleView(table[v], d, v)]

\* A job that starts from the rows rs.
Begun(rs) == [v \in View |-> [rows |-> rs[v], raised |-> FALSE]]

BuildForId(d) == IF d \in DOMAIN drink THEN BuildAllViews(d, Begun(rows)) ELSE Begun(rows)

\* The rows that are for drinks in ds.
Keep(ds) ==
  [v \in View |-> LET t == rows[v] IN [i \in {j \in DOMAIN t : t[j].drink \in ds} |-> t[i]]]

\* As below, sparing the drink itself (a mutant).
InvalidateAfter(d) == Keep(1 .. d)

Invalidate(d) == Keep(1 .. d - 1)

RebuildFromId(d) ==
  FoldAscending(BuildAllViews, Begun(Invalidate(d)), {x \in DOMAIN drink : x >= d})

\* tasks.build_stats: the worker takes the next job and runs it in a transaction.
Work ==
  /\ queue # << >>
  /\ LET job == Head(queue)
         table == IF job.rebuild THEN RebuildFromId(job.drink) ELSE BuildForId(job.drink)
     IN  /\ rows' = IF \E v \in View : table[v].raised THEN rows
                    ELSE [v \in View |-> table[v].rows]
         /\ amiss' = IF job.by = None THEN amiss
                     ELSE amiss \cup {IF job.rebuild THEN "missed rebuild" ELSE "missed build"}
  /\ queue' = Tail(queue)
  /\ UNCHANGED <<drink, lastDrink, changes, open>>

-----------------------------------------------------------------------------
(* The requests *)

\* Request p is in a transaction that is to delete the drinks in gone and to save
\* those of put, and has written the session and keg rows in locks.
Open(p, locks, gone, put, queued) ==
  /\ open[p] = None
  /\ \A q \in Requests : open[q] # None => locks \cap open[q].locks = {}
  /\ open' = [open EXCEPT ![p] = [locks |-> locks, gone |-> gone, put |-> put,
                                  queued |-> queued]]

\* Its signal is sent and its job queued, the transaction still open.
Queue(p, d, rebuild) ==
  /\ Len(queue) < MaxQueue
  /\ queue' = Append(queue, [drink |-> d, rebuild |-> rebuild, by |-> p])

\* Drink.record_drink up to d.save(): the session is written, the drink has its id.
Pour(p) ==
  LET d == lastDrink + 1
  IN  /\ d \in DrinkIds
      /\ \E row \in Pours : Open(p, {row.session}, {}, [x \in {d} |-> row], FALSE)
      /\ lastDrink' = d
      /\ UNCHANGED <<drink, changes, queue, rows, amiss>>

\* The pour that request p has under way.
NewDrink(p) == IF open[p] = None THEN {} ELSE DOMAIN open[p].put \ DOMAIN drink

\* The requests with pours under way that were given their ids before that of p.
PoursBefore(p) ==
  {q \in Requests : \E d \in NewDrink(p), x \in NewDrink(q) : x < d}

\* History: is p overtaking the requests in qs?
Overtaking(qs) == amiss' = IF qs = {} THEN amiss ELSE amiss \cup {"disorder"}

\* Drink.record_drink from there: the keg is written, the job is queued.
PourQueued(p) ==
  /\ open[p] # None
  /\ ~open[p].queued
  /\ \E d \in NewDrink(p) :
       LET k == open[p].put[d].keg
       IN  /\ \A q \in Requests : open[q] # None => k \notin open[q].locks
           /\ open' = [open EXCEPT ![p].locks = @ \cup {k}, ![p].queued = TRUE]
           /\ Queue(p, d, FALSE)
  /\ Overtaking({q \in PoursBefore(p) : ~open[q].queued})
  /\ UNCHANGED <<drink, lastDrink, changes, rows>>

\* A change of drinks: its transaction has got as far as the job, the rebuild from
\* drink d.
Change(p, locks, gone, put, d) ==
  /\ changes < MaxChanges
  /\ changes' = changes + 1
  /\ Open(p, locks, gone, put, TRUE)
  /\ Queue(p, d, TRUE)
  /\ UNCHANGED <<drink, lastDrink, rows, amiss>>

\* As below, to NULL where the guest is meant (a mutant).
ReassignToNobody(p, d) ==
  Change(p, {drink[d].session}, {}, [x \in {d} |-> [drink[d] EXCEPT !.user = None]], d)

\* Drink.reassign
Reassign(p, d) ==
  \E u \in Users \ {drink[d].user} :
    Change(p, {drink[d].session}, {}, [x \in {d} |-> [drink[d] EXCEPT !.user = u]], d)

\* Drink.set_volume
SetVolume(p, d) ==
  \E v \in Volumes \ {drink[d].volume} :
    Change(p, {drink[d].session, drink[d].keg}, {},
           [x \in {d} |-> [drink[d] EXCEPT !.volume = v]], d)

\* Drink.cancel_drink
CancelDrink(p, d) == Change(p, {drink[d].session, drink[d].keg}, {d}, << >>, d)

\* As below, from the last of the drinks (a mutant).
CancelKegFromLast(p, k) ==
  LET gone == {d \in DOMAIN drink : drink[d].keg = k}
  IN  /\ gone # {}
      /\ Change(p, {drink[d].session : d \in gone} \cup {k}, gone, << >>, Max(gone))

\* Keg.cancel of a keg that has drinks; without, there is no job.
CancelKeg(p, k) ==
  LET gone == {d \in DOMAIN drink : drink[d].keg = k}
  IN  /\ gone # {}
      /\ Change(p, {drink[d].session : d \in gone} \cup {k}, gone, << >>, Min(gone))

\* Saving the site's settings clears the cache and, with it, the Redis database that
\* holds the queue (_sitesettings_post_save): the jobs that wait are gone.
SaveSettings ==
  /\ queue # << >>
  /\ queue' = << >>
  /\ amiss' = amiss \cup {IF queue[i].rebuild THEN "missed rebuild" ELSE "missed build"
                            : i \in DOMAIN queue}
  /\ UNCHANGED <<drink, lastDrink, changes, open, rows>>

\* The transaction of p is over.  Its job, should it still wait, is in time.
Close(p) ==
  /\ open[p] # None
  /\ open' = [open EXCEPT ![p] = None]
  /\ queue' = [i \in DOMAIN queue |-> IF queue[i].by = p THEN [queue[i] EXCEPT !.by = None]
                                      ELSE queue[i]]
  /\ UNCHANGED <<lastDrink, changes>>

\* Stats rows go with their drink (CASCADE).
Commit(p) ==
  /\ Close(p)
  /\ open[p].queued
  /\ Overtaking(PoursBefore(p))
  /\ LET change == open[p]
     IN  /\ drink' = [d \in (DOMAIN drink \ change.gone) \cup DOMAIN change.put |->
                        IF d \in DOMAIN change.put THEN change.put[d] ELSE drink[d]]
         /\ rows' = Keep(DrinkIds \ change.gone)

\* The job stays in the queue.
RollBack(p) == Close(p) /\ UNCHANGED <<drink, rows, amiss>>

-----------------------------------------------------------------------------

Init ==
  /\ drink = << >>
  /\ lastDrink = 0 /\ changes = 0
  /\ open = [p \in Requests |-> None]
  /\ queue = << >>
  /\ rows = [v \in View |-> << >>]
  /\ amiss = {}

Next ==
  \/ \E p \in Requests :
       \/ Pour(p) \/ PourQueued(p)
       \/ \E d \in DOMAIN drink : Reassign(p, d) \/ SetVolume(p, d) \/ CancelDrink(p, d)
       \/ \E k \in Kegs : CancelKeg(p, k)
       \/ Commit(p)
       \/ RollBack(p)
  \/ SaveSettings
  \/ Work

Spec == Init /\ [][Next]_vars

-----------------------------------------------------------------------------
(* Properties *)

TypeOK ==
  /\ DOMAIN drink \subseteq 1 .. lastDrink
  /\ \A d \in DOMAIN drink : drink[d] \in DrinkRow
  /\ lastDrink \in 0 .. MaxDrinks /\ changes \in 0 .. MaxChanges
  /\ \A i \in DOMAIN queue : queue[i] \in [drink : DrinkIds, rebuild : BOOLEAN,
                                           by : Requests \cup {None}]
  /\ DOMAIN rows = View
  /\ \A v \in View : DOMAIN rows[v] \subseteq Nat /\ IdsOf(rows[v]) \subseteq DOMAIN drink
  /\ amiss \subseteq {"missed build", "missed rebuild", "disorder"}

\* The statistics of the drinks ds of table D by their definition, not drink by drink.
StatsOf(D, ds) ==
  LET volumes == {D[d].volume : d \in ds}
  IN  [pours |-> Cardinality(ds),
       total |-> VolumeOf(D, ds),
       greatest |-> Max(volumes),
       greatestId |-> Min({d \in ds : D[d].volume = Max(volumes)}),
       guest |-> \E d \in ds : D[d].user = Guest,
       byDrinker |-> [u \in {D[d].user : d \in ds} |->
                        VolumeOf(D, {d \in ds : D[d].user = u})],
       bySession |-> [s \in {D[d].session : d \in ds} |->
                        VolumeOf(D, {d \in ds : D[d].session = s})]]

\* The row that get_latest_for_view returns.
Latest(t) == t[Max(DOMAIN t)]

\* What get_latest_for_view returns for v is what its drinks come to, and the
\* first drink's row alone says that it is the first (the sessions listed on a
\* drinker's page are found by it).
Current(v) ==
  LET t == rows[v]
  IN  IF DrinksIn(v) = {} THEN DOMAIN t = {}
      ELSE /\ DOMAIN t # {}
           /\ Latest(t).stats = StatsOf(drink, DrinksIn(v))
           /\ {t[i].drink : i \in {j \in DOMAIN t : t[j].first}} = {Min(DrinksIn(v))}

Settled == queue = << >> /\ \A p \in Requests : open[p] = None

\* Once all jobs are done, and if none was lost, ran before its own transaction or out
\* of the order of the drinks, the statistics of every user, session, keg and combination
\* are what the drinks come to, whatever was poured, changed, cancelled, deleted or
\* rolled back while jobs were waiting.
StatsFollowDrinks == Settled /\ amiss = {} => \A v \in View : Current(v)

\* A pour whose job ran too early or was lost is made up for: as soon as the latest drink of a
\* view has been counted, all before it are (the build list of _build_single_view).
MissedPoursAreMadeUp ==
  Settled /\ amiss \subseteq {"missed build"} =>
    \A v \in View : DrinksIn(v) # {} /\ Max(DrinksIn(v)) \in IdsOf(rows[v]) => Current(v)

\* No drink is counted twice in a view (Stats.Meta.unique_together), however jobs of pours
\* run early or are lost, and though a rebuild may be ahead of the job of a pour it has counted
\* already, so that the lookup of a prior row never finds two.
RowsAreUnique ==
  Settled /\ amiss \subseteq {"missed build"} =>
    \A v \in View : \A i, j \in DOMAIN rows[v] : i # j => rows[v][i].drink # rows[v][j].drink

\* The largest session that statistics name still has drinks, hence a row: the page
\* of a drinker loads it without asking (user_detail).  A session that has gone
\* takes its name out of all statistics, those of other sessions' drinks included.
LargestSessionExists ==
  Settled /\ amiss = {} =>
    \A v \in View : DOMAIN rows[v] # {} =>
      Latest(rows[v]).largest.session \in {drink[d].session : d \in DOMAIN drink}

=============================================================================
