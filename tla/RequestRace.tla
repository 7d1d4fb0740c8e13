---------------------------- MODULE RequestRace ----------------------------
(***************************************************************************)
(* The requests of Kegbot when they overlap.  A request loads the rows it  *)
(* works on, computes with the loaded copies, and writes values (not       *)
(* increments) in a transaction.  The code takes no lock of its own        *)
(* (no select_for_update, no F()): a copy may be stale when it is saved.   *)
(*                                                                         *)
(* A request is the script of its statements that reach the database; one  *)
(* step is one statement.  The database shows a statement the rows last    *)
(* committed, lets a transaction keep the rows it has written to itself    *)
(* until it commits, and rolls one back when transactions wait for each    *)
(* other in a circle.                                                      *)
(*                                                                         *)
(* All drinks fall in one evening: a session that exists is active.        *)
(***************************************************************************)
EXTENDS Integers, Sequences, VolumeSums

CONSTANTS
  Requests,  \* requests; also names the drink and the session a pour creates
  Earlier,   \* the drink that was there before, and its session
  Taps, Kegs, NoKeg,
  Nobody,    \* no request: the owner of a row that is free; no copy of a row
  Volumes    \* volumes poured, spilled or entered

ASSUME RaceAssumption ==
  /\ NoKeg \notin Kegs
  /\ Earlier \notin Requests /\ Nobody \notin Requests
  /\ Volumes \subseteq Nat \ {0}

VARIABLES
  tapKeg,    \* KegTap.current_keg
  kegRow,    \* the fields of Keg that requests write
  drink,     \* Drink rows, by id
  session,   \* DrinkingSession.volume_ml, by id
  owner,     \* owner[r]: the request whose transaction has written row r
  script,    \* script[p]: the statements request p has yet to run
  loc,       \* loc[p]: what request p holds in memory, NotArrived before it arrives
  shared     \* history: rows that two unfinished requests have worked on

vars == <<tapKeg, kegRow, drink, session, owner, script, loc, shared>>

Ids == Requests \cup {Earlier}

SessionRows == {"session"} \X Ids
Rows == ({"tap"} \X Taps) \cup ({"keg"} \X Kegs) \cup ({"drink"} \X Ids) \cup SessionRows

KegRow == [served : Int, spilled : Nat, status : {"available", "on_tap", "finished"}]

Running(p) == script[p] # << >>

\* What a request holds that has yet to arrive.
NotArrived == [op |-> "none"]

DrinksOfKeg(k) == {d \in DOMAIN drink : drink[d].keg = k}
DrinksOfSession(s) == {d \in DOMAIN drink : drink[d].session = s}

-----------------------------------------------------------------------------
(* The statements of each kind of request, in order *)

Script(op) ==
  CASE op = "pour"   -> <<"load_keg", "find_session", "write_session", "write_keg", "commit">>
    [] op = "cancel" -> <<"load_keg", "write_keg", "write_drink", "read_drinks",
                          "write_session", "commit">>
    [] op = "adjust" -> <<"write_drink", "load_keg", "write_keg", "read_drinks",
                          "write_session", "commit">>
    [] op \in {"spill", "spill_api"} -> <<"load_keg", "write_keg", "commit">>
    [] op = "end"    -> <<"load_keg", "write_tap", "write_keg", "commit">>
    [] op = "attach" -> <<"load_keg", "write_keg", "write_tap", "commit">>
    [] op = "settings" -> <<"write_tap", "commit">>

\* The requests that change drinks, and with them a session.
DrinkOps == {"pour", "cancel", "adjust"}

Does(p, statement) == Running(p) /\ Head(script[p]) = statement

Advance(p) == script' = [script EXCEPT ![p] = Tail(@)]

\* As below, for a transaction left open (a mutant).
FinishUncommitted(p) ==
  /\ script' = [script EXCEPT ![p] = << >>]
  /\ UNCHANGED owner

\* Request p is over: nothing of it is left to run, its rows are anybody's.
Finish(p) ==
  /\ script' = [script EXCEPT ![p] = << >>]
  /\ owner' = [r \in Rows |-> IF owner[r] = p THEN Nobody ELSE owner[r]]

-----------------------------------------------------------------------------
(* A request arrives.  req says what it is: a record of its operation, tap,  *)
(* keg and drink, the drink's volume as loaded, and the volume entered.      *)

\* The rows that the request works on; sessions, known only later, as a whole.
Claims(req) ==
  {r \in {<<"tap", req.tap>>, <<"keg", req.keg>>} : r \in Rows}
  \cup (IF req.op \in DrinkOps THEN SessionRows ELSE {})

Begin(p, req) ==
  /\ loc[p] = NotArrived
  /\ loc' = [loc EXCEPT ![p] =
               [op |-> req.op, tap |-> req.tap, keg |-> req.keg, drink |-> req.drink,
                old |-> req.old, new |-> req.new, claims |-> Claims(req),
                session |-> IF req.drink \in DOMAIN drink THEN drink[req.drink].session ELSE p,
                copy |-> Nobody,   \* the Keg row loaded
                sum |-> 0,         \* the session's volume to be saved
                left |-> TRUE]]    \* are there drinks left in the session?
  /\ script' = [script EXCEPT ![p] = Script(req.op)]
  /\ shared' = shared \cup
       {r \in Claims(req) : \E q \in Requests : Running(q) /\ r \in loc[q].claims}
  /\ UNCHANGED <<tapKeg, kegRow, drink, session, owner>>

\* A request about a tap, whose row is loaded.  A pour or a spill and the end of
\* the keg are refused when there is no keg, a keg for the tap when there is one.
\* The settings of the tap are saved with the rest of its row, the keg included.
BeginAtTap(p) ==
  \E t \in Taps :
    \/ \E op \in {"pour", "spill", "spill_api"}, v \in Volumes :
         /\ tapKeg[t] # NoKeg
         /\ Begin(p, [op |-> op, tap |-> t, keg |-> tapKeg[t], drink |-> p,
                      old |-> 0, new |-> v])
    \/ /\ tapKeg[t] # NoKeg
       /\ Begin(p, [op |-> "end", tap |-> t, keg |-> tapKeg[t], drink |-> p,
                    old |-> 0, new |-> 0])
    \/ \E k \in Kegs :
         /\ tapKeg[t] = NoKeg
         /\ Begin(p, [op |-> "attach", tap |-> t, keg |-> k, drink |-> p,
                      old |-> 0, new |-> 0])
    \/ Begin(p, [op |-> "settings", tap |-> t, keg |-> tapKeg[t], drink |-> p,
                 old |-> 0, new |-> 0])

\* The drink is loaded, to be cancelled or given another volume.
BeginEdit(p) ==
  \E d \in DOMAIN drink, v \in Volumes \cup {0} :
    /\ v # drink[d].volume
    /\ Begin(p, [op |-> IF v = 0 THEN "cancel" ELSE "adjust", tap |-> NoKeg,
                 keg |-> drink[d].keg, drink |-> d, old |-> drink[d].volume, new |-> v])

-----------------------------------------------------------------------------
(* Errors *)

\* As below, when sessions are deleted without a look at their drinks (a mutant).
FailsUnprotected(p) ==
  LET l == loc[p]
  IN  \/ Does(p, "load_keg") /\ l.op = "cancel" /\ l.session \notin DOMAIN session
      \/ Does(p, "write_drink") /\ l.op = "adjust" /\ l.drink \notin DOMAIN drink
      \/ Does(p, "write_tap") /\ l.op # "end" /\ l.keg # NoKeg
         /\ \E t \in Taps \ {l.tap} : tapKeg[t] = l.keg

\* The statement that p is about to run raises: the drink's session is gone, the
\* drink to be updated is gone (update_fields), the keg would be on two taps
\* (one-to-one), or the session to be deleted has drinks (PROTECT).
Fails(p) ==
  LET l == loc[p]
  IN  \/ Does(p, "load_keg") /\ l.op = "cancel" /\ l.session \notin DOMAIN session
      \/ Does(p, "write_drink") /\ l.op = "adjust" /\ l.drink \notin DOMAIN drink
      \/ Does(p, "write_tap") /\ l.op # "end" /\ l.keg # NoKeg
         /\ \E t \in Taps \ {l.tap} : tapKeg[t] = l.keg
      \/ Does(p, "commit") /\ ~l.left /\ DrinksOfSession(l.session) \ {l.drink} # {}

-----------------------------------------------------------------------------
(* Statements that read *)

\* tap.current_keg, self.keg or Keg.objects.get: the Keg row is copied.
LoadKeg(p) ==
  /\ Does(p, "load_keg")
  /\ ~Fails(p)
  /\ loc' = [loc EXCEPT ![p].copy = kegRow[loc[p].keg]]
  /\ Advance(p)
  /\ UNCHANGED <<tapKeg, kegRow, drink, session, owner, shared>>

\* AssignSessionForDrink looks for the last session; p names the new one it makes
\* when there is none.  The volume to be saved is computed from the copy.
FindSession(p) ==
  /\ Does(p, "find_session")
  /\ \E s \in (IF DOMAIN session = {} THEN {p} ELSE DOMAIN session) :
       loc' = [loc EXCEPT
                 ![p].session = s,
                 ![p].sum = loc[p].new + (IF s \in DOMAIN session THEN session[s] ELSE 0)]
  /\ Advance(p)
  /\ UNCHANGED <<tapKeg, kegRow, drink, session, owner, shared>>

\* As below, before the drink itself is deleted or updated (a mutant).
ReadDrinksFirst(p) ==
  /\ Does(p, "read_drinks")
  /\ LET drinks == DrinksOfSession(loc[p].session)
     IN  loc' = [loc EXCEPT ![p].sum = VolumeOf(drink, drinks), ![p].left = drinks # {}]
  /\ Advance(p)
  /\ UNCHANGED <<tapKeg, kegRow, drink, session, owner, shared>>

\* DrinkingSession.Rebuild reads the drinks of the session, its own change made.
ReadDrinks(p) ==
  /\ Does(p, "read_drinks")
  /\ LET others == DrinksOfSession(loc[p].session) \ {loc[p].drink}
     IN  loc' = [loc EXCEPT ![p].sum = VolumeOf(drink, others) + loc[p].new,
                            ![p].left = loc[p].op = "adjust" \/ others # {}]
  /\ Advance(p)
  /\ UNCHANGED <<tapKeg, kegRow, drink, session, owner, shared>>

-----------------------------------------------------------------------------
(* Statements that write: what they write is seen by others after the commit *)

Writes == {"write_tap", "write_keg", "write_drink", "write_session"}

\* The row that the statement w of request p writes.
Target(p, w) ==
  CASE w = "write_tap"     -> <<"tap", loc[p].tap>>
    [] w = "write_keg"     -> <<"keg", loc[p].keg>>
    [] w = "write_drink"   -> <<"drink", loc[p].drink>>
    [] w = "write_session" -> <<"session", loc[p].session>>

\* An UPDATE, INSERT or DELETE waits until no other transaction has written the row.
Write(p) ==
  \E w \in Writes :
    /\ Does(p, w)
    /\ ~Fails(p)
    /\ owner[Target(p, w)] \in {Nobody, p}
    /\ owner' = [owner EXCEPT ![Target(p, w)] = p]
    /\ Advance(p)
    /\ UNCHANGED <<tapKeg, kegRow, drink, session, loc, shared>>

\* As below, the end of a keg leaving it on the tap (a mutant).
TapsKept(p) ==
  LET l == loc[p]
  IN  IF l.op \in {"attach", "settings"} THEN [tapKeg EXCEPT ![l.tap] = l.keg] ELSE tapKeg

TapsWritten(p) ==
  LET l == loc[p]
  IN  CASE l.op = "end" -> [tapKeg EXCEPT ![l.tap] = NoKeg]
        [] l.op \in {"attach", "settings"} -> [tapKeg EXCEPT ![l.tap] = l.keg]
        [] OTHER -> tapKeg

\* Requests about drinks save served_volume_ml alone, the admin's spills
\* spilled_ml alone (update_fields), all others every field of their copy.
KegsWritten(p) ==
  LET l == loc[p]
  IN  CASE l.op \in DrinkOps ->
             [kegRow EXCEPT ![l.keg].served = l.copy.served + l.new - l.old]
        [] l.op = "spill"     -> [kegRow EXCEPT ![l.keg].spilled = l.copy.spilled + l.new]
        [] l.op = "spill_api" -> [kegRow EXCEPT ![l.keg] = [l.copy EXCEPT !.spilled = @ + l.new]]
        [] l.op = "end"       -> [kegRow EXCEPT ![l.keg] = [l.copy EXCEPT !.status = "finished"]]
        [] l.op = "attach"    -> [kegRow EXCEPT ![l.keg] = [l.copy EXCEPT !.status = "on_tap"]]
        [] OTHER -> kegRow

\* As below, saving a pour before it is given its session (a mutant).
DrinksWithoutSession(p) ==
  LET l == loc[p]
  IN  CASE l.op \in {"pour", "adjust"} ->
             [d \in DOMAIN drink \cup {l.drink} |->
                IF d # l.drink THEN drink[d]
                ELSE [keg |-> l.keg, volume |-> l.new,
                      session |-> IF l.op = "pour" THEN Nobody ELSE l.session]]
        [] l.op = "cancel" -> [d \in DOMAIN drink \ {l.drink} |-> drink[d]]
        [] OTHER -> drink

DrinksWritten(p) ==
  LET l == loc[p]
  IN  CASE l.op \in {"pour", "adjust"} ->
             [d \in DOMAIN drink \cup {l.drink} |->
                IF d = l.drink THEN [keg |-> l.keg, volume |-> l.new, session |-> l.session]
                ELSE drink[d]]
        [] l.op = "cancel" -> [d \in DOMAIN drink \ {l.drink} |-> drink[d]]
        [] OTHER -> drink

\* save() of a session inserts the row again should it be gone; a session without
\* drinks is deleted.
SessionsWritten(p) ==
  LET l == loc[p]
  IN  IF l.op \notin DrinkOps THEN session
      ELSE IF l.left
      THEN [s \in DOMAIN session \cup {l.session} |-> IF s = l.session THEN l.sum ELSE session[s]]
      ELSE [s \in DOMAIN session \ {l.session} |-> session[s]]

Commit(p) ==
  /\ Does(p, "commit")
  /\ ~Fails(p)
  /\ tapKeg' = TapsWritten(p)
  /\ kegRow' = KegsWritten(p)
  /\ drink' = DrinksWritten(p)
  /\ session' = SessionsWritten(p)
  /\ Finish(p)
  /\ UNCHANGED <<loc, shared>>

\* The row that the next statement of p writes belongs to request q.
WaitsFor(p, q) ==
  \E w \in Writes : Does(p, w) /\ owner[Target(p, w)] = q /\ q # p

\* p is in a circle of waiting transactions.
Deadlocked(p) ==
  \E circle \in SUBSET Requests :
    /\ p \in circle
    /\ \A q \in circle : (\E r \in circle : WaitsFor(q, r)) /\ (\E r \in circle : WaitsFor(r, q))

\* As below, without @transaction.atomic: the keg stays as written (a mutant).
RollBackButKeg(p) ==
  /\ Fails(p) \/ Deadlocked(p)
  /\ Finish(p)
  /\ kegRow' = IF \E r \in Rows : r[1] = "keg" /\ owner[r] = p THEN KegsWritten(p) ELSE kegRow
  /\ UNCHANGED <<tapKeg, drink, session, loc, shared>>

\* The transaction of p is rolled back, because of an error or as the victim of a
\* deadlock; the request fails and nobody tries it again.
RollBack(p) ==
  /\ Fails(p) \/ Deadlocked(p)
  /\ Finish(p)
  /\ UNCHANGED <<tapKeg, kegRow, drink, session, loc, shared>>

-----------------------------------------------------------------------------

\* A consistent state between requests: taps with different kegs, at most one
\* earlier drink, and totals that agree with it.
Init ==
  /\ tapKeg \in {f \in [Taps -> Kegs \cup {NoKeg}] :
                   \A t, u \in Taps : f[t] = f[u] /\ f[t] # NoKeg => t = u}
  /\ \E k \in Kegs, v \in Volumes, there \in BOOLEAN :
       /\ drink = IF there THEN [d \in {Earlier} |-> [keg |-> k, volume |-> v, session |-> d]]
                  ELSE << >>
       /\ session = IF there THEN [s \in {Earlier} |-> v] ELSE << >>
       /\ kegRow = [x \in Kegs |->
                      [served |-> IF there /\ x = k THEN v ELSE 0,
                       spilled |-> 0,
                       status |-> IF \E t \in Taps : tapKeg[t] = x THEN "on_tap"
                                  ELSE "available"]]
  /\ owner = [r \in Rows |-> Nobody]
  /\ script = [p \in Requests |-> << >>]
  /\ loc = [p \in Requests |-> NotArrived]
  /\ shared = {}

Step(p) ==
  LoadKeg(p) \/ FindSession(p) \/ ReadDrinks(p) \/ Write(p) \/ Commit(p) \/ RollBack(p)

Next == \E p \in Requests : BeginAtTap(p) \/ BeginEdit(p) \/ Step(p)

\* A request that has arrived is served; nothing makes requests arrive.
Spec == Init /\ [][Next]_vars /\ \A p \in Requests : WF_vars(Step(p))

-----------------------------------------------------------------------------
(* Properties *)

TypeOK ==
  /\ tapKeg \in [Taps -> Kegs \cup {NoKeg}]
  /\ kegRow \in [Kegs -> KegRow]
  /\ DOMAIN drink \subseteq Ids
  /\ \A d \in DOMAIN drink : drink[d] \in [keg : Kegs, volume : Volumes, session : Ids]
  /\ DOMAIN session \subseteq Ids
  /\ \A s \in DOMAIN session : session[s] \in Nat
  /\ owner \in [Rows -> Requests \cup {Nobody}]
  /\ shared \subseteq Rows

\* "Computed served volume." (Keg.served_volume_ml): once no request is under way,
\* each keg's total is the sum of its drinks.
ServedIsSumOfDrinks ==
  (\A p \in Requests : ~Running(p)) =>
    \A k \in Kegs : kegRow[k].served = VolumeOf(drink, DrinksOfKeg(k))

\* A total goes wrong only on a keg that two requests worked on at the same time:
\* overlapping traffic on other kegs, taps and the common session never disturbs
\* it, so that serialising the requests of one keg would be enough.
UnsharedKegIsExact ==
  \A k \in Kegs : <<"keg", k>> \notin shared =>
    kegRow[k].served = VolumeOf(drink, DrinksOfKeg(k))

\* Likewise for the sessions: their totals and the drinks they have agree unless
\* two requests that change drinks overlapped.
UnsharedSessionsAreExact ==
  SessionRows \cap shared = {} =>
    /\ \A s \in DOMAIN session : session[s] = VolumeOf(drink, DrinksOfSession(s))
    /\ {drink[d].session : d \in DOMAIN drink} = DOMAIN session

\* Overlapping or not, no drink is left without its session: not when the last
\* other drink of the session is cancelled while this one is being poured.
DrinksHaveSessions ==
  \A d \in DOMAIN drink : drink[d].session \in DOMAIN session

\* A tap and its keg agree unless requests overlapped on one of them.
UnsharedTapAgreesWithKeg ==
  \A t \in Taps : LET k == tapKeg[t] IN
    k # NoKeg /\ {<<"tap", t>>, <<"keg", k>>} \cap shared = {} => kegRow[k].status = "on_tap"

\* Every request that arrives comes to an end, with its rows released: circles of
\* waiting transactions (a pour writes the session before the keg, a cancellation
\* the keg before the session) are resolved.
RequestsEnd ==
  \A p \in Requests : Running(p) ~> (~Running(p) /\ \A r \in Rows : owner[r] # p)

=============================================================================
