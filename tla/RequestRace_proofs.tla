------------------------- MODULE RequestRace_proofs -------------------------
(***************************************************************************)
(* What overlapping requests leave intact, for any number of them, of taps *)
(* and of kegs.                                                            *)
(*                                                                         *)
(* DrinksHaveSessions holds whatever overlaps: a request that leaves a     *)
(* drink saves its session again, and the look at the drinks of a session  *)
(* to be deleted is part of its commit.  It needs no row to be locked.     *)
(*                                                                         *)
(* UnsharedTapAgreesWithKeg rests on shared being what it is meant to be:  *)
(* a row that is not shared is claimed by one request at most, so what     *)
(* that request has read of it is still so when it commits.                *)
(*                                                                         *)
(* UnsharedKegIsExact and UnsharedSessionsAreExact rest on the same: the   *)
(* copy of an unshared keg, the drink to be changed and the sum computed   *)
(* for its session are what the database has.  Besides, a pour's drink is  *)
(* new when it commits, and requests about one drink have loaded the same  *)
(* keg and session.  The commit then changes the total by as much as it    *)
(* changes the sum over the drinks.                                        *)
(***************************************************************************)
EXTENDS RequestRace, Volumes_proofs

\* The kinds of requests, and their statements.
Ops == {"pour", "cancel", "adjust", "spill", "spill_api", "end", "attach", "settings"}

Statements ==
  {"load_keg", "find_session", "read_drinks", "write_tap", "write_keg", "write_drink",
   "write_session", "commit"}

\* Those that load a drink.
Edits == {"cancel", "adjust"}

\* Those that write a tap.
TapOps == {"end", "attach", "settings"}

LocFields ==
  {"op", "tap", "keg", "drink", "old", "new", "claims", "session", "copy", "sum", "left"}

KegFields == {"served", "spilled", "status"}

\* Request p has yet to run the statement.
Pending(p, statement) == \E i \in DOMAIN script[p] : script[p][i] = statement

\* The rows that a request was told of.
TapRow(p) == <<"tap", loc[p].tap>>
KegOf(p) == <<"keg", loc[p].keg>>

\* What a request holds, and that it claims what it was told of.
RequestShape(p) ==
  /\ DOMAIN loc[p] = LocFields
  /\ loc[p].op \in Ops
  /\ loc[p].op \in TapOps => loc[p].tap \in Taps /\ loc[p].keg \in Kegs \cup {NoKeg}
  /\ loc[p].op \in {"end", "attach"} => loc[p].keg \in Kegs
  /\ loc[p].tap \in Taps => TapRow(p) \in loc[p].claims
  /\ loc[p].keg \in Kegs => KegOf(p) \in loc[p].claims

\* A commit comes last; a pour looks for its session, an edit rebuilds its own.
ScriptShape(p) ==
  \A i \in DOMAIN script[p] :
    /\ script[p][i] = "commit" => i = Len(script[p])
    /\ script[p][i] = "find_session" => loc[p].op = "pour"
    /\ script[p][i] = "read_drinks" => loc[p].op \in Edits

Shapes ==
  /\ tapKeg \in [Taps -> Kegs \cup {NoKeg}]
  /\ DOMAIN loc = Requests
  /\ script \in [Requests -> Seq(Statements)]
  /\ \A p \in Requests : Running(p) => RequestShape(p) /\ ScriptShape(p)

-----------------------------------------------------------------------------
(* Scripts *)

\* What is used of the scripts.
LEMMA ScriptFacts ==
  ASSUME NEW op \in Ops
  PROVE  /\ Script(op) \in Seq(Statements) /\ Script(op) # << >>
         /\ \A i \in DOMAIN Script(op) : Script(op)[i] = "commit" => i = Len(Script(op))
         /\ \A i \in DOMAIN Script(op) :
              /\ Script(op)[i] = "find_session" => op = "pour"
              /\ Script(op)[i] = "read_drinks" => op \in Edits
         /\ op # "settings" => \E i \in DOMAIN Script(op) : Script(op)[i] = "load_keg"
         /\ op = "attach" => \E i \in DOMAIN Script(op) : Script(op)[i] = "write_tap"
         /\ op = "pour" => \E i \in DOMAIN Script(op) : Script(op)[i] = "find_session"
         /\ op \in Edits => \E i \in DOMAIN Script(op) : Script(op)[i] = "read_drinks"
<1> DEFINE s == Script(op)
<1> SUFFICES /\ s \in Seq(Statements) /\ s # << >>
             /\ \A i \in DOMAIN s : s[i] = "commit" => i = Len(s)
             /\ \A i \in DOMAIN s :
                  /\ s[i] = "find_session" => op = "pour"
                  /\ s[i] = "read_drinks" => op \in Edits
             /\ op # "settings" => \E i \in DOMAIN s : s[i] = "load_keg"
             /\ op = "attach" => \E i \in DOMAIN s : s[i] = "write_tap"
             /\ op = "pour" => \E i \in DOMAIN s : s[i] = "find_session"
             /\ op \in Edits => \E i \in DOMAIN s : s[i] = "read_drinks"
  OBVIOUS
<1> HIDE DEF s
<1>1. CASE op = "pour"
  <2>1. s = <<"load_keg", "find_session", "write_session", "write_keg", "commit">>
    BY <1>1 DEF Script, s
  <2>2. s \in Seq(Statements) /\ s # << >>
    <3>1. <<"load_keg", "find_session", "write_session", "write_keg", "commit">> \in Seq(Statements)
      BY DEF Statements
    <3>2. s \in Seq(Statements)
      BY <2>1, <3>1, Zenon
    <3>3. Len(s) = 5
      BY <2>1
    <3> QED
      BY <3>2, <3>3
  <2>3. \A i \in DOMAIN s : s[i] = "commit" => i = Len(s)
    BY <2>1
  <2>4. \A i \in DOMAIN s : s[i] # "read_drinks"
    BY <2>1
  <2>5. \A i \in DOMAIN s : /\ s[i] = "find_session" => op = "pour"
                            /\ s[i] = "read_drinks" => op \in Edits
    BY <1>1, <2>4 DEF Edits
  <2>6. 1 \in DOMAIN s /\ s[1] = "load_keg"
    BY <2>1
  <2>7. 2 \in DOMAIN s /\ s[2] = "find_session"
    BY <2>1
  <2>8. /\ op # "settings" => \E i \in DOMAIN s : s[i] = "load_keg"
        /\ op = "attach" => \E i \in DOMAIN s : s[i] = "write_tap"
        /\ op = "pour" => \E i \in DOMAIN s : s[i] = "find_session"
        /\ op \in Edits => \E i \in DOMAIN s : s[i] = "read_drinks"
    BY <1>1, <2>6, <2>7 DEF Edits
  <2> QED
    BY <2>2, <2>3, <2>5, <2>8
<1>2. CASE op = "cancel"
  <2>1. s = <<"load_keg", "write_keg", "write_drink", "read_drinks", "write_session", "commit">>
    BY <1>2 DEF Script, s
  <2>2. s \in Seq(Statements) /\ s # << >>
    <3>1. <<"load_keg", "write_keg", "write_drink", "read_drinks", "write_session", "commit">>
            \in Seq(Statements)
      BY DEF Statements
    <3>2. s \in Seq(Statements)
      BY <2>1, <3>1, Zenon
    <3>3. Len(s) = 6
      BY <2>1
    <3> QED
      BY <3>2, <3>3
  <2>3. \A i \in DOMAIN s : s[i] = "commit" => i = Len(s)
    BY <2>1
  <2>4. \A i \in DOMAIN s : s[i] # "find_session"
    BY <2>1
  <2>5. \A i \in DOMAIN s : /\ s[i] = "find_session" => op = "pour"
                            /\ s[i] = "read_drinks" => op \in Edits
    BY <1>2, <2>4 DEF Edits
  <2>6. 1 \in DOMAIN s /\ s[1] = "load_keg"
    BY <2>1
  <2>7. 4 \in DOMAIN s /\ s[4] = "read_drinks"
    BY <2>1
  <2>8. /\ op # "settings" => \E i \in DOMAIN s : s[i] = "load_keg"
        /\ op = "attach" => \E i \in DOMAIN s : s[i] = "write_tap"
        /\ op = "pour" => \E i \in DOMAIN s : s[i] = "find_session"
        /\ op \in Edits => \E i \in DOMAIN s : s[i] = "read_drinks"
    BY <1>2, <2>6, <2>7 DEF Edits
  <2> QED
    BY <2>2, <2>3, <2>5, <2>8
<1>3. CASE op = "adjust"
  <2>1. s = <<"write_drink", "load_keg", "write_keg", "read_drinks", "write_session", "commit">>
    BY <1>3 DEF Script, s
  <2>2. s \in Seq(Statements) /\ s # << >>
    <3>1. <<"write_drink", "load_keg", "write_keg", "read_drinks", "write_session", "commit">>
            \in Seq(Statements)
      BY DEF Statements
    <3>2. s \in Seq(Statements)
      BY <2>1, <3>1, Zenon
    <3>3. Len(s) = 6
      BY <2>1
    <3> QED
      BY <3>2, <3>3
  <2>3. \A i \in DOMAIN s : s[i] = "commit" => i = Len(s)
    BY <2>1
  <2>4. \A i \in DOMAIN s : s[i] # "find_session"
    BY <2>1
  <2>5. \A i \in DOMAIN s : /\ s[i] = "find_session" => op = "pour"
                            /\ s[i] = "read_drinks" => op \in Edits
    BY <1>3, <2>4 DEF Edits
  <2>6. 2 \in DOMAIN s /\ s[2] = "load_keg"
    BY <2>1
  <2>7. 4 \in DOMAIN s /\ s[4] = "read_drinks"
    BY <2>1
  <2>8. /\ op # "settings" => \E i \in DOMAIN s : s[i] = "load_keg"
        /\ op = "attach" => \E i \in DOMAIN s : s[i] = "write_tap"
        /\ op = "pour" => \E i \in DOMAIN s : s[i] = "find_session"
        /\ op \in Edits => \E i \in DOMAIN s : s[i] = "read_drinks"
    BY <1>3, <2>6, <2>7 DEF Edits
  <2> QED
    BY <2>2, <2>3, <2>5, <2>8
<1>4. CASE op \in {"spill", "spill_api"}
  <2>1. s = <<"load_keg", "write_keg", "commit">>
    BY <1>4 DEF Script, s
  <2>2. s \in Seq(Statements) /\ s # << >>
    <3>1. <<"load_keg", "write_keg", "commit">> \in Seq(Statements)
      BY DEF Statements
    <3>2. s \in Seq(Statements)
      BY <2>1, <3>1, Zenon
    <3>3. Len(s) = 3
      BY <2>1
    <3> QED
      BY <3>2, <3>3
  <2>3. \A i \in DOMAIN s : s[i] = "commit" => i = Len(s)
    BY <2>1
  <2>4. \A i \in DOMAIN s : s[i] # "find_session" /\ s[i] # "read_drinks"
    BY <2>1
  <2>5. \A i \in DOMAIN s : /\ s[i] = "find_session" => op = "pour"
                            /\ s[i] = "read_drinks" => op \in Edits
    BY <1>4, <2>4 DEF Edits
  <2>6. 1 \in DOMAIN s /\ s[1] = "load_keg"
    BY <2>1
  <2>7. /\ op # "settings" => \E i \in DOMAIN s : s[i] = "load_keg"
        /\ op = "attach" => \E i \in DOMAIN s : s[i] = "write_tap"
        /\ op = "pour" => \E i \in DOMAIN s : s[i] = "find_session"
        /\ op \in Edits => \E i \in DOMAIN s : s[i] = "read_drinks"
    BY <1>4, <2>6 DEF Edits
  <2> QED
    BY <2>2, <2>3, <2>5, <2>7
<1>5. CASE op = "end"
  <2>1. s = <<"load_keg", "write_tap", "write_keg", "commit">>
    BY <1>5 DEF Script, s
  <2>2. s \in Seq(Statements) /\ s # << >>
    <3>1. <<"load_keg", "write_tap", "write_keg", "commit">> \in Seq(Statements)
      BY DEF Statements
    <3>2. s \in Seq(Statements)
      BY <2>1, <3>1, Zenon
    <3>3. Len(s) = 4
      BY <2>1
    <3> QED
      BY <3>2, <3>3
  <2>3. \A i \in DOMAIN s : s[i] = "commit" => i = Len(s)
    BY <2>1
  <2>4. \A i \in DOMAIN s : s[i] # "find_session" /\ s[i] # "read_drinks"
    BY <2>1
  <2>5. \A i \in DOMAIN s : /\ s[i] = "find_session" => op = "pour"
                            /\ s[i] = "read_drinks" => op \in Edits
    BY <1>5, <2>4 DEF Edits
  <2>6. 1 \in DOMAIN s /\ s[1] = "load_keg"
    BY <2>1
  <2>7. /\ op # "settings" => \E i \in DOMAIN s : s[i] = "load_keg"
        /\ op = "attach" => \E i \in DOMAIN s : s[i] = "write_tap"
        /\ op = "pour" => \E i \in DOMAIN s : s[i] = "find_session"
        /\ op \in Edits => \E i \in DOMAIN s : s[i] = "read_drinks"
    BY <1>5, <2>6 DEF Edits
  <2> QED
    BY <2>2, <2>3, <2>5, <2>7
<1>6. CASE op = "attach"
  <2>1. s = <<"load_keg", "write_keg", "write_tap", "commit">>
    BY <1>6 DEF Script, s
  <2>2. s \in Seq(Statements) /\ s # << >>
    <3>1. <<"load_keg", "write_keg", "write_tap", "commit">> \in Seq(Statements)
      BY DEF Statements
    <3>2. s \in Seq(Statements)
      BY <2>1, <3>1, Zenon
    <3>3. Len(s) = 4
      BY <2>1
    <3> QED
      BY <3>2, <3>3
  <2>3. \A i \in DOMAIN s : s[i] = "commit" => i = Len(s)
    BY <2>1
  <2>4. \A i \in DOMAIN s : s[i] # "find_session" /\ s[i] # "read_drinks"
    BY <2>1
  <2>5. \A i \in DOMAIN s : /\ s[i] = "find_session" => op = "pour"
                            /\ s[i] = "read_drinks" => op \in Edits
    BY <1>6, <2>4 DEF Edits
  <2>6. 1 \in DOMAIN s /\ s[1] = "load_keg"
    BY <2>1
  <2>7. 3 \in DOMAIN s /\ s[3] = "write_tap"
    BY <2>1
  <2>8. /\ op # "settings" => \E i \in DOMAIN s : s[i] = "load_keg"
        /\ op = "attach" => \E i \in DOMAIN s : s[i] = "write_tap"
        /\ op = "pour" => \E i \in DOMAIN s : s[i] = "find_session"
        /\ op \in Edits => \E i \in DOMAIN s : s[i] = "read_drinks"
    BY <1>6, <2>6, <2>7 DEF Edits
  <2> QED
    BY <2>2, <2>3, <2>5, <2>8
<1>7. CASE op = "settings"
  <2>1. s = <<"write_tap", "commit">>
    BY <1>7 DEF Script, s
  <2>2. s \in Seq(Statements) /\ s # << >>
    <3>1. <<"write_tap", "commit">> \in Seq(Statements)
      BY DEF Statements
    <3>2. s \in Seq(Statements)
      BY <2>1, <3>1, Zenon
    <3>3. Len(s) = 2
      BY <2>1
    <3> QED
      BY <3>2, <3>3
  <2>3. \A i \in DOMAIN s : s[i] = "commit" => i = Len(s)
    BY <2>1
  <2>4. \A i \in DOMAIN s : s[i] # "find_session" /\ s[i] # "read_drinks"
    BY <2>1
  <2>5. \A i \in DOMAIN s : /\ s[i] = "find_session" => op = "pour"
                            /\ s[i] = "read_drinks" => op \in Edits
    BY <1>7, <2>4 DEF Edits
  <2>6. /\ op # "settings" => \E i \in DOMAIN s : s[i] = "load_keg"
        /\ op = "attach" => \E i \in DOMAIN s : s[i] = "write_tap"
        /\ op = "pour" => \E i \in DOMAIN s : s[i] = "find_session"
        /\ op \in Edits => \E i \in DOMAIN s : s[i] = "read_drinks"
    BY <1>7 DEF Edits
  <2> QED
    BY <2>2, <2>3, <2>5, <2>6
<1> QED
  BY <1>1, <1>2, <1>3, <1>4, <1>5, <1>6, <1>7 DEF Ops

\* A request that runs a statement has that one behind it.
LEMMA AdvanceFacts ==
  ASSUME Shapes, NEW p \in Requests, Running(p), Advance(p)
  PROVE  /\ script' \in [Requests -> Seq(Statements)]
         /\ \A q \in Requests \ {p} : script'[q] = script[q]
         /\ script'[p] = Tail(script[p])
         /\ Len(script[p]) \in Nat /\ Len(script'[p]) = Len(script[p]) - 1
         /\ \A i \in DOMAIN script'[p] : i + 1 \in DOMAIN script[p]
                                         /\ script'[p][i] = script[p][i + 1]
         /\ \A statement : Pending(p, statement) =>
              Head(script[p]) = statement
              \/ \E i \in DOMAIN script'[p] : script'[p][i] = statement
<1>1. script[p] \in Seq(Statements) /\ script[p] # << >>
  BY DEF Shapes, Running
<1>2. script' = [script EXCEPT ![p] = Tail(script[p])]
  BY DEF Advance
<1>3. /\ script' \in [Requests -> Seq(Statements)]
      /\ \A q \in Requests \ {p} : script'[q] = script[q]
      /\ script'[p] = Tail(script[p])
  BY <1>1, <1>2 DEF Shapes
<1> DEFINE s == script[p]
           n == Len(s)
<1>4. /\ n \in Nat /\ n >= 1 /\ DOMAIN s = 1 .. n /\ Head(s) = s[1]
      /\ Len(Tail(s)) = n - 1 /\ DOMAIN Tail(s) = 1 .. n - 1
      /\ \A i \in 1 .. n - 1 : Tail(s)[i] = s[i + 1]
  BY <1>1
<1>5. ASSUME NEW statement, Pending(p, statement)
      PROVE  Head(s) = statement \/ \E i \in DOMAIN Tail(s) : Tail(s)[i] = statement
  <2>1. PICK i \in 1 .. n : s[i] = statement
    BY <1>4, <1>5 DEF Pending
  <2>2. CASE i = 1
    BY <1>4, <2>1, <2>2
  <2>3. CASE i # 1
    <3>1. i - 1 \in 1 .. n - 1 /\ i - 1 + 1 = i
      BY <1>4, <2>3
    <3> QED
      BY <1>4, <2>1, <3>1
  <2> QED
    BY <2>2, <2>3
<1>6. \A i \in DOMAIN Tail(s) : i + 1 \in DOMAIN s /\ Tail(s)[i] = s[i + 1]
  BY <1>4
<1> HIDE DEF s, n
<1> QED
  BY <1>3, <1>4, <1>5, <1>6 DEF s, n

\* At its commit a request has run all else.
LEMMA CommitIsLast ==
  ASSUME Shapes, NEW p \in Requests, Does(p, "commit"), NEW statement, statement # "commit"
  PROVE  ~Pending(p, statement)
<1>1. script[p] \in Seq(Statements) /\ script[p] # << >> /\ Head(script[p]) = "commit"
      /\ ScriptShape(p)
  BY DEF Shapes, Does, Running
<1>2. 1 \in DOMAIN script[p] /\ script[p][1] = "commit" /\ DOMAIN script[p] = 1 .. Len(script[p])
  BY <1>1
<1>3. Len(script[p]) = 1
  BY <1>1, <1>2 DEF ScriptShape
<1> QED
  BY <1>2, <1>3 DEF Pending

-----------------------------------------------------------------------------
(* What the actions do to the requests *)

\* What a request is told of, and what it finds of it.
Arrival(req) ==
  /\ req.op \in Ops
  /\ req.op \in TapOps => req.tap \in Taps /\ req.keg \in Kegs \cup {NoKeg}
  /\ req.op \in {"end", "attach"} => req.keg \in Kegs
  /\ req.op \in {"end", "settings"} => tapKeg[req.tap] = req.keg

DrinkRow == [keg : Kegs, volume : Volumes, session : Ids]

DrinkRows == \A d \in DOMAIN drink : d \in Ids /\ drink[d] \in DrinkRow

\* What the arriving request p is told of the drink and of volumes.
DrinkArrival(p, req) ==
  /\ req.op # "settings" => req.keg \in Kegs
  /\ req.drink \in Ids /\ req.old \in Nat /\ req.new \in Nat
  /\ req.op \in {"pour", "adjust"} => req.new \in Volumes
  /\ req.op = "pour" => req.drink = p /\ req.old = 0
  /\ req.op = "cancel" => req.new = 0
  /\ req.op \in Edits => /\ req.drink \in DOMAIN drink
                         /\ drink[req.drink].keg = req.keg /\ drink[req.drink].volume = req.old

\* Every request that arrives has been told what these say.
LEMMA Arrivals ==
  ASSUME Shapes, NEW p \in Requests, BeginAtTap(p) \/ BeginEdit(p)
  PROVE  \E req : Arrival(req) /\ Begin(p, req) /\ (DrinkRows => DrinkArrival(p, req))
<1>1. tapKeg \in [Taps -> Kegs \cup {NoKeg}]
  BY DEF Shapes
<1>2. ASSUME NEW t \in Taps, NEW op \in {"pour", "spill", "spill_api"}, NEW v \in Volumes,
             tapKeg[t] # NoKeg,
             Begin(p, [op |-> op, tap |-> t, keg |-> tapKeg[t], drink |-> p,
                       old |-> 0, new |-> v])
      PROVE  \E req : Arrival(req) /\ Begin(p, req) /\ (DrinkRows => DrinkArrival(p, req))
  <2> DEFINE req == [op |-> op, tap |-> t, keg |-> tapKeg[t], drink |-> p,
                     old |-> 0, new |-> v]
  <2>1. req.op = op /\ req.keg = tapKeg[t] /\ req.drink = p /\ req.old = 0 /\ req.new = v
    OBVIOUS
  <2> HIDE DEF req
  <2>2. Arrival(req)
    BY <2>1 DEF Arrival, Ops, TapOps
  <2>3. DrinkArrival(p, req)
    BY <1>1, <1>2, <2>1, RaceAssumption DEF DrinkArrival, Edits, Ids
  <2> QED
    BY <1>2, <2>2, <2>3 DEF req
<1>3. ASSUME NEW t \in Taps, NEW op \in {"end", "settings"},
             op = "end" => tapKeg[t] # NoKeg,
             Begin(p, [op |-> op, tap |-> t, keg |-> tapKeg[t], drink |-> p,
                       old |-> 0, new |-> 0])
      PROVE  \E req : Arrival(req) /\ Begin(p, req) /\ (DrinkRows => DrinkArrival(p, req))
  <2> DEFINE req == [op |-> op, tap |-> t, keg |-> tapKeg[t], drink |-> p,
                     old |-> 0, new |-> 0]
  <2>1. /\ req.op = op /\ req.tap = t /\ req.keg = tapKeg[t]
        /\ req.drink = p /\ req.old = 0 /\ req.new = 0
    OBVIOUS
  <2> HIDE DEF req
  <2>2. Arrival(req)
    BY <1>1, <1>3, <2>1 DEF Arrival, Ops, TapOps
  <2>3. DrinkArrival(p, req)
    BY <1>1, <1>3, <2>1 DEF DrinkArrival, Edits, Ids
  <2> QED
    BY <1>3, <2>2, <2>3 DEF req
<1>4. ASSUME NEW t \in Taps, NEW k \in Kegs,
             Begin(p, [op |-> "attach", tap |-> t, keg |-> k, drink |-> p,
                       old |-> 0, new |-> 0])
      PROVE  \E req : Arrival(req) /\ Begin(p, req) /\ (DrinkRows => DrinkArrival(p, req))
  <2> DEFINE req == [op |-> "attach", tap |-> t, keg |-> k, drink |-> p,
                     old |-> 0, new |-> 0]
  <2>1. /\ req.op = "attach" /\ req.tap = t /\ req.keg = k
        /\ req.drink = p /\ req.old = 0 /\ req.new = 0
    OBVIOUS
  <2> HIDE DEF req
  <2>2. Arrival(req)
    BY <2>1 DEF Arrival, Ops, TapOps
  <2>3. DrinkArrival(p, req)
    BY <2>1 DEF DrinkArrival, Edits, Ids
  <2> QED
    BY <1>4, <2>2, <2>3 DEF req
<1>5. CASE BeginAtTap(p)
  BY <1>2, <1>3, <1>4, <1>5 DEF BeginAtTap
<1>6. CASE BeginEdit(p)
  <2>1. PICK d \in DOMAIN drink, v \in Volumes \cup {0} :
          Begin(p, [op |-> IF v = 0 THEN "cancel" ELSE "adjust", tap |-> NoKeg,
                    keg |-> drink[d].keg, drink |-> d, old |-> drink[d].volume, new |-> v])
    BY <1>6 DEF BeginEdit
  <2> DEFINE req == [op |-> IF v = 0 THEN "cancel" ELSE "adjust", tap |-> NoKeg,
                     keg |-> drink[d].keg, drink |-> d, old |-> drink[d].volume, new |-> v]
  <2>2. /\ req.op = IF v = 0 THEN "cancel" ELSE "adjust"
        /\ req.keg = drink[d].keg /\ req.drink = d
        /\ req.old = drink[d].volume /\ req.new = v
    OBVIOUS
  <2> HIDE DEF req
  <2>3. Arrival(req)
    BY <2>2 DEF Arrival, Ops, TapOps
  <2>4. ASSUME DrinkRows PROVE DrinkArrival(p, req)
    <3>1. d \in Ids /\ drink[d] \in DrinkRow
      BY <2>4 DEF DrinkRows
    <3>2. drink[d].keg \in Kegs /\ drink[d].volume \in Nat /\ v \in Nat
      <4>1. drink[d].keg \in Kegs /\ drink[d].volume \in Volumes
        BY <3>1 DEF DrinkRow
      <4>2. \A w \in Volumes : w \in Nat
        BY RaceAssumption
      <4>3. v \in Volumes \/ v = 0
        OBVIOUS
      <4>4. v \in Nat
        BY <4>2, <4>3
      <4> QED
        BY <4>1, <4>2, <4>4
    <3>3. /\ req.op # "settings" /\ req.op # "pour"
          /\ req.op = "adjust" => v \in Volumes
          /\ req.op = "cancel" => v = 0
      BY <2>2
    <3> QED
      BY <2>2, <3>1, <3>2, <3>3 DEF DrinkArrival
  <2> QED
    BY <2>1, <2>3, <2>4 DEF req
<1> QED
  BY <1>5, <1>6

\* The new request is as it was told, the others are what they were.
LEMMA BeginFacts ==
  ASSUME Shapes, NEW p \in Requests, NEW req, Arrival(req), Begin(p, req)
  PROVE  /\ \A q \in Requests \ {p} : loc'[q] = loc[q] /\ script'[q] = script[q]
         /\ DOMAIN loc'[p] = LocFields
         /\ loc'[p].op = req.op /\ loc'[p].tap = req.tap /\ loc'[p].keg = req.keg
         /\ loc'[p].claims = Claims(req) /\ loc'[p].left
         /\ loc'[p].drink = req.drink /\ loc'[p].old = req.old /\ loc'[p].new = req.new
         /\ loc'[p].session = IF req.drink \in DOMAIN drink THEN drink[req.drink].session ELSE p
         /\ loc'[p].sum = 0
         /\ script'[p] = Script(req.op)
         /\ UNCHANGED <<tapKeg, kegRow, drink, session, owner>>
         /\ shared \subseteq shared'
         /\ Shapes'
<1> DEFINE s0 == IF req.drink \in DOMAIN drink THEN drink[req.drink].session ELSE p
           l == [op |-> req.op, tap |-> req.tap, keg |-> req.keg, drink |-> req.drink,
                 old |-> req.old, new |-> req.new, claims |-> Claims(req), session |-> s0,
                 copy |-> Nobody, sum |-> 0, left |-> TRUE]
<1>1. loc' = [loc EXCEPT ![p] = l] /\ script' = [script EXCEPT ![p] = Script(req.op)]
  BY DEF Begin
<1>2. /\ DOMAIN l = LocFields
      /\ l.op = req.op /\ l.tap = req.tap /\ l.keg = req.keg
      /\ l.claims = Claims(req) /\ l.left
      /\ l.drink = req.drink /\ l.old = req.old /\ l.new = req.new
      /\ l.session = s0 /\ l.sum = 0
  BY DEF LocFields
<1> HIDE DEF l
<1>3. /\ DOMAIN loc' = Requests
      /\ \A q \in Requests \ {p} : loc'[q] = loc[q] /\ script'[q] = script[q]
      /\ loc'[p] = l /\ script'[p] = Script(req.op)
  BY <1>1 DEF Shapes
<1>4. UNCHANGED <<tapKeg, kegRow, drink, session, owner>> /\ shared \subseteq shared'
  BY DEF Begin
<1>5. script' \in [Requests -> Seq(Statements)]
  BY <1>1, ScriptFacts DEF Shapes, Arrival
<1>6. RequestShape(p)'
  <2>1. req.tap \in Taps => <<"tap", req.tap>> \in Claims(req)
    BY DEF Claims, Rows
  <2>2. req.keg \in Kegs => <<"keg", req.keg>> \in Claims(req)
    BY DEF Claims, Rows
  <2> QED
    BY <1>2, <1>3, <2>1, <2>2 DEF RequestShape, Arrival, TapRow, KegOf
<1>7. ScriptShape(p)'
  <2>1. loc'[p].op = req.op /\ req.op \in Ops
    BY <1>2, <1>3 DEF Arrival
  <2> QED
    BY <1>3, <2>1, ScriptFacts DEF ScriptShape
<1>8. \A q \in Requests : Running(q)' => RequestShape(q)' /\ ScriptShape(q)'
  <2> SUFFICES ASSUME NEW q \in Requests, q # p, Running(q)'
               PROVE  RequestShape(q)' /\ ScriptShape(q)'
    BY <1>6, <1>7
  <2>1. loc'[q] = loc[q] /\ script'[q] = script[q] /\ Running(q)
    BY <1>3 DEF Running
  <2>2. RequestShape(q) /\ ScriptShape(q)
    BY <2>1 DEF Shapes
  <2> QED
    BY <2>1, <2>2 DEF RequestShape, ScriptShape, TapRow, KegOf
<1>9. Shapes'
  BY <1>3, <1>4, <1>5, <1>8 DEF Shapes
<1> QED
  BY <1>2, <1>3, <1>4, <1>9

\* The fields of a request that no statement changes.
Told == {"op", "tap", "keg", "drink", "old", "new", "claims"}

\* A statement of p that is not its last changes p alone.
LEMMA StatementFacts ==
  ASSUME Shapes, NEW p \in Requests,
         LoadKeg(p) \/ FindSession(p) \/ ReadDrinks(p) \/ Write(p)
  PROVE  /\ Running(p) /\ Advance(p)
         /\ \A q \in Requests \ {p} : loc'[q] = loc[q] /\ script'[q] = script[q]
         /\ \A f \in Told : loc'[p][f] = loc[p][f]
         /\ loc'[p].left # loc[p].left => ReadDrinks(p)
         /\ loc'[p].copy # loc[p].copy => LoadKeg(p)
         /\ loc'[p].session # loc[p].session => FindSession(p)
         /\ loc'[p].sum # loc[p].sum => FindSession(p) \/ ReadDrinks(p)
         /\ UNCHANGED <<tapKeg, kegRow, drink, session, shared>>
         /\ Shapes'
<1>1. Running(p) /\ Advance(p) /\ UNCHANGED <<tapKeg, kegRow, drink, session, shared>>
  BY DEF LoadKeg, FindSession, ReadDrinks, Write, Does
<1>2. RequestShape(p) /\ ScriptShape(p) /\ DOMAIN loc = Requests /\ DOMAIN loc[p] = LocFields
  BY <1>1 DEF Shapes, RequestShape
<1>3. /\ DOMAIN loc' = Requests
      /\ \A q \in Requests \ {p} : loc'[q] = loc[q]
      /\ DOMAIN loc'[p] = LocFields
      /\ \A f \in Told : loc'[p][f] = loc[p][f]
      /\ loc'[p].left # loc[p].left => ReadDrinks(p)
      /\ loc'[p].copy # loc[p].copy => LoadKeg(p)
      /\ loc'[p].session # loc[p].session => FindSession(p)
      /\ loc'[p].sum # loc[p].sum => FindSession(p) \/ ReadDrinks(p)
  <2>1. CASE LoadKeg(p)
    BY <1>2, <2>1 DEF LoadKeg, LocFields, Told
  <2>2. CASE FindSession(p)
    <3>1. PICK s, sum : loc' = [loc EXCEPT ![p].session = s, ![p].sum = sum]
      BY <2>2 DEF FindSession
    <3> QED
      BY <1>2, <2>2, <3>1 DEF LocFields, Told
  <2>3. CASE ReadDrinks(p)
    <3>1. PICK sum, left : loc' = [loc EXCEPT ![p].sum = sum, ![p].left = left]
      BY <2>3 DEF ReadDrinks
    <3> QED
      BY <1>2, <2>3, <3>1 DEF LocFields, Told
  <2>4. CASE Write(p)
    BY <1>2, <2>4 DEF Write
  <2> QED
    BY <2>1, <2>2, <2>3, <2>4
<1>4. /\ script' \in [Requests -> Seq(Statements)]
      /\ \A q \in Requests \ {p} : script'[q] = script[q]
  BY <1>1, AdvanceFacts
<1>5. RequestShape(p)'
  BY <1>1, <1>2, <1>3 DEF RequestShape, Told, TapRow, KegOf
<1>6. ScriptShape(p)'
  <2> SUFFICES ASSUME NEW i \in DOMAIN script'[p]
               PROVE  /\ script'[p][i] = "commit" => i = Len(script'[p])
                      /\ script'[p][i] = "find_session" => loc'[p].op = "pour"
                      /\ script'[p][i] = "read_drinks" => loc'[p].op \in Edits
    BY DEF ScriptShape
  <2>1. i + 1 \in DOMAIN script[p] /\ script'[p][i] = script[p][i + 1]
    BY <1>1, AdvanceFacts
  <2>2. Len(script[p]) \in Nat /\ Len(script'[p]) = Len(script[p]) - 1 /\ i \in Int
    BY <1>1, <1>4, AdvanceFacts
  <2>3. loc'[p].op = loc[p].op
    BY <1>3 DEF Told
  <2> QED
    BY <1>2, <2>1, <2>2, <2>3 DEF ScriptShape
<1>7. \A q \in Requests : Running(q)' => RequestShape(q)' /\ ScriptShape(q)'
  <2> SUFFICES ASSUME NEW q \in Requests, q # p, Running(q)'
               PROVE  RequestShape(q)' /\ ScriptShape(q)'
    BY <1>5, <1>6
  <2>1. loc'[q] = loc[q] /\ script'[q] = script[q] /\ Running(q)
    BY <1>3, <1>4 DEF Running
  <2>2. RequestShape(q) /\ ScriptShape(q)
    BY <2>1 DEF Shapes
  <2> QED
    BY <2>1, <2>2 DEF RequestShape, ScriptShape, TapRow, KegOf
<1>8. Shapes'
  BY <1>1, <1>3, <1>4, <1>7 DEF Shapes
<1> QED
  BY <1>1, <1>3, <1>4, <1>8

\* A request that is over leaves the others as they are.
LEMMA FinishFacts ==
  ASSUME Shapes, NEW p \in Requests, Commit(p) \/ RollBack(p)
  PROVE  /\ \A q \in Requests \ {p} : script'[q] = script[q]
         /\ ~Running(p)' /\ loc' = loc /\ shared' = shared
         /\ tapKeg' \in [Taps -> Kegs \cup {NoKeg}] => Shapes'
<1>1. script' = [script EXCEPT ![p] = << >>] /\ loc' = loc /\ shared' = shared
  BY DEF Commit, RollBack, Finish
<1>2. /\ script' \in [Requests -> Seq(Statements)]
      /\ script'[p] = << >> /\ \A q \in Requests \ {p} : script'[q] = script[q]
  <2>1. << >> \in Seq(Statements)
    OBVIOUS
  <2> QED
    BY <1>1, <2>1 DEF Shapes
<1>3. \A q \in Requests : Running(q)' => RequestShape(q)' /\ ScriptShape(q)'
  <2> SUFFICES ASSUME NEW q \in Requests, Running(q)', q # p
               PROVE  RequestShape(q)' /\ ScriptShape(q)'
    BY <1>2 DEF Running
  <2> QED
    BY <1>1, <1>2 DEF Shapes, Running, RequestShape, ScriptShape, TapRow, KegOf
<1> QED
  BY <1>1, <1>2, <1>3 DEF Shapes, Running

-----------------------------------------------------------------------------
(* The requests themselves *)

LEMMA ShapesInit == Init => Shapes
<1> SUFFICES ASSUME Init PROVE Shapes
  OBVIOUS
<1>1. << >> \in Seq(Statements)
  OBVIOUS
<1>2. /\ tapKeg \in [Taps -> Kegs \cup {NoKeg}]
      /\ script = [p \in Requests |-> << >>] /\ loc = [p \in Requests |-> NotArrived]
  BY DEF Init
<1> QED
  BY <1>1, <1>2 DEF Shapes, Running

LEMMA ShapesNext == Shapes /\ [Next]_vars => Shapes'
<1> SUFFICES ASSUME Shapes, [Next]_vars PROVE Shapes'
  OBVIOUS
<1>1. ASSUME NEW p \in Requests, BeginAtTap(p) \/ BeginEdit(p) PROVE Shapes'
  BY <1>1, Arrivals, BeginFacts
<1>2. ASSUME NEW p \in Requests, LoadKeg(p) \/ FindSession(p) \/ ReadDrinks(p) \/ Write(p)
      PROVE  Shapes'
  BY <1>2, StatementFacts
<1>3. ASSUME NEW p \in Requests, Commit(p) \/ RollBack(p) PROVE Shapes'
  <2>1. tapKeg \in [Taps -> Kegs \cup {NoKeg}]
    BY DEF Shapes
  <2>2. CASE Commit(p)
    <3>1. RequestShape(p)
      BY <2>2 DEF Shapes, Commit, Does
    <3>2. tapKeg' = TapsWritten(p)
      BY <2>2 DEF Commit
    <3>3. tapKeg' \in [Taps -> Kegs \cup {NoKeg}]
      BY <2>1, <3>1, <3>2 DEF TapsWritten, RequestShape, TapOps
    <3> QED
      BY <1>3, <3>3, FinishFacts
  <2>3. CASE RollBack(p)
    <3>1. tapKeg' = tapKeg
      BY <2>3 DEF RollBack
    <3> QED
      BY <1>3, <2>1, <3>1, FinishFacts
  <2> QED
    BY <1>3, <2>2, <2>3
<1>4. CASE UNCHANGED vars
  BY <1>4 DEF vars, Shapes, Running, RequestShape, ScriptShape, TapRow, KegOf
<1> QED
  BY <1>1, <1>2, <1>3, <1>4 DEF Next, Step

-----------------------------------------------------------------------------
(* Drinks have sessions *)

\* A request that leaves its drink where it is knows that its session has a drink.
LeavesADrink ==
  \A p \in Requests : Running(p) /\ loc[p].op \in {"pour", "adjust"} => loc[p].left

DrinkInv == Shapes /\ LeavesADrink /\ DrinksHaveSessions

LEMMA DrinkInitInv == Init => DrinkInv
<1> SUFFICES ASSUME Init PROVE LeavesADrink /\ DrinksHaveSessions
  BY ShapesInit DEF DrinkInv
<1>1. LeavesADrink
  BY DEF Init, LeavesADrink, Running
<1>2. \/ drink = << >> /\ session = << >>
      \/ \E k, v : /\ drink = [d \in {Earlier} |-> [keg |-> k, volume |-> v, session |-> d]]
                   /\ session = [s \in {Earlier} |-> v]
  <2> DEFINE row(k, v) == [d \in {Earlier} |-> [keg |-> k, volume |-> v, session |-> d]]
             total(v) == [s \in {Earlier} |-> v]
  <2>1. \E k \in Kegs, v \in Volumes, there \in BOOLEAN :
          /\ drink = IF there THEN row(k, v) ELSE << >>
          /\ session = IF there THEN total(v) ELSE << >>
    BY Zenon DEF Init
  <2> HIDE DEF row, total
  <2>2. \/ drink = << >> /\ session = << >>
        \/ \E k, v : drink = row(k, v) /\ session = total(v)
    BY <2>1
  <2> QED
    BY <2>2 DEF row, total
<1>3. CASE drink = << >>
  <2>1. DOMAIN drink = {}
    BY <1>3
  <2> QED
    BY <1>1, <2>1 DEF DrinksHaveSessions
<1>4. CASE \E k, v : /\ drink = [d \in {Earlier} |-> [keg |-> k, volume |-> v, session |-> d]]
                     /\ session = [s \in {Earlier} |-> v]
  <2>1. DOMAIN drink = {Earlier} /\ DOMAIN session = {Earlier}
        /\ drink[Earlier].session = Earlier
    BY <1>4
  <2> QED
    BY <1>1, <2>1 DEF DrinksHaveSessions
<1> QED
  BY <1>2, <1>3, <1>4

\* The look at the session's drinks is part of the commit that deletes it.
LEMMA CommitLeavesSessions ==
  ASSUME DrinkInv, NEW p \in Requests, Commit(p)
  PROVE  DrinksHaveSessions'
<1> DEFINE l == loc[p]
<1>1. /\ Running(p) /\ RequestShape(p)
      /\ drink' = DrinksWritten(p) /\ session' = SessionsWritten(p)
      /\ l.left \/ DrinksOfSession(l.session) \ {l.drink} = {}
  BY DEF Commit, Fails, Does, DrinkInv, Shapes
<1>2. \A d \in DOMAIN drink : drink[d].session \in DOMAIN session
  BY DEF DrinkInv, DrinksHaveSessions
<1>3. CASE l.op \in {"pour", "adjust"}
  <2>1. l.left
    BY <1>1, <1>3 DEF DrinkInv, LeavesADrink
  <2>2. DOMAIN session' = DOMAIN session \cup {l.session}
    BY <1>1, <1>3, <2>1 DEF SessionsWritten, DrinkOps
  <2>3. drink' = [d \in DOMAIN drink \cup {l.drink} |->
                    IF d = l.drink THEN [keg |-> l.keg, volume |-> l.new, session |-> l.session]
                    ELSE drink[d]]
    BY <1>1, <1>3 DEF DrinksWritten
  <2> QED
    BY <1>2, <2>2, <2>3 DEF DrinksHaveSessions
<1>4. CASE l.op = "cancel"
  <2>1. drink' = [d \in DOMAIN drink \ {l.drink} |-> drink[d]]
    BY <1>1, <1>4 DEF DrinksWritten
  <2>2. CASE l.left
    <3>1. DOMAIN session' = DOMAIN session \cup {l.session}
      BY <1>1, <1>4, <2>2 DEF SessionsWritten, DrinkOps
    <3> QED
      BY <1>2, <2>1, <3>1 DEF DrinksHaveSessions
  <2>3. CASE ~l.left
    <3>1. DOMAIN session' = DOMAIN session \ {l.session}
      BY <1>1, <1>4, <2>3 DEF SessionsWritten, DrinkOps
    <3>2. \A d \in DOMAIN drink \ {l.drink} : drink[d].session # l.session
      BY <1>1, <2>3 DEF DrinksOfSession
    <3> QED
      BY <1>2, <2>1, <3>1, <3>2 DEF DrinksHaveSessions
  <2> QED
    BY <2>2, <2>3
<1>5. CASE l.op \notin DrinkOps
  <2>1. drink' = drink /\ session' = session
    BY <1>1, <1>5 DEF DrinksWritten, SessionsWritten, DrinkOps
  <2> QED
    BY <1>2, <2>1 DEF DrinksHaveSessions
<1> QED
  BY <1>3, <1>4, <1>5 DEF DrinkOps

LEMMA DrinkNextInv == DrinkInv /\ [Next]_vars => DrinkInv'
<1> SUFFICES ASSUME DrinkInv, [Next]_vars PROVE LeavesADrink' /\ DrinksHaveSessions'
  BY ShapesNext DEF DrinkInv
<1> USE DEF DrinkInv
<1>1. ASSUME NEW p \in Requests, BeginAtTap(p) \/ BeginEdit(p)
      PROVE  LeavesADrink' /\ DrinksHaveSessions'
  <2>1. /\ \A q \in Requests \ {p} : loc'[q] = loc[q] /\ script'[q] = script[q]
        /\ loc'[p].left /\ UNCHANGED <<drink, session>>
    BY <1>1, Arrivals, BeginFacts
  <2> QED
    BY <2>1 DEF LeavesADrink, DrinksHaveSessions, Running
<1>2. ASSUME NEW p \in Requests, LoadKeg(p) \/ FindSession(p) \/ ReadDrinks(p) \/ Write(p)
      PROVE  LeavesADrink' /\ DrinksHaveSessions'
  <2>1. /\ \A q \in Requests \ {p} : loc'[q] = loc[q] /\ script'[q] = script[q]
        /\ Running(p) /\ loc'[p].op = loc[p].op
        /\ loc'[p].left # loc[p].left => ReadDrinks(p)
        /\ UNCHANGED <<drink, session>>
    BY <1>2, StatementFacts DEF Told
  <2>2. ASSUME ReadDrinks(p), loc[p].op \in {"pour", "adjust"} PROVE loc'[p].left
    <3>1. /\ DOMAIN loc = Requests /\ RequestShape(p) /\ ScriptShape(p)
          /\ script[p] \in Seq(Statements)
      BY <2>1 DEF Shapes
    <3>2. script[p] # << >> /\ Head(script[p]) = "read_drinks"
      BY <2>2 DEF ReadDrinks, Does, Running
    <3>3. 1 \in DOMAIN script[p] /\ script[p][1] = "read_drinks"
      BY <3>1, <3>2
    <3>4. loc[p].op = "adjust"
      BY <2>2, <3>1, <3>3 DEF ScriptShape, Edits
    <3>5. PICK sum, others :
            loc' = [loc EXCEPT ![p].sum = sum,
                               ![p].left = loc[p].op = "adjust" \/ others # {}]
      BY <2>2 DEF ReadDrinks
    <3> QED
      BY <3>1, <3>4, <3>5 DEF RequestShape, LocFields
  <2> QED
    BY <2>1, <2>2 DEF LeavesADrink, DrinksHaveSessions, Running
<1>3. ASSUME NEW p \in Requests, Commit(p) \/ RollBack(p)
      PROVE  LeavesADrink' /\ DrinksHaveSessions'
  <2>1. LeavesADrink'
    BY <1>3, FinishFacts DEF LeavesADrink, Running
  <2>2. CASE Commit(p)
    BY <2>1, <2>2, CommitLeavesSessions
  <2>3. CASE RollBack(p)
    BY <2>1, <2>3 DEF RollBack, DrinksHaveSessions
  <2> QED
    BY <1>3, <2>2, <2>3
<1>4. CASE UNCHANGED vars
  BY <1>4 DEF vars, LeavesADrink, DrinksHaveSessions, Running
<1> QED
  BY <1>1, <1>2, <1>3, <1>4 DEF Next, Step

\* Cancelling the last other drink of a session while this one is being poured never
\* leaves a drink without its session: a session that has other drinks cannot be
\* deleted (on_delete=PROTECT), however many requests overlap.
THEOREM DrinksDoHaveSessions == Spec => []DrinksHaveSessions
<1>1. DrinkInv => DrinksHaveSessions
  BY DEF DrinkInv
<1> QED
  BY <1>1, DrinkInitInv, DrinkNextInv, PTL DEF Spec

-----------------------------------------------------------------------------
(* Taps and their kegs *)

KegRows == DOMAIN kegRow = Kegs /\ \A k \in Kegs : DOMAIN kegRow[k] = KegFields

\* shared does not miss a row that two requests work on.
OneClaims ==
  \A p, q \in Requests : Running(p) /\ Running(q) =>
    \A r \in loc[p].claims \cap loc[q].claims : p = q \/ r \in shared

\* The copy of a keg nobody else works on is current, as far as its status goes.
Copies ==
  \A p \in Requests :
    Running(p) /\ loc[p].op # "settings" /\ ~Pending(p, "load_keg") /\ loc[p].keg \in Kegs =>
      /\ DOMAIN loc[p].copy = KegFields
      /\ KegOf(p) \notin shared => loc[p].copy.status = kegRow[loc[p].keg].status

\* The keg to be saved with the settings of a tap nobody else works on is the tap's.
SettingsCurrent ==
  \A p \in Requests :
    Running(p) /\ loc[p].op = "settings" /\ TapRow(p) \notin shared =>
      tapKeg[loc[p].tap] = loc[p].keg

\* Request p has seen that its keg is on no other tap.
Settled(p) ==
  /\ Running(p) /\ loc[p].keg \in Kegs
  /\ loc[p].op \in {"end", "settings"} \/ (loc[p].op = "attach" /\ ~Pending(p, "write_tap"))

NoOtherTap ==
  \A p \in Requests : Settled(p) /\ KegOf(p) \notin shared =>
    \A u \in Taps \ {loc[p].tap} : tapKeg[u] # loc[p].keg

OnOneTap ==
  \A t, u \in Taps :
    tapKeg[t] = tapKeg[u] /\ tapKeg[t] # NoKeg /\ <<"keg", tapKeg[t]>> \notin shared => t = u

TapInv ==
  /\ Shapes /\ KegRows /\ OneClaims /\ Copies
  /\ SettingsCurrent /\ NoOtherTap /\ OnOneTap /\ UnsharedTapAgreesWithKeg

LEMMA TapInitInv == Init => TapInv
<1> SUFFICES ASSUME Init PROVE TapInv
  OBVIOUS
<1>1. \A p \in Requests : ~Running(p)
  BY DEF Init, Running
<1>2. OnOneTap
  BY DEF Init, OnOneTap
<1> DEFINE row(there, k, v) ==
             [x \in Kegs |->
                [served |-> IF there /\ x = k THEN v ELSE 0,
                 spilled |-> 0,
                 status |-> IF \E t \in Taps : tapKeg[t] = x THEN "on_tap" ELSE "available"]]
<1>3. \E k \in Kegs, v \in Volumes, there \in BOOLEAN : kegRow = row(there, k, v)
  BY Zenon DEF Init
<1>4. KegRows /\ \A t \in Taps : tapKeg[t] \in Kegs => kegRow[tapKeg[t]].status = "on_tap"
  BY <1>3 DEF KegRows, KegFields
<1>5. UnsharedTapAgreesWithKeg
  BY <1>4, ShapesInit DEF Shapes, UnsharedTapAgreesWithKeg
<1> QED
  BY <1>1, <1>2, <1>4, <1>5, ShapesInit
     DEF TapInv, OneClaims, Copies, SettingsCurrent, NoOtherTap, Settled

\* An arrival claims its rows, and shared tells who else has.
LEMMA BeginKeepsTaps ==
  ASSUME TapInv, NEW p \in Requests, BeginAtTap(p) \/ BeginEdit(p)
  PROVE  TapInv'
<1>1. PICK req : Arrival(req) /\ Begin(p, req)
  BY Arrivals DEF TapInv
<1>2. /\ \A q \in Requests \ {p} : loc'[q] = loc[q] /\ script'[q] = script[q]
      /\ loc'[p].op = req.op /\ loc'[p].tap = req.tap /\ loc'[p].keg = req.keg
      /\ loc'[p].claims = Claims(req) /\ script'[p] = Script(req.op)
      /\ UNCHANGED <<tapKeg, kegRow>> /\ shared \subseteq shared' /\ Shapes'
  BY <1>1, BeginFacts DEF TapInv
<1>3. \A q \in Requests \ {p} : Running(q)' = Running(q)
  BY <1>2 DEF Running
<1>4. \A statement : \A q \in Requests \ {p} :
        /\ Pending(q, statement)' = Pending(q, statement)
        /\ KegOf(q)' = KegOf(q) /\ TapRow(q)' = TapRow(q)
  BY <1>2 DEF Pending, KegOf, TapRow
<1>5. OneClaims'
  <2>1. \A q \in Requests \ {p} : Running(q) =>
          \A r \in Claims(req) \cap loc[q].claims : r \in shared'
    BY <1>1 DEF Begin
  <2> QED
    BY <1>2, <1>3, <2>1 DEF OneClaims, TapInv
<1>6. Copies'
  <2>1. req.op # "settings" => Pending(p, "load_keg")'
    BY <1>1, <1>2, ScriptFacts DEF Pending, Arrival
  <2>2. ASSUME NEW q \in Requests \ {p}, Running(q)', loc'[q].op # "settings",
               ~Pending(q, "load_keg")', loc'[q].keg \in Kegs
        PROVE  /\ DOMAIN loc'[q].copy = KegFields
               /\ KegOf(q)' \notin shared' => loc'[q].copy.status = kegRow'[loc'[q].keg].status
    BY <1>2, <1>3, <1>4, <2>2 DEF Copies, TapInv
  <2> QED
    BY <1>2, <2>1, <2>2 DEF Copies
<1>7. SettingsCurrent'
  <2>1. req.op = "settings" => tapKeg[req.tap] = req.keg
    BY <1>1 DEF Arrival
  <2>2. ASSUME NEW q \in Requests \ {p}, Running(q)', loc'[q].op = "settings",
               TapRow(q)' \notin shared'
        PROVE  tapKeg'[loc'[q].tap] = loc'[q].keg
    BY <1>2, <1>3, <1>4, <2>2 DEF SettingsCurrent, TapInv
  <2> QED
    BY <1>2, <2>1, <2>2 DEF SettingsCurrent
<1>8. NoOtherTap'
  <2>1. ASSUME Settled(p)', KegOf(p)' \notin shared', NEW u \in Taps \ {req.tap},
               tapKeg[u] = req.keg
        PROVE  FALSE
    <3>1. req.op # "attach"
      BY <1>1, <1>2, <2>1, ScriptFacts DEF Settled, Pending, Arrival
    <3>2. /\ req.op \in {"end", "settings"} /\ req.keg \in Kegs
          /\ <<"keg", req.keg>> \notin shared
      BY <1>2, <2>1, <3>1 DEF Settled, KegOf
    <3>3. req.tap \in Taps /\ tapKeg[req.tap] = req.keg
      BY <1>1, <3>2 DEF Arrival, TapOps
    <3> QED
      BY <2>1, <3>2, <3>3, RaceAssumption DEF TapInv, OnOneTap
  <2>2. ASSUME NEW q \in Requests \ {p}, Settled(q)', KegOf(q)' \notin shared'
        PROVE  \A u \in Taps \ {loc'[q].tap} : tapKeg'[u] # loc'[q].keg
    <3>1. Settled(q) /\ KegOf(q) \notin shared
      BY <1>2, <1>3, <1>4, <2>2 DEF Settled
    <3> QED
      BY <1>2, <3>1 DEF NoOtherTap, TapInv
  <2> QED
    BY <1>2, <2>1, <2>2 DEF NoOtherTap
<1>9. KegRows' /\ OnOneTap' /\ UnsharedTapAgreesWithKeg'
  BY <1>2 DEF KegRows, OnOneTap, UnsharedTapAgreesWithKeg, TapInv
<1> QED
  BY <1>2, <1>5, <1>6, <1>7, <1>8, <1>9 DEF TapInv

\* Reads find rows that nobody else may change, or that are shared.
LEMMA StatementKeepsTaps ==
  ASSUME TapInv, NEW p \in Requests,
         LoadKeg(p) \/ FindSession(p) \/ ReadDrinks(p) \/ Write(p)
  PROVE  TapInv'
<1>1. /\ Running(p) /\ Advance(p)
      /\ \A q \in Requests \ {p} : loc'[q] = loc[q] /\ script'[q] = script[q]
      /\ loc'[p].op = loc[p].op /\ loc'[p].tap = loc[p].tap
      /\ loc'[p].keg = loc[p].keg /\ loc'[p].claims = loc[p].claims
      /\ loc'[p].copy # loc[p].copy => LoadKeg(p)
      /\ UNCHANGED <<tapKeg, kegRow, shared>> /\ Shapes'
  BY StatementFacts DEF TapInv, Told
<1>2. /\ \A q \in Requests : Running(q)' => Running(q)
      /\ \A q \in Requests : KegOf(q)' = KegOf(q) /\ TapRow(q)' = TapRow(q)
      /\ \A q \in Requests :
           /\ loc'[q].op = loc[q].op /\ loc'[q].tap = loc[q].tap
           /\ loc'[q].keg = loc[q].keg /\ loc'[q].claims = loc[q].claims
  BY <1>1 DEF Running, KegOf, TapRow
<1>3. \A statement : \A q \in Requests \ {p} : Pending(q, statement)' = Pending(q, statement)
  BY <1>1 DEF Pending
<1>4. \A statement : Pending(p, statement) =>
        Head(script[p]) = statement \/ Pending(p, statement)'
  BY <1>1, AdvanceFacts DEF Pending, TapInv
<1>5. OneClaims' /\ SettingsCurrent' /\ KegRows' /\ OnOneTap' /\ UnsharedTapAgreesWithKeg'
  BY <1>1, <1>2 DEF TapInv, OneClaims, SettingsCurrent, KegRows, OnOneTap,
                    UnsharedTapAgreesWithKeg
<1>6. Copies'
  <2>1. ASSUME loc[p].op # "settings", ~Pending(p, "load_keg")', loc[p].keg \in Kegs
        PROVE  /\ DOMAIN loc'[p].copy = KegFields
               /\ KegOf(p) \notin shared => loc'[p].copy.status = kegRow[loc[p].keg].status
    <3>1. CASE LoadKeg(p)
      <4>1. DOMAIN loc = Requests /\ DOMAIN loc[p] = LocFields
        BY <1>1 DEF TapInv, Shapes, RequestShape
      <4>2. loc'[p].copy = kegRow[loc[p].keg]
        BY <3>1, <4>1 DEF LoadKeg, LocFields
      <4> QED
        BY <2>1, <4>2 DEF TapInv, KegRows
    <3>2. CASE ~LoadKeg(p)
      <4>1. Head(script[p]) # "load_keg"
        BY <3>2 DEF FindSession, ReadDrinks, Write, Writes, Does
      <4>2. ~Pending(p, "load_keg") /\ loc'[p].copy = loc[p].copy
        BY <1>1, <1>4, <2>1, <3>2, <4>1
      <4> QED
        BY <1>1, <2>1, <4>2 DEF TapInv, Copies
    <3> QED
      BY <3>1, <3>2
  <2>2. ASSUME NEW q \in Requests \ {p}, Running(q), loc[q].op # "settings",
               ~Pending(q, "load_keg"), loc[q].keg \in Kegs
        PROVE  /\ DOMAIN loc'[q].copy = KegFields
               /\ KegOf(q) \notin shared => loc'[q].copy.status = kegRow[loc[q].keg].status
    BY <1>1, <2>2 DEF Copies, TapInv
  <2> QED
    BY <1>1, <1>2, <1>3, <2>1, <2>2 DEF Copies
<1>7. NoOtherTap'
  <2>1. ASSUME Settled(p)', KegOf(p) \notin shared, NEW u \in Taps \ {loc[p].tap}
        PROVE  tapKeg[u] # loc[p].keg
    <3>1. CASE Settled(p)
      BY <2>1, <3>1 DEF TapInv, NoOtherTap
    <3>2. CASE ~Settled(p)
      <4>1. loc[p].op = "attach" /\ loc[p].keg \in Kegs
            /\ Pending(p, "write_tap") /\ ~Pending(p, "write_tap")'
        BY <1>1, <2>1, <3>2 DEF Settled
      <4>2. Head(script[p]) = "write_tap"
        BY <1>4, <4>1
      <4>3. Does(p, "write_tap") /\ ~Fails(p)
        BY <1>1, <4>2 DEF LoadKeg, FindSession, ReadDrinks, Write, Does
      <4> QED
        BY <2>1, <4>1, <4>3, RaceAssumption DEF Fails
    <3> QED
      BY <3>1, <3>2
  <2>2. ASSUME NEW q \in Requests \ {p}, Settled(q)'
        PROVE  Settled(q)
    BY <1>2, <1>3, <2>2 DEF Settled
  <2> QED
    BY <1>1, <1>2, <2>1, <2>2 DEF NoOtherTap, TapInv
<1> QED
  BY <1>1, <1>5, <1>6, <1>7 DEF TapInv

\* What a commit does to the keg and the tap that its request has claimed.
LEMMA CommitWrites ==
  ASSUME TapInv, NEW p \in Requests, Commit(p)
  PROVE  /\ tapKeg' = TapsWritten(p) /\ tapKeg' \in [Taps -> Kegs \cup {NoKeg}]
         /\ KegRows'
         /\ \A k \in Kegs \ {loc[p].keg} : kegRow'[k] = kegRow[k]
         /\ loc[p].op = "settings" => kegRow' = kegRow
         /\ loc[p].op = "attach" /\ loc[p].keg \in Kegs => kegRow'[loc[p].keg].status = "on_tap"
         /\ loc[p].op \notin TapOps /\ loc[p].keg \in Kegs /\ KegOf(p) \notin shared =>
              kegRow'[loc[p].keg].status = kegRow[loc[p].keg].status
<1> DEFINE l == loc[p]
<1>1. /\ Running(p) /\ RequestShape(p) /\ l.op \in Ops
      /\ tapKeg' = TapsWritten(p) /\ kegRow' = KegsWritten(p)
  BY DEF Commit, Does, TapInv, Shapes, RequestShape
<1>2. tapKeg' \in [Taps -> Kegs \cup {NoKeg}]
  <2>1. tapKeg \in [Taps -> Kegs \cup {NoKeg}]
    BY DEF TapInv, Shapes
  <2> QED
    BY <1>1, <2>1 DEF TapsWritten, RequestShape, TapOps
<1>3. l.op # "settings" /\ l.keg \in Kegs =>
        /\ DOMAIN l.copy = KegFields
        /\ KegOf(p) \notin shared => l.copy.status = kegRow[l.keg].status
  BY <1>1, CommitIsLast DEF TapInv, Copies, Commit
<1>4. DOMAIN kegRow = Kegs /\ \A k \in Kegs : DOMAIN kegRow[k] = KegFields
  BY DEF TapInv, KegRows
<1>5. CASE l.op \in DrinkOps
  <2>1. kegRow' = [kegRow EXCEPT ![l.keg].served = l.copy.served + l.new - l.old]
    BY <1>1, <1>5 DEF KegsWritten, DrinkOps
  <2>2. KegRows' /\ (\A k \in Kegs \ {l.keg} : kegRow'[k] = kegRow[k])
        /\ (l.keg \in Kegs => kegRow'[l.keg].status = kegRow[l.keg].status)
    BY <1>4, <2>1 DEF KegRows, KegFields
  <2> QED
    BY <1>1, <1>2, <1>5, <2>2 DEF DrinkOps
<1>6. CASE l.op = "spill"
  <2>1. kegRow' = [kegRow EXCEPT ![l.keg].spilled = l.copy.spilled + l.new]
    BY <1>1, <1>6 DEF KegsWritten, DrinkOps
  <2>2. KegRows' /\ (\A k \in Kegs \ {l.keg} : kegRow'[k] = kegRow[k])
        /\ (l.keg \in Kegs => kegRow'[l.keg].status = kegRow[l.keg].status)
    BY <1>4, <2>1 DEF KegRows, KegFields
  <2> QED
    BY <1>1, <1>2, <1>6, <2>2
<1>7. CASE l.op = "spill_api"
  <2>1. kegRow' = [kegRow EXCEPT ![l.keg] = [l.copy EXCEPT !.spilled = @ + l.new]]
    BY <1>1, <1>7 DEF KegsWritten, DrinkOps
  <2>2. KegRows' /\ (\A k \in Kegs \ {l.keg} : kegRow'[k] = kegRow[k])
        /\ (l.keg \in Kegs => kegRow'[l.keg].status = l.copy.status)
    BY <1>3, <1>4, <1>7, <2>1 DEF KegRows, KegFields
  <2> QED
    BY <1>1, <1>2, <1>3, <1>7, <2>2
<1>8. CASE l.op \in {"end", "attach"}
  <2> DEFINE new == IF l.op = "end" THEN "finished" ELSE "on_tap"
  <2>1. kegRow' = [kegRow EXCEPT ![l.keg] = [l.copy EXCEPT !.status = new]]
    BY <1>1, <1>8 DEF KegsWritten, DrinkOps
  <2>2. KegRows' /\ (\A k \in Kegs \ {l.keg} : kegRow'[k] = kegRow[k])
        /\ (l.keg \in Kegs => kegRow'[l.keg].status = new)
    BY <1>3, <1>4, <1>8, <2>1 DEF KegRows, KegFields
  <2> QED
    BY <1>1, <1>2, <1>8, <2>2 DEF TapOps
<1>9. CASE l.op = "settings"
  <2>1. kegRow' = kegRow
    BY <1>1, <1>9 DEF KegsWritten, DrinkOps
  <2> QED
    BY <1>1, <1>2, <1>4, <1>9, <2>1 DEF KegRows, TapOps
<1> QED
  BY <1>1, <1>5, <1>6, <1>7, <1>8, <1>9 DEF Ops, DrinkOps

\* A request that is over has disturbed what the others hold only where they share.
LEMMA CommitKeepsTaps ==
  ASSUME TapInv, NEW p \in Requests, Commit(p)
  PROVE  TapInv'
<1> DEFINE l == loc[p]
<1>1. /\ \A q \in Requests \ {p} : script'[q] = script[q]
      /\ ~Running(p)' /\ loc' = loc /\ shared' = shared
  BY FinishFacts DEF TapInv
<1>2. /\ Running(p) /\ RequestShape(p) /\ l.op \in Ops
  BY DEF Commit, Does, TapInv, Shapes, RequestShape
<1>3. /\ tapKeg' = TapsWritten(p) /\ tapKeg' \in [Taps -> Kegs \cup {NoKeg}]
      /\ KegRows'
      /\ \A k \in Kegs \ {l.keg} : kegRow'[k] = kegRow[k]
      /\ l.op = "settings" => kegRow' = kegRow
      /\ l.op = "attach" /\ l.keg \in Kegs => kegRow'[l.keg].status = "on_tap"
      /\ l.op \notin TapOps /\ l.keg \in Kegs /\ KegOf(p) \notin shared =>
           kegRow'[l.keg].status = kegRow[l.keg].status
  BY CommitWrites
<1>4. Shapes'
  BY <1>3, FinishFacts DEF TapInv
<1>5. tapKeg \in [Taps -> Kegs \cup {NoKeg}]
  BY DEF TapInv, Shapes
\* The tap of the request, if it writes one, is the only one that changes.
<1>6. /\ l.op \in TapOps => l.tap \in Taps
      /\ l.op \notin TapOps => tapKeg' = tapKeg
      /\ l.op = "end" => tapKeg'[l.tap] = NoKeg
      /\ l.op \in {"attach", "settings"} => tapKeg'[l.tap] = l.keg
      /\ \A t \in Taps : tapKeg'[t] = tapKeg[t] \/ (l.op \in TapOps /\ t = l.tap)
  BY <1>2, <1>3, <1>5 DEF TapsWritten, RequestShape, TapOps
<1>7. \A q \in Requests : Running(q)' =>
        /\ q # p /\ Running(q) /\ RequestShape(q)
        /\ \A r \in loc[q].claims : r \in l.claims => r \in shared
  BY <1>1, <1>2 DEF Running, TapInv, Shapes, OneClaims
<1>8. \A statement : \A q \in Requests : Running(q)' =>
        Pending(q, statement)' = Pending(q, statement)
  BY <1>1, <1>7 DEF Pending
<1>9. \A q \in Requests : KegOf(q)' = KegOf(q) /\ TapRow(q)' = TapRow(q)
  BY <1>1 DEF KegOf, TapRow
\* A running request with the same keg or tap shares it.
<1>10. \A q \in Requests : Running(q)' =>
         /\ loc[q].keg \in Kegs /\ loc[q].keg = l.keg => KegOf(q) \in shared
         /\ loc[q].tap \in Taps /\ loc[q].tap = l.tap => TapRow(q) \in shared
  BY <1>2, <1>7 DEF RequestShape, KegOf, TapRow
<1>11. OneClaims'
  BY <1>1, <1>7 DEF OneClaims, TapInv
<1>12. Copies'
  BY <1>1, <1>3, <1>7, <1>8, <1>9, <1>10 DEF Copies, TapInv
<1>13. SettingsCurrent'
  <2> SUFFICES ASSUME NEW q \in Requests, Running(q)', loc[q].op = "settings",
                      TapRow(q) \notin shared
               PROVE  tapKeg'[loc[q].tap] = loc[q].keg
    BY <1>1, <1>9 DEF SettingsCurrent
  <2>1. loc[q].tap \in Taps /\ loc[q].tap # l.tap
    BY <1>7, <1>10 DEF RequestShape, TapOps
  <2> QED
    BY <1>6, <1>7, <2>1 DEF TapInv, SettingsCurrent
<1>14. NoOtherTap'
  <2> SUFFICES ASSUME NEW q \in Requests, Settled(q)', KegOf(q) \notin shared,
                      NEW u \in Taps \ {loc[q].tap}
               PROVE  tapKeg'[u] # loc[q].keg
    BY <1>1, <1>9 DEF NoOtherTap
  <2>1. Settled(q) /\ Running(q)' /\ loc[q].keg \in Kegs
    BY <1>1, <1>7, <1>8 DEF Settled
  <2>2. tapKeg[u] # loc[q].keg /\ l.keg # loc[q].keg
    BY <1>10, <2>1 DEF TapInv, NoOtherTap
  <2> QED
    BY <1>6, <2>1, <2>2, RaceAssumption DEF TapOps
\* A keg that has been put on a tap is on no other.
<1>15. l.op \in TapOps /\ l.keg \in Kegs /\ KegOf(p) \notin shared =>
         \A u \in Taps \ {l.tap} : tapKeg[u] # l.keg
  <2>1. ~Pending(p, "write_tap")
    BY CommitIsLast DEF Commit, TapInv
  <2> QED
    BY <1>2, <2>1 DEF TapOps, Settled, TapInv, NoOtherTap
<1>16. OnOneTap'
  <2> SUFFICES ASSUME NEW t \in Taps, NEW u \in Taps, tapKeg'[t] = tapKeg'[u], t # u,
                      tapKeg'[t] # NoKeg, <<"keg", tapKeg'[t]>> \notin shared
               PROVE  FALSE
    BY <1>1 DEF OnOneTap
  <2>1. tapKeg'[t] \in Kegs
    BY <1>3
  <2>2. CASE tapKeg'[t] = tapKeg[t] /\ tapKeg'[u] = tapKeg[u]
    BY <2>2 DEF TapInv, OnOneTap
  <2>3. CASE tapKeg'[t] # tapKeg[t] \/ tapKeg'[u] # tapKeg[u]
    <3>1. /\ l.op \in {"attach", "settings"} /\ l.keg = tapKeg'[t]
          /\ \E x \in {t, u} : x # l.tap /\ tapKeg[x] = l.keg
      BY <1>6, <2>3 DEF TapOps
    <3> QED
      BY <1>15, <2>1, <3>1 DEF KegOf, TapOps
  <2> QED
    BY <2>2, <2>3
<1>17. UnsharedTapAgreesWithKeg'
  <2> SUFFICES ASSUME NEW t \in Taps, tapKeg'[t] # NoKeg, <<"tap", t>> \notin shared,
                      <<"keg", tapKeg'[t]>> \notin shared
               PROVE  kegRow'[tapKeg'[t]].status = "on_tap"
    BY <1>1 DEF UnsharedTapAgreesWithKeg
  <2> DEFINE k == tapKeg'[t]
  <2>1. k \in Kegs
    BY <1>3
  <2>2. tapKeg[t] = k => kegRow[k].status = "on_tap"
    BY <2>1, RaceAssumption DEF TapInv, UnsharedTapAgreesWithKeg
  <2>3. CASE l.op \notin TapOps
    BY <1>3, <1>6, <2>1, <2>2, <2>3 DEF KegOf
  <2>4. CASE l.op = "end"
    <3>1. t # l.tap /\ tapKeg[t] = k
      BY <1>6, <2>4
    <3>2. k # l.keg
      BY <1>15, <2>1, <2>4, <3>1 DEF KegOf, TapOps
    <3> QED
      BY <1>3, <2>1, <2>2, <3>1, <3>2
  <2>5. CASE l.op = "attach"
    <3>1. CASE k = l.keg
      BY <1>3, <2>1, <2>5, <3>1
    <3>2. CASE k # l.keg
      <4>1. tapKeg[t] = k
        BY <1>6, <2>5, <3>2
      <4> QED
        BY <1>3, <2>1, <2>2, <3>2, <4>1
    <3> QED
      BY <3>1, <3>2
  <2>6. CASE l.op = "settings"
    <3>1. t = l.tap => tapKeg[t] = l.keg
      BY <1>2, <2>6 DEF TapInv, SettingsCurrent, TapRow
    <3>2. tapKeg[t] = k
      BY <1>6, <2>6, <3>1
    <3> QED
      BY <1>3, <2>2, <2>6, <3>2
  <2> QED
    BY <2>3, <2>4, <2>5, <2>6 DEF TapOps
<1> QED
  BY <1>3, <1>4, <1>11, <1>12, <1>13, <1>14, <1>16, <1>17 DEF TapInv

\* A request rolled back is forgotten.
LEMMA RollBackKeepsTaps ==
  ASSUME TapInv, NEW p \in Requests, RollBack(p)
  PROVE  TapInv'
<1>1. /\ \A q \in Requests \ {p} : script'[q] = script[q]
      /\ ~Running(p)' /\ loc' = loc /\ shared' = shared
      /\ tapKeg' = tapKeg /\ kegRow' = kegRow
  BY FinishFacts DEF TapInv, RollBack
<1>2. Shapes'
  BY <1>1, FinishFacts DEF TapInv, Shapes
<1>3. \A q \in Requests : Running(q)' => q # p /\ Running(q)
  BY <1>1 DEF Running
<1>4. \A statement : \A q \in Requests : Running(q)' =>
        Pending(q, statement)' = Pending(q, statement)
  BY <1>1, <1>3 DEF Pending
<1>5. \A q \in Requests : KegOf(q)' = KegOf(q) /\ TapRow(q)' = TapRow(q)
  BY <1>1 DEF KegOf, TapRow
<1>6. OneClaims' /\ SettingsCurrent'
  BY <1>1, <1>3, <1>5 DEF OneClaims, SettingsCurrent, TapInv
<1>7. Copies'
  BY <1>1, <1>3, <1>4, <1>5 DEF Copies, TapInv
<1>8. \A q \in Requests : Settled(q)' => Settled(q)
  BY <1>1, <1>3, <1>4 DEF Settled
<1>9. NoOtherTap'
  BY <1>1, <1>5, <1>8 DEF NoOtherTap, TapInv
<1>10. KegRows' /\ OnOneTap' /\ UnsharedTapAgreesWithKeg'
  BY <1>1 DEF KegRows, OnOneTap, UnsharedTapAgreesWithKeg, TapInv
<1> QED
  BY <1>2, <1>6, <1>7, <1>9, <1>10 DEF TapInv

LEMMA TapNextInv == TapInv /\ [Next]_vars => TapInv'
<1> SUFFICES ASSUME TapInv, [Next]_vars PROVE TapInv'
  OBVIOUS
<1>1. CASE UNCHANGED vars
  <2>1. UNCHANGED <<tapKeg, kegRow, script, loc, shared>> /\ Shapes'
    BY <1>1, ShapesNext DEF vars, TapInv
  <2> QED
    BY <2>1 DEF TapInv, KegRows, OneClaims, Copies, SettingsCurrent, NoOtherTap, OnOneTap,
                UnsharedTapAgreesWithKeg, Settled, Running, Pending, KegOf, TapRow
<1> QED
  BY <1>1, BeginKeepsTaps, StatementKeepsTaps, CommitKeepsTaps, RollBackKeepsTaps
     DEF Next, Step

\* A tap and its keg agree unless two requests overlapped on one of them: saving every
\* field of a loaded copy (tap_spill, end_keg, the tap's settings) undoes what another
\* request has saved only if the two worked on the row at the same time.
THEOREM UnsharedTapsAgree == Spec => []UnsharedTapAgreesWithKeg
<1>1. TapInv => UnsharedTapAgreesWithKeg
  BY DEF TapInv
<1> QED
  BY <1>1, TapInitInv, TapNextInv, PTL DEF Spec

-----------------------------------------------------------------------------
(* Totals of kegs and sessions *)

\* Two requests that change drinks have overlapped.
SharedSessions == SessionRows \cap shared # {}

\* A drink that can be there: the earlier one, or that of a pour that is over.
Poured(d) == d = Earlier \/ (d \in Requests /\ loc[d].op = "pour" /\ ~Running(d))

\* What the fields of a request hold.
Holds(p) ==
  /\ loc[p].op # "settings" => loc[p].keg \in Kegs
  /\ loc[p].drink \in Ids /\ loc[p].session \in Ids
  /\ loc[p].old \in Nat /\ loc[p].new \in Nat /\ loc[p].sum \in Nat
  /\ loc[p].op \in {"pour", "adjust"} => loc[p].new \in Volumes
  /\ loc[p].op = "pour" => loc[p].drink = p /\ loc[p].old = 0
  /\ loc[p].op = "cancel" => loc[p].new = 0
  /\ loc[p].op \in DrinkOps => SessionRows \subseteq loc[p].claims

\* The copy of a keg nobody else works on has the volume served of the row.
HoldsRow(p) ==
  loc[p].op # "settings" /\ ~Pending(p, "load_keg") =>
    /\ loc[p].copy \in KegRow
    /\ KegOf(p) \notin shared => loc[p].copy.served = kegRow[loc[p].keg].served

\* A drink to be cancelled or changed has the keg and the session it was loaded with,
\* and the volume too unless two requests work on it.
HoldsDrink(p) ==
  LET l == loc[p]
  IN  l.op \in Edits =>
        /\ Poured(l.drink)
        /\ l.drink \in DOMAIN drink =>
             drink[l.drink].keg = l.keg /\ drink[l.drink].session = l.session
        /\ KegOf(p) \notin shared \/ ~SharedSessions =>
             l.drink \in DOMAIN drink /\ drink[l.drink].volume = l.old

\* The drinks of a request's session that it leaves alone.
OtherDrinks(p) == DrinksOfSession(loc[p].session) \ {loc[p].drink}

\* What a request nobody has overlapped with has computed for its session.
HoldsSum(p) ==
  LET l == loc[p]
  IN  ~SharedSessions =>
        /\ l.op = "pour" /\ ~Pending(p, "find_session") =>
             l.sum = l.new + (IF l.session \in DOMAIN session THEN session[l.session] ELSE 0)
        /\ l.op \in Edits /\ ~Pending(p, "read_drinks") =>
             /\ l.sum = VolumeOf(drink, OtherDrinks(p)) + l.new
             /\ l.left <=> (l.op = "adjust" \/ OtherDrinks(p) # {})

HoldsAll(p) == Holds(p) /\ HoldsRow(p) /\ HoldsDrink(p) /\ HoldsSum(p)

\* Requests about the same drink have loaded the same keg and session.
EditsAgree ==
  \A p, q \in Requests :
    /\ Running(p) /\ Running(q) /\ loc[p].op \in Edits /\ loc[q].op \in Edits
    /\ loc[p].drink = loc[q].drink
    => loc[p].keg = loc[q].keg /\ loc[p].session = loc[q].session

\* UnsharedKegIsExact and UnsharedSessionsAreExact, with what makes them inductive.
TotalsInv ==
  /\ TypeOK
  /\ IsFiniteSet(DOMAIN drink) /\ \A d \in DOMAIN drink : Poured(d)
  /\ \A p \in Requests : Running(p) => HoldsAll(p)
  /\ EditsAgree
  /\ UnsharedKegIsExact /\ UnsharedSessionsAreExact

RaceInv == TapInv /\ DrinkInv /\ TotalsInv

LEMMA RowsOfDrinks ==
  ASSUME TotalsInv
  PROVE  /\ DrinkRows
         /\ \A d \in DOMAIN drink : drink[d].volume \in Nat
         /\ \A ds \in SUBSET DOMAIN drink : IsFiniteSet(ds) /\ VolumeOf(drink, ds) \in Nat
<1>1. DrinkRows
  BY DEF TotalsInv, TypeOK, DrinkRows, DrinkRow
<1>2. \A d \in DOMAIN drink : drink[d].volume \in Nat
  BY <1>1, RaceAssumption DEF DrinkRows, DrinkRow
<1>3. \A ds \in SUBSET DOMAIN drink : IsFiniteSet(ds)
  BY FS_Subset DEF TotalsInv
<1>4. \A ds \in SUBSET DOMAIN drink : VolumeOf(drink, ds) \in Nat
  BY <1>2, <1>3, VolumeIsNat
<1> QED
  BY <1>1, <1>2, <1>3, <1>4

\* The reads of sessions are run by the requests they are about.
LEMMA ReadersOfSessions ==
  ASSUME Shapes, NEW p \in Requests
  PROVE  /\ Does(p, "find_session") => loc[p].op = "pour"
         /\ Does(p, "read_drinks") => loc[p].op \in Edits
<1> SUFFICES ASSUME Running(p)
             PROVE  /\ Head(script[p]) = "find_session" => loc[p].op = "pour"
                    /\ Head(script[p]) = "read_drinks" => loc[p].op \in Edits
  BY DEF Does
<1>1. script[p] \in Seq(Statements) /\ script[p] # << >> /\ ScriptShape(p)
  BY DEF Shapes, Running
<1>2. 1 \in DOMAIN script[p] /\ script[p][1] = Head(script[p])
  BY <1>1
<1> QED
  BY <1>1, <1>2 DEF ScriptShape

LEMMA ClaimedRows ==
  ASSUME NEW req
  PROVE  /\ Claims(req) \subseteq Rows
         /\ req.op \in DrinkOps => SessionRows \subseteq Claims(req)
<1>1. SessionRows \subseteq Rows
  BY DEF Rows
<1> QED
  BY <1>1 DEF Claims

LEMMA BeginKeepsTotals ==
  ASSUME RaceInv, NEW p \in Requests, BeginAtTap(p) \/ BeginEdit(p)
  PROVE  TotalsInv'
<1>1. Shapes /\ TotalsInv /\ DrinkRows
  BY RowsOfDrinks DEF RaceInv, TapInv
<1>2. PICK req : Arrival(req) /\ Begin(p, req) /\ DrinkArrival(p, req)
  BY <1>1, Arrivals
<1>3. /\ \A q \in Requests \ {p} : loc'[q] = loc[q] /\ script'[q] = script[q]
      /\ loc'[p].op = req.op /\ loc'[p].keg = req.keg /\ loc'[p].claims = Claims(req)
      /\ loc'[p].drink = req.drink /\ loc'[p].old = req.old /\ loc'[p].new = req.new
      /\ loc'[p].session = IF req.drink \in DOMAIN drink THEN drink[req.drink].session ELSE p
      /\ loc'[p].sum = 0
      /\ script'[p] = Script(req.op)
      /\ tapKeg' = tapKeg /\ kegRow' = kegRow /\ drink' = drink /\ session' = session
      /\ owner' = owner
      /\ shared \subseteq shared'
  BY <1>1, <1>2, BeginFacts
<1>4. loc[p].op \notin Ops
  BY <1>2 DEF Begin, NotArrived, Ops
<1>5. shared' \subseteq Rows /\ (SharedSessions => SharedSessions')
  BY <1>1, <1>2, <1>3, ClaimedRows DEF Begin, TotalsInv, TypeOK, SharedSessions
<1>6. \A q \in Requests \ {p} :
        /\ Running(q)' = Running(q) /\ KegOf(q)' = KegOf(q)
        /\ OtherDrinks(q)' = OtherDrinks(q)
        /\ \A statement : Pending(q, statement)' = Pending(q, statement)
  BY <1>3 DEF Running, KegOf, Pending, OtherDrinks, DrinksOfSession
<1>7. \A d : Poured(d) => Poured(d)'
  <2> SUFFICES ASSUME NEW d, Poured(d) PROVE Poured(d)'
    OBVIOUS
  <2>1. d # p \/ d = Earlier
    BY <1>4 DEF Poured, Ops
  <2> QED
    BY <1>3, <1>6, <2>1 DEF Poured
<1>8. TypeOK'
  BY <1>1, <1>3, <1>5 DEF TotalsInv, TypeOK
<1>9. HoldsAll(p)'
  <2>1. Holds(p)'
    <3>1. loc'[p].session \in Ids
      BY <1>1, <1>3 DEF DrinkRows, DrinkRow, Ids
    <3> QED
      BY <1>2, <1>3, <3>1, ClaimedRows DEF Holds, DrinkArrival
  <2>2. HoldsRow(p)'
    BY <1>2, <1>3, ScriptFacts DEF HoldsRow, Pending, Arrival
  <2>3. HoldsDrink(p)'
    <3>1. ASSUME req.op \in Edits
          PROVE  /\ req.drink \in DOMAIN drink /\ drink[req.drink].keg = req.keg
                 /\ drink[req.drink].volume = req.old /\ Poured(req.drink)'
      BY <1>1, <1>2, <1>7, <3>1 DEF DrinkArrival, TotalsInv
    <3> QED
      BY <1>3, <3>1 DEF HoldsDrink
  <2>4. HoldsSum(p)'
    BY <1>2, <1>3, ScriptFacts DEF HoldsSum, Pending, Arrival
  <2> QED
    BY <2>1, <2>2, <2>3, <2>4 DEF HoldsAll
<1>10. ASSUME NEW q \in Requests \ {p}, Running(q)' PROVE HoldsAll(q)'
  <2>1. HoldsAll(q) /\ loc'[q] = loc[q] /\ KegOf(q)' = KegOf(q)
    BY <1>1, <1>3, <1>6, <1>10 DEF TotalsInv
  <2>2. Holds(q)' /\ HoldsRow(q)'
    BY <1>3, <1>6, <2>1 DEF HoldsAll, Holds, HoldsRow
  <2>3. HoldsDrink(q)'
    BY <1>3, <1>5, <1>7, <2>1 DEF HoldsAll, HoldsDrink
  <2>4. HoldsSum(q)'
    BY <1>3, <1>5, <1>6, <2>1 DEF HoldsAll, HoldsSum
  <2> QED
    BY <2>2, <2>3, <2>4 DEF HoldsAll
<1>11. EditsAgree'
  <2>1. ASSUME NEW q \in Requests \ {p}, Running(q)', loc'[q].op \in Edits, req.op \in Edits,
               loc'[q].drink = req.drink
        PROVE  loc'[q].keg = req.keg /\ loc'[q].session = loc'[p].session
    <3>1. HoldsDrink(q) /\ req.drink \in DOMAIN drink /\ drink[req.drink].keg = req.keg
      BY <1>1, <1>2, <1>6, <2>1 DEF TotalsInv, HoldsAll, DrinkArrival
    <3> QED
      BY <1>3, <2>1, <3>1 DEF HoldsDrink
  <2>2. ASSUME NEW q \in Requests \ {p}, NEW r \in Requests \ {p}, Running(q)', Running(r)',
               loc'[q].op \in Edits, loc'[r].op \in Edits, loc'[q].drink = loc'[r].drink
        PROVE  loc'[q].keg = loc'[r].keg /\ loc'[q].session = loc'[r].session
    BY <1>1, <1>3, <1>6, <2>2 DEF TotalsInv, EditsAgree
  <2> QED
    BY <1>3, <2>1, <2>2 DEF EditsAgree
<1>12. UnsharedKegIsExact' /\ UnsharedSessionsAreExact'
  BY <1>1, <1>3, <1>5
     DEF TotalsInv, UnsharedKegIsExact, UnsharedSessionsAreExact, SharedSessions, DrinksOfKeg,
         DrinksOfSession
<1> QED
  BY <1>1, <1>3, <1>7, <1>8, <1>9, <1>10, <1>11, <1>12 DEF TotalsInv

\* Reads compute with rows that nobody else may change, or that are shared.
LEMMA StatementKeepsTotals ==
  ASSUME RaceInv, NEW p \in Requests,
         LoadKeg(p) \/ FindSession(p) \/ ReadDrinks(p) \/ Write(p)
  PROVE  TotalsInv'
<1>1. Shapes /\ TotalsInv
  BY DEF RaceInv, TapInv
<1>2. /\ Running(p) /\ Advance(p)
      /\ \A q \in Requests \ {p} : loc'[q] = loc[q] /\ script'[q] = script[q]
      /\ loc'[p].op = loc[p].op /\ loc'[p].keg = loc[p].keg /\ loc'[p].drink = loc[p].drink
      /\ loc'[p].old = loc[p].old /\ loc'[p].new = loc[p].new
      /\ loc'[p].claims = loc[p].claims
      /\ loc'[p].left # loc[p].left => ReadDrinks(p)
      /\ loc'[p].copy # loc[p].copy => LoadKeg(p)
      /\ loc'[p].session # loc[p].session => FindSession(p)
      /\ loc'[p].sum # loc[p].sum => FindSession(p) \/ ReadDrinks(p)
      /\ tapKeg' = tapKeg /\ kegRow' = kegRow /\ drink' = drink /\ session' = session
      /\ shared' = shared
  BY <1>1, StatementFacts DEF Told
<1>3. HoldsAll(p) /\ DOMAIN loc = Requests /\ DOMAIN loc[p] = LocFields
  BY <1>1, <1>2 DEF TotalsInv, Shapes, RequestShape
<1>4. /\ \A q \in Requests : Running(q)' => Running(q)
      /\ \A q \in Requests : KegOf(q)' = KegOf(q) /\ loc'[q].op = loc[q].op
                             /\ loc'[q].drink = loc[q].drink
      /\ \A q \in Requests \ {p} : OtherDrinks(q)' = OtherDrinks(q)
      /\ SharedSessions' = SharedSessions
  BY <1>2 DEF Running, KegOf, OtherDrinks, DrinksOfSession, SharedSessions
<1>5. \A statement : \A q \in Requests \ {p} : Pending(q, statement)' = Pending(q, statement)
  BY <1>2 DEF Pending
<1>6. \A statement : Pending(p, statement) =>
        Head(script[p]) = statement \/ Pending(p, statement)'
  BY <1>1, <1>2, AdvanceFacts DEF Pending
<1>7. /\ FindSession(p) => loc[p].op = "pour"
      /\ ReadDrinks(p) => loc[p].op \in Edits
  BY <1>1, ReadersOfSessions DEF FindSession, ReadDrinks
<1>8. \A d : Poured(d) => Poured(d)'
  BY <1>4 DEF Poured
<1>9. TypeOK'
  <2>1. owner' \in [Rows -> Requests \cup {Nobody}]
    <3>1. owner \in [Rows -> Requests \cup {Nobody}]
      BY <1>1 DEF TotalsInv, TypeOK
    <3>2. owner' = owner \/ \E r : owner' = [owner EXCEPT ![r] = p]
      BY DEF LoadKeg, FindSession, ReadDrinks, Write
    <3> QED
      BY <3>1, <3>2
  <2> QED
    BY <1>1, <1>2, <2>1 DEF TotalsInv, TypeOK
\* What a pour finds of its session.
<1>10. ASSUME FindSession(p)
       PROVE  /\ loc'[p].session \in Ids
              /\ loc'[p].sum = loc[p].new + (IF loc'[p].session \in DOMAIN session
                                             THEN session[loc'[p].session] ELSE 0)
  <2>1. PICK s \in (IF DOMAIN session = {} THEN {p} ELSE DOMAIN session) :
          loc' = [loc EXCEPT
                    ![p].session = s,
                    ![p].sum = loc[p].new + (IF s \in DOMAIN session THEN session[s] ELSE 0)]
    BY <1>10 DEF FindSession
  <2>2. s \in Ids
    BY <1>1, <2>1 DEF TotalsInv, TypeOK, Ids
  <2>3. loc'[p].session = s
        /\ loc'[p].sum = loc[p].new + (IF s \in DOMAIN session THEN session[s] ELSE 0)
    BY <1>3, <2>1 DEF LocFields
  <2> QED
    BY <2>2, <2>3
\* What an edit reads of its session.
<1>11. ASSUME ReadDrinks(p)
       PROVE  /\ loc'[p].sum = VolumeOf(drink, OtherDrinks(p)) + loc[p].new
              /\ loc'[p].left = (loc[p].op = "adjust" \/ OtherDrinks(p) # {})
  <2>1. loc' = [loc EXCEPT ![p].sum = VolumeOf(drink, OtherDrinks(p)) + loc[p].new,
                           ![p].left = loc[p].op = "adjust" \/ OtherDrinks(p) # {}]
    BY <1>11 DEF ReadDrinks, OtherDrinks
  <2> QED
    BY <1>3, <2>1 DEF LocFields
<1>12. HoldsAll(p)'
  <2>1. Holds(p)'
    <3>1. loc'[p].session \in Ids
      BY <1>2, <1>3, <1>10 DEF HoldsAll, Holds
    <3>2. loc'[p].sum \in Nat
      <4>1. loc[p].sum \in Nat /\ loc[p].new \in Nat
        BY <1>3 DEF HoldsAll, Holds
      <4>2. VolumeOf(drink, OtherDrinks(p)) \in Nat
        BY <1>1, RowsOfDrinks DEF OtherDrinks, DrinksOfSession
      <4>3. \A s \in DOMAIN session : session[s] \in Nat
        BY <1>1 DEF TotalsInv, TypeOK
      <4> QED
        BY <1>2, <1>10, <1>11, <4>1, <4>2, <4>3
    <3> QED
      BY <1>2, <1>3, <3>1, <3>2 DEF HoldsAll, Holds
  <2>2. HoldsRow(p)'
    <3> SUFFICES ASSUME loc[p].op # "settings", ~Pending(p, "load_keg")'
                 PROVE  /\ loc'[p].copy \in KegRow
                        /\ KegOf(p) \notin shared =>
                             loc'[p].copy.served = kegRow[loc[p].keg].served
      BY <1>2, <1>4 DEF HoldsRow
    <3>1. CASE LoadKeg(p)
      <4>1. loc'[p].copy = kegRow[loc[p].keg]
        BY <1>3, <3>1 DEF LoadKeg, LocFields
      <4>2. loc[p].keg \in Kegs
        BY <1>3 DEF HoldsAll, Holds
      <4> QED
        BY <1>1, <4>1, <4>2 DEF TotalsInv, TypeOK
    <3>2. CASE ~LoadKeg(p)
      <4>1. Head(script[p]) # "load_keg"
        BY <3>2 DEF FindSession, ReadDrinks, Write, Writes, Does
      <4> QED
        BY <1>2, <1>3, <1>6, <3>2, <4>1 DEF HoldsAll, HoldsRow
    <3> QED
      BY <3>1, <3>2
  <2>3. HoldsDrink(p)'
    <3>1. loc[p].op \in Edits => loc'[p].session = loc[p].session
      BY <1>2, <1>7 DEF Edits
    <3> QED
      BY <1>2, <1>3, <1>4, <1>8, <3>1 DEF HoldsAll, HoldsDrink
  <2>4. HoldsSum(p)'
    <3>1. ASSUME ~SharedSessions, loc[p].op = "pour", ~Pending(p, "find_session")'
          PROVE  loc'[p].sum = loc[p].new + (IF loc'[p].session \in DOMAIN session
                                             THEN session[loc'[p].session] ELSE 0)
      <4>1. CASE FindSession(p)
        BY <1>10, <4>1
      <4>2. CASE ~FindSession(p)
        <5>1. Head(script[p]) # "find_session"
          BY <4>2 DEF LoadKeg, ReadDrinks, Write, Writes, Does
        <5>2. ~Pending(p, "find_session")
          BY <1>6, <3>1, <5>1
        <5>3. loc'[p].sum = loc[p].sum /\ loc'[p].session = loc[p].session
          BY <1>2, <1>7, <3>1, <4>2 DEF Edits
        <5> QED
          BY <1>3, <3>1, <5>2, <5>3 DEF HoldsAll, HoldsSum
      <4> QED
        BY <4>1, <4>2
    <3>2. ASSUME ~SharedSessions, loc[p].op \in Edits, ~Pending(p, "read_drinks")'
          PROVE  /\ loc'[p].sum = VolumeOf(drink, OtherDrinks(p)) + loc[p].new
                 /\ loc'[p].left <=> (loc[p].op = "adjust" \/ OtherDrinks(p) # {})
      <4>1. CASE ReadDrinks(p)
        BY <1>11, <4>1
      <4>2. CASE ~ReadDrinks(p)
        <5>1. Head(script[p]) # "read_drinks"
          BY <4>2 DEF LoadKeg, FindSession, Write, Writes, Does
        <5>2. ~Pending(p, "read_drinks")
          BY <1>6, <3>2, <5>1
        <5>3. loc'[p].sum = loc[p].sum /\ loc'[p].left = loc[p].left
          BY <1>2, <1>7, <3>2, <4>2 DEF Edits
        <5> QED
          BY <1>3, <3>2, <5>2, <5>3 DEF HoldsAll, HoldsSum
      <4> QED
        BY <4>1, <4>2
    <3>3. loc[p].op \in Edits => OtherDrinks(p)' = OtherDrinks(p)
      BY <1>2, <1>7 DEF OtherDrinks, DrinksOfSession, Edits
    <3> QED
      BY <1>2, <1>4, <3>1, <3>2, <3>3 DEF HoldsSum
  <2> QED
    BY <2>1, <2>2, <2>3, <2>4 DEF HoldsAll
<1>13. ASSUME NEW q \in Requests \ {p}, Running(q)' PROVE HoldsAll(q)'
  <2>1. HoldsAll(q) /\ loc'[q] = loc[q] /\ KegOf(q)' = KegOf(q)
        /\ OtherDrinks(q)' = OtherDrinks(q)
    BY <1>1, <1>2, <1>4, <1>13 DEF TotalsInv
  <2>2. Holds(q)' /\ HoldsRow(q)'
    BY <1>2, <1>5, <2>1 DEF HoldsAll, Holds, HoldsRow
  <2>3. HoldsDrink(q)'
    BY <1>2, <1>4, <1>8, <2>1 DEF HoldsAll, HoldsDrink
  <2>4. HoldsSum(q)'
    BY <1>2, <1>4, <1>5, <2>1 DEF HoldsAll, HoldsSum
  <2> QED
    BY <2>2, <2>3, <2>4 DEF HoldsAll
<1>14. EditsAgree'
  <2>1. \A q \in Requests : loc[q].op \in Edits =>
          loc'[q].session = loc[q].session /\ loc'[q].keg = loc[q].keg
    BY <1>2, <1>7 DEF Edits
  <2> QED
    BY <1>1, <1>4, <2>1 DEF TotalsInv, EditsAgree
<1>15. UnsharedKegIsExact' /\ UnsharedSessionsAreExact'
  BY <1>1, <1>2
     DEF TotalsInv, UnsharedKegIsExact, UnsharedSessionsAreExact, DrinksOfKeg, DrinksOfSession
<1> QED
  BY <1>1, <1>2, <1>8, <1>9, <1>12, <1>13, <1>14, <1>15 DEF TotalsInv

\* A request rolled back is forgotten.
LEMMA RollBackKeepsTotals ==
  ASSUME RaceInv, NEW p \in Requests, RollBack(p)
  PROVE  TotalsInv'
<1>1. Shapes /\ TotalsInv
  BY DEF RaceInv, TapInv
<1>2. /\ \A q \in Requests \ {p} : script'[q] = script[q]
      /\ ~Running(p)' /\ loc' = loc /\ shared' = shared
      /\ tapKeg' = tapKeg /\ kegRow' = kegRow /\ drink' = drink /\ session' = session
  BY <1>1, FinishFacts DEF RollBack
<1>3. /\ \A q \in Requests : Running(q)' => q # p /\ Running(q)
      /\ \A q \in Requests : KegOf(q)' = KegOf(q) /\ OtherDrinks(q)' = OtherDrinks(q)
      /\ \A statement : \A q \in Requests \ {p} :
           Pending(q, statement)' = Pending(q, statement)
  BY <1>2 DEF Running, KegOf, OtherDrinks, DrinksOfSession, Pending
<1>4. \A d : Poured(d) => Poured(d)'
  BY <1>2, <1>3 DEF Poured
<1>5. TypeOK'
  <2>1. owner' \in [Rows -> Requests \cup {Nobody}]
    <3>1. owner' = [r \in Rows |-> IF owner[r] = p THEN Nobody ELSE owner[r]]
      BY DEF RollBack, Finish
    <3> QED
      BY <1>1, <3>1 DEF TotalsInv, TypeOK
  <2> QED
    BY <1>1, <1>2, <2>1 DEF TotalsInv, TypeOK
<1>6. ASSUME NEW q \in Requests, Running(q)' PROVE HoldsAll(q)'
  <2>1. HoldsAll(q)
    BY <1>1, <1>3, <1>6 DEF TotalsInv
  <2>2. Holds(q)' /\ HoldsRow(q)'
    BY <1>2, <1>3, <1>6, <2>1 DEF HoldsAll, Holds, HoldsRow
  <2>3. HoldsDrink(q)'
    BY <1>2, <1>3, <1>4, <2>1 DEF HoldsAll, HoldsDrink, SharedSessions
  <2>4. HoldsSum(q)'
    BY <1>2, <1>3, <1>6, <2>1 DEF HoldsAll, HoldsSum, SharedSessions
  <2> QED
    BY <2>2, <2>3, <2>4 DEF HoldsAll
<1>7. EditsAgree' /\ UnsharedKegIsExact' /\ UnsharedSessionsAreExact'
  BY <1>1, <1>2, <1>3
     DEF TotalsInv, EditsAgree, UnsharedKegIsExact, UnsharedSessionsAreExact, DrinksOfKeg,
         DrinksOfSession
<1> QED
  BY <1>1, <1>2, <1>4, <1>5, <1>6, <1>7 DEF TotalsInv

-----------------------------------------------------------------------------
(* Commits *)

\* What the request that commits knows, and what it writes to the drinks.
LEMMA CommitDrinks ==
  ASSUME RaceInv, NEW p \in Requests, Commit(p)
  PROVE  /\ HoldsAll(p) /\ RequestShape(p) /\ Running(p)
         /\ \A statement : statement # "commit" => ~Pending(p, statement)
         /\ loc[p].op \notin DrinkOps => drink' = drink /\ session' = session
         /\ \A d \in DOMAIN drink \ {loc[p].drink} : d \in DOMAIN drink' /\ drink'[d] = drink[d]
         /\ \A d \in DOMAIN drink' \ {loc[p].drink} : d \in DOMAIN drink
         /\ loc[p].op \in {"pour", "adjust"} =>
              /\ DOMAIN drink' = DOMAIN drink \cup {loc[p].drink}
              /\ drink'[loc[p].drink] =
                   [keg |-> loc[p].keg, volume |-> loc[p].new, session |-> loc[p].session]
         /\ loc[p].op = "cancel" => DOMAIN drink' = DOMAIN drink \ {loc[p].drink}
         /\ loc[p].op = "pour" => loc[p].drink = p /\ p \notin DOMAIN drink /\ loc[p].left
         /\ loc[p].op = "adjust" => loc[p].left
<1> DEFINE l == loc[p]
<1>1. /\ Running(p) /\ Shapes /\ RequestShape(p) /\ HoldsAll(p)
      /\ drink' = DrinksWritten(p) /\ session' = SessionsWritten(p)
  BY DEF Commit, Does, RaceInv, TapInv, TotalsInv, Shapes
<1>2. \A statement : statement # "commit" => ~Pending(p, statement)
  BY <1>1, CommitIsLast DEF Commit
<1>3. l.op \in {"pour", "adjust"} => l.left
  BY <1>1 DEF RaceInv, DrinkInv, LeavesADrink
<1>4. l.op = "pour" => l.drink = p /\ p \notin DOMAIN drink
  <2>1. ~Poured(p)
    BY <1>1, RaceAssumption DEF Poured
  <2> QED
    BY <1>1, <2>1 DEF HoldsAll, Holds, RaceInv, TotalsInv
<1>5. CASE l.op \in {"pour", "adjust"}
  <2>1. drink' = [d \in DOMAIN drink \cup {l.drink} |->
                    IF d = l.drink THEN [keg |-> l.keg, volume |-> l.new, session |-> l.session]
                    ELSE drink[d]]
    BY <1>1, <1>5 DEF DrinksWritten
  <2> QED
    BY <1>1, <1>2, <1>3, <1>4, <1>5, <2>1 DEF DrinkOps
<1>6. CASE l.op = "cancel"
  <2>1. drink' = [d \in DOMAIN drink \ {l.drink} |-> drink[d]]
    BY <1>1, <1>6 DEF DrinksWritten
  <2> QED
    BY <1>1, <1>2, <1>6, <2>1 DEF DrinkOps
<1>7. CASE l.op \notin DrinkOps
  <2>1. drink' = drink /\ session' = session
    BY <1>1, <1>7 DEF DrinksWritten, SessionsWritten, DrinkOps
  <2> QED
    BY <1>1, <1>2, <1>7, <2>1 DEF DrinkOps
<1> QED
  BY <1>5, <1>6, <1>7 DEF DrinkOps

\* What a request that commits is like ...
LEMMA CommitShape ==
  ASSUME RaceInv, NEW p \in Requests, Commit(p)
  PROVE  /\ HoldsAll(p) /\ RequestShape(p) /\ Running(p)
         /\ loc[p].op = "pour" => loc[p].drink \notin DOMAIN drink
<1>1. HoldsAll(p) /\ RequestShape(p) /\ Running(p)
  BY CommitDrinks
<1>2. loc[p].op = "pour" => loc[p].drink = p /\ p \notin DOMAIN drink
  BY CommitDrinks
<1> QED
  BY <1>1, <1>2

\* ... and that it leaves other drinks alone.
LEMMA CommitSpares ==
  ASSUME RaceInv, NEW p \in Requests, Commit(p), NEW d, d # loc[p].drink
  PROVE  /\ d \in DOMAIN drink => d \in DOMAIN drink' /\ drink'[d] = drink[d]
         /\ d \in DOMAIN drink' => d \in DOMAIN drink
BY CommitDrinks

\* A commit writes one keg; the volume served changes by the drink's difference, unless
\* another request has worked on the keg.
LEMMA CommitKegs ==
  ASSUME RaceInv, NEW p \in Requests, Commit(p)
  PROVE  /\ kegRow' \in [Kegs -> KegRow]
         /\ \A k \in Kegs \ {loc[p].keg} : kegRow'[k] = kegRow[k]
         /\ loc[p].keg \in Kegs /\ KegOf(p) \notin shared =>
              kegRow'[loc[p].keg].served =
                kegRow[loc[p].keg].served
                  + (IF loc[p].op \in DrinkOps THEN loc[p].new - loc[p].old ELSE 0)
<1> DEFINE l == loc[p]
           k0 == l.keg
<1>1. /\ kegRow \in [Kegs -> KegRow] /\ kegRow' = KegsWritten(p) /\ l.op \in Ops
      /\ Holds(p) /\ HoldsRow(p)
      /\ ~Pending(p, "load_keg")
  BY CommitDrinks DEF Commit, RaceInv, TotalsInv, TypeOK, HoldsAll, RequestShape
<1>2. /\ l.op # "settings" => k0 \in Kegs /\ l.copy \in KegRow
      /\ l.op # "settings" /\ KegOf(p) \notin shared => l.copy.served = kegRow[k0].served
      /\ l.new \in Nat /\ l.old \in Nat
  BY <1>1 DEF Holds, HoldsRow
<1>3. ASSUME NEW row \in KegRow, l.op # "settings", kegRow' = [kegRow EXCEPT ![k0] = row],
             KegOf(p) \notin shared => row.served = kegRow[k0].served
                                       + (IF l.op \in DrinkOps THEN l.new - l.old ELSE 0)
      PROVE  /\ kegRow' \in [Kegs -> KegRow]
             /\ \A k \in Kegs \ {k0} : kegRow'[k] = kegRow[k]
             /\ KegOf(p) \notin shared =>
                  kegRow'[k0].served = kegRow[k0].served
                    + (IF l.op \in DrinkOps THEN l.new - l.old ELSE 0)
  <2>1. kegRow \in [Kegs -> KegRow] /\ k0 \in Kegs
    BY <1>1, <1>2, <1>3
  <2>2. kegRow' \in [Kegs -> KegRow] /\ kegRow'[k0] = row
        /\ \A k \in Kegs \ {k0} : kegRow'[k] = kegRow[k]
    BY <1>3, <2>1
  <2> QED
    BY <1>3, <2>2
<1>4. CASE l.op \in DrinkOps
  <2> DEFINE row == [kegRow[k0] EXCEPT !.served = l.copy.served + l.new - l.old]
  <2>1. kegRow' = [kegRow EXCEPT ![k0] = row]
    BY <1>1, <1>4 DEF KegsWritten, DrinkOps
  <2>2. l.op # "settings"
    BY <1>4 DEF DrinkOps
  <2>3. row \in KegRow /\ row.served = l.copy.served + l.new - l.old
    BY <1>1, <1>2, <2>2 DEF KegRow
  <2>4. kegRow[k0].served \in Int
    BY <1>1, <1>2, <2>2 DEF KegRow
  <2> HIDE DEF row
  <2>5. KegOf(p) \notin shared =>
          row.served = kegRow[k0].served + (IF l.op \in DrinkOps THEN l.new - l.old ELSE 0)
    BY <1>2, <1>4, <2>2, <2>3, <2>4
  <2> QED
    BY <1>3, <2>1, <2>2, <2>3, <2>5
<1>5. CASE l.op = "spill"
  <2> DEFINE row == [kegRow[k0] EXCEPT !.spilled = l.copy.spilled + l.new]
  <2>1. kegRow' = [kegRow EXCEPT ![k0] = row]
    BY <1>1, <1>5 DEF KegsWritten, DrinkOps
  <2>2. row \in KegRow /\ row.served = kegRow[k0].served /\ kegRow[k0].served \in Int
    BY <1>1, <1>2, <1>5 DEF KegRow
  <2> HIDE DEF row
  <2>3. l.op # "settings" /\ l.op \notin DrinkOps
    BY <1>5 DEF DrinkOps
  <2>4. KegOf(p) \notin shared =>
          row.served = kegRow[k0].served + (IF l.op \in DrinkOps THEN l.new - l.old ELSE 0)
    BY <1>2, <2>2, <2>3
  <2> QED
    BY <1>3, <2>1, <2>2, <2>3, <2>4
<1>6. CASE l.op = "spill_api"
  <2> DEFINE row == [l.copy EXCEPT !.spilled = @ + l.new]
  <2>1. kegRow' = [kegRow EXCEPT ![k0] = row]
    BY <1>1, <1>6 DEF KegsWritten, DrinkOps
  <2>2. row \in KegRow /\ row.served = l.copy.served /\ kegRow[k0].served \in Int
    BY <1>1, <1>2, <1>6 DEF KegRow
  <2> HIDE DEF row
  <2>3. l.op # "settings" /\ l.op \notin DrinkOps
    BY <1>6 DEF DrinkOps
  <2>4. KegOf(p) \notin shared =>
          row.served = kegRow[k0].served + (IF l.op \in DrinkOps THEN l.new - l.old ELSE 0)
    BY <1>2, <2>2, <2>3
  <2> QED
    BY <1>3, <2>1, <2>2, <2>3, <2>4
<1>7. CASE l.op \in {"end", "attach"}
  <2> DEFINE row == [l.copy EXCEPT !.status = IF l.op = "end" THEN "finished" ELSE "on_tap"]
  <2>1. kegRow' = [kegRow EXCEPT ![k0] = row]
    BY <1>1, <1>7 DEF KegsWritten, DrinkOps
  <2>2. row \in KegRow /\ row.served = l.copy.served /\ kegRow[k0].served \in Int
    BY <1>1, <1>2, <1>7 DEF KegRow
  <2> HIDE DEF row
  <2>3. l.op # "settings" /\ l.op \notin DrinkOps
    BY <1>7 DEF DrinkOps
  <2>4. KegOf(p) \notin shared =>
          row.served = kegRow[k0].served + (IF l.op \in DrinkOps THEN l.new - l.old ELSE 0)
    BY <1>2, <2>2, <2>3
  <2> QED
    BY <1>3, <2>1, <2>2, <2>3, <2>4
<1>8. CASE l.op = "settings"
  <2>1. kegRow' = kegRow
    BY <1>1, <1>8 DEF KegsWritten, DrinkOps
  <2>2. \A k \in Kegs : kegRow[k].served \in Int
    BY <1>1 DEF KegRow
  <2> QED
    BY <1>1, <1>8, <2>1, <2>2 DEF DrinkOps
<1> QED
  BY <1>1, <1>4, <1>5, <1>6, <1>7, <1>8 DEF Ops, DrinkOps

LEMMA CommitKeepsKegsExact ==
  ASSUME RaceInv, NEW p \in Requests, Commit(p)
  PROVE  UnsharedKegIsExact'
<1> DEFINE l == loc[p]
           x == l.drink
<1>1. shared' = shared
  BY DEF Commit
<1> SUFFICES ASSUME NEW k \in Kegs, <<"keg", k>> \notin shared
             PROVE  kegRow'[k].served = VolumeOf(drink', DrinksOfKeg(k)')
  BY <1>1 DEF UnsharedKegIsExact
<1> DEFINE S == DrinksOfKeg(k)
<1>2. kegRow[k].served = VolumeOf(drink, S)
  BY DEF RaceInv, TotalsInv, UnsharedKegIsExact
<1>3. /\ IsFiniteSet(S) /\ S \subseteq DOMAIN drink /\ VolumeOf(drink, S) \in Nat
      /\ \A d \in S : drink[d].volume \in Nat
  BY RowsOfDrinks DEF RaceInv, DrinksOfKeg
<1>4. /\ HoldsAll(p)
      /\ l.op \notin DrinkOps => drink' = drink
      /\ \A d \in DOMAIN drink \ {x} : d \in DOMAIN drink' /\ drink'[d] = drink[d]
      /\ \A d \in DOMAIN drink' \ {x} : d \in DOMAIN drink
      /\ l.op \in {"pour", "adjust"} =>
           /\ x \in DOMAIN drink'
           /\ drink'[x].keg = l.keg /\ drink'[x].volume = l.new
      /\ l.op = "cancel" => x \notin DOMAIN drink'
      /\ l.op = "pour" => x \notin DOMAIN drink
  <2>1. l.op \in {"pour", "adjust"} =>
          /\ DOMAIN drink' = DOMAIN drink \cup {x}
          /\ drink'[x] = [keg |-> l.keg, volume |-> l.new, session |-> l.session]
    BY CommitDrinks
  <2>2. l.op = "cancel" => DOMAIN drink' = DOMAIN drink \ {x}
    BY CommitDrinks
  <2>3. l.op = "pour" => x \notin DOMAIN drink
    BY CommitShape
  <2>4. /\ HoldsAll(p)
        /\ l.op \notin DrinkOps => drink' = drink
        /\ \A d \in DOMAIN drink \ {x} : d \in DOMAIN drink' /\ drink'[d] = drink[d]
        /\ \A d \in DOMAIN drink' \ {x} : d \in DOMAIN drink
    BY CommitDrinks
  <2> QED
    BY <2>1, <2>2, <2>3, <2>4
<1>5. l.new \in Nat /\ l.old \in Nat
  BY <1>4 DEF HoldsAll, Holds
<1>6. CASE l.op \notin DrinkOps
  <2>1. drink' = drink /\ DrinksOfKeg(k)' = S
    BY <1>4, <1>6 DEF DrinksOfKeg
  <2>2. kegRow'[k].served = kegRow[k].served
    <3>1. k # l.keg => kegRow'[k] = kegRow[k]
      BY CommitKegs
    <3>2. k = l.keg => kegRow'[k].served = kegRow[k].served + 0
      BY <1>6, CommitKegs DEF KegOf
    <3> QED
      BY <1>2, <1>3, <3>1, <3>2
  <2> QED
    BY <1>2, <2>1, <2>2
<1>7. CASE l.op \in DrinkOps /\ k # l.keg
  <2>1. x \notin S
    <3>1. CASE l.op = "pour"
      BY <1>4, <3>1 DEF DrinksOfKeg
    <3>2. CASE l.op \in Edits
      BY <1>4, <1>7, <3>2 DEF HoldsAll, HoldsDrink, DrinksOfKeg
    <3> QED
      BY <1>7, <3>1, <3>2 DEF DrinkOps, Edits
  <2>2. DrinksOfKeg(k)' = S /\ \A d \in S : drink'[d].volume = drink[d].volume
    <3>1. x \in DOMAIN drink' => drink'[x].keg = l.keg
      BY <1>4, <1>7 DEF DrinkOps
    <3>2. \A d : d \in S <=> d \in DOMAIN drink' /\ drink'[d].keg = k
      <4>1. x \in DOMAIN drink' => drink'[x].keg # k
        BY <1>7, <3>1
      <4> QED
        BY <1>4, <2>1, <4>1 DEF DrinksOfKeg
    <3>3. DrinksOfKeg(k)' = S
      BY <3>2 DEF DrinksOfKeg
    <3> QED
      BY <1>3, <1>4, <2>1, <3>3
  <2>3. kegRow'[k] = kegRow[k]
    BY <1>7, CommitKegs
  <2> HIDE DEF S
  <2> QED
    BY <1>2, <1>3, <2>2, <2>3, SameVolume
<1>8. CASE l.op \in DrinkOps /\ k = l.keg
  <2>1. kegRow'[k].served = VolumeOf(drink, S) + l.new - l.old
    BY <1>2, <1>3, <1>5, <1>8, CommitKegs DEF KegOf
  <2>2. CASE l.op = "pour"
    <3>1. /\ l.old = 0 /\ x \notin S /\ drink'[x].volume = l.new
          /\ DrinksOfKeg(k)' = S \cup {x}
          /\ \A d \in S : drink'[d].volume = drink[d].volume
      BY <1>4, <1>8, <2>2 DEF HoldsAll, Holds, DrinksOfKeg
    <3> HIDE DEF S
    <3>2. VolumeOf(drink', S \cup {x}) = VolumeOf(drink, S) + l.new
      BY <1>3, <1>5, <3>1, VolumeWith
    <3> QED
      BY <1>3, <1>5, <2>1, <3>1, <3>2
  <2>3. ASSUME l.op \in Edits PROVE x \in S /\ drink[x].volume = l.old
    BY <1>4, <1>8, <2>3 DEF HoldsAll, HoldsDrink, DrinksOfKeg, KegOf
  <2>4. CASE l.op = "adjust"
    <3>1. /\ x \in S /\ drink[x].volume = l.old /\ drink'[x].volume = l.new
          /\ DrinksOfKeg(k)' = S
          /\ \A d \in S \ {x} : drink'[d].volume = drink[d].volume
      BY <1>4, <1>8, <2>3, <2>4 DEF DrinksOfKeg, Edits
    <3> HIDE DEF S
    <3>2. VolumeOf(drink', S) = VolumeOf(drink, S) + l.new - l.old
      BY <1>3, <1>5, <3>1, VolumeChanged
    <3> QED
      BY <1>3, <1>5, <2>1, <3>1, <3>2
  <2>5. CASE l.op = "cancel"
    <3>1. /\ x \in S /\ drink[x].volume = l.old /\ l.new = 0
          /\ DrinksOfKeg(k)' = S \ {x}
          /\ \A d \in S \ {x} : drink'[d].volume = drink[d].volume
      BY <1>4, <1>8, <2>3, <2>5 DEF HoldsAll, Holds, DrinksOfKeg, Edits
    <3> HIDE DEF S
    <3>2. VolumeOf(drink', S \ {x}) = VolumeOf(drink, S) - l.old
      BY <1>3, <3>1, VolumeWithout
    <3> QED
      BY <1>3, <1>5, <2>1, <3>1, <3>2
  <2> QED
    BY <1>8, <2>2, <2>4, <2>5 DEF DrinkOps
<1> QED
  BY <1>6, <1>7, <1>8

\* A commit rewrites the session of its request; the drinks of the others stay.
LEMMA CommitKeepsSessionsExact ==
  ASSUME RaceInv, NEW p \in Requests, Commit(p)
  PROVE  UnsharedSessionsAreExact'
<1> DEFINE l == loc[p]
           x == l.drink
           s0 == l.session
           S(s) == DrinksOfSession(s)
           New(s) == {d \in DOMAIN drink' : drink'[d].session = s}
<1>1. shared' = shared /\ session' = SessionsWritten(p)
  BY DEF Commit
<1>2. SUFFICES ASSUME ~SharedSessions
               PROVE  /\ \A s \in DOMAIN session' :
                           session'[s] = VolumeOf(drink', New(s))
                      /\ \A d \in DOMAIN drink' : drink'[d].session \in DOMAIN session'
                      /\ \A s \in DOMAIN session' :
                           \E d \in DOMAIN drink' : drink'[d].session = s
  BY <1>1 DEF UnsharedSessionsAreExact, SharedSessions, DrinksOfSession
<1>3. /\ \A d \in DOMAIN drink : drink[d].session \in DOMAIN session
      /\ \A s \in DOMAIN session : \E d \in DOMAIN drink : drink[d].session = s
      /\ \A s \in DOMAIN session : session[s] = VolumeOf(drink, S(s))
  <2>1. {drink[d].session : d \in DOMAIN drink} = DOMAIN session
    BY <1>2 DEF RaceInv, TotalsInv, UnsharedSessionsAreExact, SharedSessions
  <2>2. \A s \in DOMAIN session : session[s] = VolumeOf(drink, S(s))
    BY <1>2 DEF RaceInv, TotalsInv, UnsharedSessionsAreExact, SharedSessions
  <2> QED
    BY <2>1, <2>2
<1>4. \A ds \in SUBSET DOMAIN drink :
        /\ IsFiniteSet(ds) /\ VolumeOf(drink, ds) \in Nat
        /\ \A d \in ds : drink[d].volume \in Nat
  BY RowsOfDrinks DEF RaceInv
<1>5. \A s : S(s) \in SUBSET DOMAIN drink
  BY DEF DrinksOfSession
<1>6. /\ \A d \in DOMAIN drink \ {x} : d \in DOMAIN drink' /\ drink'[d] = drink[d]
      /\ \A d \in DOMAIN drink' \ {x} : d \in DOMAIN drink
  BY CommitDrinks
<1>7. HoldsAll(p) /\ l.new \in Nat /\ l.sum \in Nat
  BY CommitDrinks DEF HoldsAll, Holds
\* A session that is not the request's has the drinks it had.
<1>8. ASSUME x \in DOMAIN drink => drink[x].session = s0,
             x \in DOMAIN drink' => drink'[x].session = s0, NEW s, s # s0
      PROVE  New(s) = S(s) /\ VolumeOf(drink', S(s)) = VolumeOf(drink, S(s))
  <2>1. \A d : d \in S(s) <=> d \in DOMAIN drink' /\ drink'[d].session = s
    BY <1>6, <1>8 DEF DrinksOfSession
  <2>2. New(s) = S(s)
    BY <2>1
  <2>3. \A d \in S(s) : drink'[d].volume = drink[d].volume
    BY <1>6, <1>8 DEF DrinksOfSession
  <2> HIDE DEF S
  <2> QED
    BY <1>4, <1>5, <2>2, <2>3, SameVolume
<1>9. CASE l.op \notin DrinkOps
  <2>1. drink' = drink /\ session' = session
    BY <1>9, CommitDrinks
  <2> QED
    BY <1>3, <2>1 DEF DrinksOfSession
<1>10. CASE l.op = "pour"
  <2>1. x \notin DOMAIN drink /\ l.left
    BY <1>10, CommitDrinks
  <2>2. DOMAIN drink' = DOMAIN drink \cup {x}
        /\ drink'[x] = [keg |-> l.keg, volume |-> l.new, session |-> s0]
    BY <1>10, CommitDrinks
  <2>3. l.sum = l.new + (IF s0 \in DOMAIN session THEN session[s0] ELSE 0)
    <3>1. ~Pending(p, "find_session")
      BY CommitDrinks
    <3> QED
      BY <1>2, <1>7, <1>10, <3>1 DEF HoldsAll, HoldsSum
  <2>4. session' = [s \in DOMAIN session \cup {s0} |-> IF s = s0 THEN l.sum ELSE session[s]]
    BY <1>1, <1>10, <2>1 DEF SessionsWritten, DrinkOps
  <2>5. /\ \A d \in DOMAIN drink' : drink'[d].session \in DOMAIN session'
        /\ \A s \in DOMAIN session' : \E d \in DOMAIN drink' : drink'[d].session = s
    <3>1. x \in DOMAIN drink' /\ drink'[x].session = s0
      BY <2>2
    <3>2. DOMAIN session' = DOMAIN session \cup {s0}
      BY <2>4
    <3>3. ASSUME NEW s \in DOMAIN session' PROVE \E d \in DOMAIN drink' : drink'[d].session = s
      <4>1. CASE s = s0
        BY <3>1, <4>1
      <4>2. CASE s # s0
        <5>1. PICK d \in DOMAIN drink : drink[d].session = s
          BY <1>3, <3>2, <4>2
        <5>2. d # x
          BY <2>1
        <5> QED
          BY <1>6, <5>1, <5>2
      <4> QED
        BY <4>1, <4>2
    <3>4. \A d \in DOMAIN drink' : drink'[d].session \in DOMAIN session'
      BY <1>3, <1>6, <3>1, <3>2
    <3> QED
      BY <3>3, <3>4
  <2>6. VolumeOf(drink', New(s0)) = l.sum
    <3>1. New(s0) = S(s0) \cup {x} /\ x \notin S(s0) /\ drink'[x].volume = l.new
          /\ \A d \in S(s0) : drink'[d].volume = drink[d].volume
      <4>1. x \in DOMAIN drink' /\ drink'[x].session = s0 /\ drink'[x].volume = l.new
        BY <2>2
      <4>2. \A d : d \in S(s0) \cup {x} <=> d \in DOMAIN drink' /\ drink'[d].session = s0
        BY <1>6, <2>1, <4>1 DEF DrinksOfSession
      <4>3. New(s0) = S(s0) \cup {x}
        BY <4>2
      <4> QED
        BY <1>5, <1>6, <2>1, <4>1, <4>3
    <3>2. s0 \notin DOMAIN session => S(s0) = {}
      BY <1>3 DEF DrinksOfSession
    <3> HIDE DEF S, New
    <3>3. VolumeOf(drink', S(s0) \cup {x}) = VolumeOf(drink, S(s0)) + l.new
      BY <1>4, <1>5, <1>7, <3>1, VolumeWith
    <3>4. VolumeOf(drink, S(s0)) = IF s0 \in DOMAIN session THEN session[s0] ELSE 0
      BY <1>3, <3>2, NoVolume
    <3>5. VolumeOf(drink, S(s0)) \in Nat
      BY <1>4, <1>5
    <3> QED
      BY <1>7, <2>3, <3>1, <3>3, <3>4, <3>5
  <2>7. \A s \in DOMAIN session : s # s0 =>
          session'[s] = VolumeOf(drink', New(s))
    <3>1. drink'[x].session = s0
      BY <2>2
    <3>2. \A s : s # s0 => VolumeOf(drink', New(s)) = VolumeOf(drink, S(s))
      BY <1>8, <2>1, <3>1
    <3> QED
      BY <1>3, <2>4, <3>2
  <2>8. \A s \in DOMAIN session' : session'[s] = VolumeOf(drink', New(s))
    <3> HIDE DEF New
    <3> QED
      BY <2>4, <2>6, <2>7
  <2> HIDE DEF New
  <2> QED
    BY <2>5, <2>8
<1>11. ASSUME l.op \in Edits
       PROVE  /\ x \in DOMAIN drink /\ drink[x].session = s0 /\ s0 \in DOMAIN session
              /\ l.sum = VolumeOf(drink, OtherDrinks(p)) + l.new
              /\ l.left <=> (l.op = "adjust" \/ OtherDrinks(p) # {})
              /\ OtherDrinks(p) = S(s0) \ {x} /\ x \in S(s0)
  <2>1. ~Pending(p, "read_drinks")
    BY CommitDrinks
  <2>2. x \in DOMAIN drink /\ drink[x].session = s0
    BY <1>2, <1>7, <1>11 DEF HoldsAll, HoldsDrink
  <2>3. /\ l.sum = VolumeOf(drink, OtherDrinks(p)) + l.new
        /\ l.left <=> (l.op = "adjust" \/ OtherDrinks(p) # {})
    BY <1>2, <1>7, <1>11, <2>1 DEF HoldsAll, HoldsSum
  <2> QED
    BY <1>3, <2>2, <2>3 DEF OtherDrinks, DrinksOfSession
<1>12. CASE l.op = "adjust"
  <2>1. DOMAIN drink' = DOMAIN drink \cup {x}
        /\ drink'[x] = [keg |-> l.keg, volume |-> l.new, session |-> s0]
    BY <1>12, CommitDrinks
  <2>2. session' = [s \in DOMAIN session \cup {s0} |-> IF s = s0 THEN l.sum ELSE session[s]]
    BY <1>1, <1>11, <1>12 DEF SessionsWritten, DrinkOps, Edits
  <2>3. /\ \A d \in DOMAIN drink' : drink'[d].session \in DOMAIN session'
        /\ \A s \in DOMAIN session' : \E d \in DOMAIN drink' : drink'[d].session = s
    <3>1. x \in DOMAIN drink' /\ drink'[x].session = s0
      BY <2>1
    <3>2. DOMAIN session' = DOMAIN session \cup {s0}
      BY <2>2
    <3>3. ASSUME NEW s \in DOMAIN session' PROVE \E d \in DOMAIN drink' : drink'[d].session = s
      <4>1. CASE s = s0
        BY <3>1, <4>1
      <4>2. CASE s # s0
        <5>1. PICK d \in DOMAIN drink : drink[d].session = s
          BY <1>3, <3>2, <4>2
        <5>2. d # x
          BY <1>11, <1>12, <4>2, <5>1 DEF Edits
        <5> QED
          BY <1>6, <5>1, <5>2
      <4> QED
        BY <4>1, <4>2
    <3>4. \A d \in DOMAIN drink' : drink'[d].session \in DOMAIN session'
      BY <1>3, <1>6, <3>1, <3>2
    <3> QED
      BY <3>3, <3>4
  <2>4. VolumeOf(drink', New(s0)) = l.sum
    <3>1. New(s0) = OtherDrinks(p) \cup {x} /\ x \notin OtherDrinks(p)
          /\ drink'[x].volume = l.new
          /\ \A d \in OtherDrinks(p) : drink'[d].volume = drink[d].volume
      <4>1. x \in DOMAIN drink' /\ drink'[x].session = s0 /\ drink'[x].volume = l.new
        BY <2>1
      <4>2. \A d : d \in OtherDrinks(p) \cup {x} <=>
                    d \in DOMAIN drink' /\ drink'[d].session = s0
        BY <1>6, <4>1 DEF OtherDrinks, DrinksOfSession
      <4>3. New(s0) = OtherDrinks(p) \cup {x}
        BY <4>2
      <4> QED
        BY <1>6, <4>1, <4>3 DEF OtherDrinks, DrinksOfSession
    <3>2. OtherDrinks(p) \in SUBSET DOMAIN drink
      BY DEF OtherDrinks, DrinksOfSession
    <3>3. VolumeOf(drink', OtherDrinks(p) \cup {x}) = VolumeOf(drink, OtherDrinks(p)) + l.new
      BY <1>4, <1>7, <3>1, <3>2, VolumeWith
    <3> QED
      BY <1>11, <1>12, <3>1, <3>3 DEF Edits
  <2>5. \A s \in DOMAIN session : s # s0 =>
          session'[s] = VolumeOf(drink', New(s))
    <3>1. drink[x].session = s0 /\ drink'[x].session = s0
      BY <1>11, <1>12, <2>1 DEF Edits
    <3>2. \A s : s # s0 => VolumeOf(drink', New(s)) = VolumeOf(drink, S(s))
      BY <1>8, <3>1
    <3> QED
      BY <1>3, <2>2, <3>2
  <2>6. \A s \in DOMAIN session' : session'[s] = VolumeOf(drink', New(s))
    <3> HIDE DEF New
    <3> QED
      BY <2>2, <2>4, <2>5
  <2> HIDE DEF New
  <2> QED
    BY <2>3, <2>6
<1>13. CASE l.op = "cancel"
  <2>1. DOMAIN drink' = DOMAIN drink \ {x} /\ l.new = 0
    BY <1>7, <1>13, CommitDrinks DEF HoldsAll, Holds
  <2>2. x \in DOMAIN drink /\ drink[x].session = s0 /\ s0 \in DOMAIN session
        /\ l.sum = VolumeOf(drink, OtherDrinks(p)) + l.new
        /\ (l.left <=> OtherDrinks(p) # {})
    BY <1>11, <1>13 DEF Edits
  <2>3. \A s \in DOMAIN session : s # s0 =>
          session[s] = VolumeOf(drink', New(s))
    <3>1. \A s : s # s0 => VolumeOf(drink', New(s)) = VolumeOf(drink, S(s))
      BY <1>8, <2>1, <2>2
    <3> QED
      BY <1>3, <3>1
  <2>4. New(s0) = OtherDrinks(p)
        /\ \A d \in OtherDrinks(p) : drink'[d].volume = drink[d].volume
    BY <1>6, <2>1 DEF OtherDrinks, DrinksOfSession
  <2>5. /\ \A d \in DOMAIN drink' : drink'[d].session \in DOMAIN session
        /\ \A s \in DOMAIN session \ {s0} : \E d \in DOMAIN drink' : drink'[d].session = s
    BY <1>3, <1>6, <2>1, <2>2
  <2>6. OtherDrinks(p) # {} <=> \E d \in DOMAIN drink' : drink'[d].session = s0
    BY <1>6, <2>1 DEF OtherDrinks, DrinksOfSession
  <2>7. CASE l.left
    <3>1. session' = [s \in DOMAIN session \cup {s0} |-> IF s = s0 THEN l.sum ELSE session[s]]
      BY <1>1, <1>13, <2>7 DEF SessionsWritten, DrinkOps
    <3>2. VolumeOf(drink', OtherDrinks(p)) = VolumeOf(drink, OtherDrinks(p))
          /\ VolumeOf(drink, OtherDrinks(p)) \in Nat
      <4>1. OtherDrinks(p) \in SUBSET DOMAIN drink
        BY DEF OtherDrinks, DrinksOfSession
      <4> QED
        BY <1>4, <2>4, <4>1, SameVolume
    <3>3. session'[s0] = VolumeOf(drink', New(s0))
      <4>1. session'[s0] = l.sum
        BY <3>1
      <4> HIDE DEF New
      <4> QED
        BY <2>1, <2>2, <2>4, <3>2, <4>1
    <3> QED
      BY <2>2, <2>3, <2>5, <2>6, <2>7, <3>1, <3>3
  <2>8. CASE ~l.left
    <3>1. session' = [s \in DOMAIN session \ {s0} |-> session[s]]
      BY <1>1, <1>13, <2>8 DEF SessionsWritten, DrinkOps
    <3> QED
      BY <2>2, <2>3, <2>5, <2>6, <2>8, <3>1
  <2> QED
    BY <2>7, <2>8
<1> QED
  BY <1>9, <1>10, <1>12, <1>13 DEF DrinkOps

\* What the others hold is disturbed only where they share.
LEMMA CommitKeepsOthers ==
  ASSUME RaceInv, NEW p \in Requests, Commit(p), NEW q \in Requests, Running(q)'
  PROVE  HoldsAll(q)'
<1> DEFINE l == loc[p]
           x == l.drink
<1>1. /\ Shapes /\ OneClaims /\ TotalsInv
  BY DEF RaceInv, TapInv
<1>2. /\ \A r \in Requests \ {p} : script'[r] = script[r]
      /\ ~Running(p)' /\ loc' = loc /\ shared' = shared
  BY <1>1, FinishFacts
<1>3. q # p /\ Running(q) /\ HoldsAll(q) /\ RequestShape(q) /\ Running(p) /\ RequestShape(p)
      /\ HoldsAll(p)
  <2>1. HoldsAll(p) /\ RequestShape(p) /\ Running(p) /\ q # p
    BY <1>2, CommitShape
  <2> QED
    BY <1>1, <1>2, <2>1 DEF Running, TotalsInv, Shapes
<1>4. /\ KegOf(q)' = KegOf(q) /\ SharedSessions' = SharedSessions
      /\ \A statement : Pending(q, statement)' = Pending(q, statement)
      /\ \A d : Poured(d) => Poured(d)'
  <2>1. \A r \in Requests : Running(r)' => Running(r)
    BY <1>2, <1>3 DEF Running
  <2> QED
    BY <1>2, <1>3, <2>1 DEF KegOf, SharedSessions, Pending, Poured
\* The two share what both claim.
<1>5. l.keg \in Kegs /\ l.keg = loc[q].keg => KegOf(q) \in shared
  <2> SUFFICES ASSUME l.keg \in Kegs, l.keg = loc[q].keg PROVE KegOf(q) \in shared
    OBVIOUS
  <2>1. KegOf(q) \in l.claims /\ KegOf(q) \in loc[q].claims
    BY <1>3 DEF RequestShape, KegOf
  <2> QED
    BY <1>1, <1>3, <2>1 DEF OneClaims
<1>6. l.op \in DrinkOps /\ loc[q].op \in DrinkOps => SharedSessions
  <2> SUFFICES ASSUME l.op \in DrinkOps, loc[q].op \in DrinkOps PROVE SharedSessions
    OBVIOUS
  <2>1. SessionRows \subseteq l.claims /\ SessionRows \subseteq loc[q].claims
    BY <1>3 DEF HoldsAll, Holds
  <2>2. <<"session", Earlier>> \in SessionRows
    BY DEF SessionRows, Ids
  <2>3. <<"session", Earlier>> \in shared
    BY <1>1, <1>3, <2>1, <2>2 DEF OneClaims
  <2> QED
    BY <2>2, <2>3 DEF SharedSessions
<1>7. Holds(q)'
  BY <1>2, <1>3 DEF HoldsAll, Holds
<1>8. HoldsRow(q)'
  <2> SUFFICES ASSUME loc[q].op # "settings", ~Pending(q, "load_keg"), KegOf(q) \notin shared
               PROVE  kegRow'[loc[q].keg] = kegRow[loc[q].keg]
    BY <1>2, <1>3, <1>4 DEF HoldsAll, HoldsRow
  <2>1. loc[q].keg \in Kegs
    BY <1>3 DEF HoldsAll, Holds
  <2> QED
    BY <1>5, <2>1, CommitKegs
<1>9. HoldsDrink(q)'
  <2> PICK y : y = loc[q].drink
    OBVIOUS
  <2> SUFFICES ASSUME loc[q].op \in Edits
               PROVE  /\ Poured(y)'
                      /\ y \in DOMAIN drink' =>
                           drink'[y].keg = loc[q].keg /\ drink'[y].session = loc[q].session
                      /\ KegOf(q) \notin shared \/ ~SharedSessions =>
                           y \in DOMAIN drink' /\ drink'[y].volume = loc[q].old
    BY <1>2, <1>4 DEF HoldsDrink, Poured
  <2>1. /\ Poured(y)
        /\ y \in DOMAIN drink => drink[y].keg = loc[q].keg /\ drink[y].session = loc[q].session
        /\ KegOf(q) \notin shared \/ ~SharedSessions =>
             y \in DOMAIN drink /\ drink[y].volume = loc[q].old
    BY <1>3 DEF HoldsAll, HoldsDrink
  <2>2. CASE l.op \notin DrinkOps
    <3>1. drink' = drink
      BY <2>2, CommitDrinks
    <3> QED
      BY <1>4, <2>1, <3>1
  <2>3. CASE l.op \in DrinkOps /\ y # x
    <3>1. /\ y \in DOMAIN drink => y \in DOMAIN drink' /\ drink'[y] = drink[y]
          /\ y \in DOMAIN drink' => y \in DOMAIN drink
      BY <2>3, CommitSpares
    <3> QED
      BY <1>4, <2>1, <3>1
  <2>4. CASE l.op \in DrinkOps /\ y = x
    <3>1. l.op # "pour"
      <4>1. ~Poured(p)
        BY <1>3, RaceAssumption DEF Poured
      <4> QED
        BY <1>3, <2>1, <2>4, <4>1 DEF HoldsAll, Holds
    <3>2. l.op \in Edits /\ l.op \in {"adjust", "cancel"}
      BY <2>4, <3>1 DEF DrinkOps, Edits
    <3>3. l.keg = loc[q].keg /\ l.session = loc[q].session
      BY <1>1, <1>3, <2>4, <3>2 DEF TotalsInv, EditsAgree
    <3>4. l.keg \in Kegs
      BY <1>3, <3>2 DEF HoldsAll, Holds
    <3>5. KegOf(q) \in shared /\ SharedSessions
      BY <1>5, <1>6, <2>4, <3>3, <3>4 DEF DrinkOps, Edits
    <3>6. y \in DOMAIN drink' => drink'[y].keg = l.keg /\ drink'[y].session = l.session
      <4>1. l.op = "adjust" =>
              drink'[x] = [keg |-> l.keg, volume |-> l.new, session |-> l.session]
        BY CommitDrinks
      <4>2. l.op = "cancel" => DOMAIN drink' = DOMAIN drink \ {x}
        BY CommitDrinks
      <4> QED
        BY <2>4, <3>2, <4>1, <4>2
    <3> QED
      BY <1>4, <2>1, <3>3, <3>5, <3>6
  <2> QED
    BY <2>2, <2>3, <2>4
<1>10. HoldsSum(q)'
  <2>1. CASE SharedSessions \/ loc[q].op \notin DrinkOps
    BY <1>2, <1>4, <2>1 DEF HoldsSum, DrinkOps, Edits
  <2>2. CASE ~SharedSessions /\ loc[q].op \in DrinkOps
    <3>1. drink' = drink /\ session' = session
      BY <1>6, <2>2, CommitDrinks
    <3>2. OtherDrinks(q)' = OtherDrinks(q)
      BY <1>2, <3>1 DEF OtherDrinks, DrinksOfSession
    <3> QED
      BY <1>2, <1>3, <1>4, <3>1, <3>2 DEF HoldsAll, HoldsSum
  <2> QED
    BY <2>1, <2>2
<1> QED
  BY <1>7, <1>8, <1>9, <1>10 DEF HoldsAll

LEMMA CommitKeepsTypes ==
  ASSUME RaceInv, NEW p \in Requests, Commit(p)
  PROVE  /\ TypeOK' /\ IsFiniteSet(DOMAIN drink')
         /\ \A d \in DOMAIN drink' : Poured(d)'
<1> DEFINE l == loc[p]
           x == l.drink
<1>1. Shapes /\ TapInv /\ TotalsInv /\ HoldsAll(p) /\ RequestShape(p)
  BY CommitDrinks DEF RaceInv, TapInv
<1>2. /\ ~Running(p)' /\ loc' = loc /\ shared' = shared
      /\ \A r \in Requests \ {p} : script'[r] = script[r]
      /\ owner' = [r \in Rows |-> IF owner[r] = p THEN Nobody ELSE owner[r]]
      /\ session' = SessionsWritten(p)
  BY <1>1, FinishFacts DEF Commit, Finish
<1>3. tapKeg' \in [Taps -> Kegs \cup {NoKeg}] /\ kegRow' \in [Kegs -> KegRow]
  BY <1>1, CommitWrites, CommitKegs
<1>4. /\ \A d \in DOMAIN drink \ {x} : drink'[d] = drink[d]
      /\ DOMAIN drink' \subseteq DOMAIN drink \cup {x}
  BY CommitDrinks
<1>5. x \in DOMAIN drink' => drink'[x] \in DrinkRow
  <2>1. CASE l.op \in {"pour", "adjust"}
    <3>1. drink'[x] = [keg |-> l.keg, volume |-> l.new, session |-> l.session]
      BY <2>1, CommitDrinks
    <3>2. l.keg \in Kegs /\ l.new \in Volumes /\ l.session \in Ids
      BY <1>1, <2>1 DEF HoldsAll, Holds
    <3> QED
      BY <3>1, <3>2 DEF DrinkRow
  <2>2. CASE l.op = "cancel"
    <3>1. DOMAIN drink' = DOMAIN drink \ {x}
      BY <2>2, CommitDrinks
    <3> QED
      BY <3>1
  <2>3. CASE l.op \notin DrinkOps
    <3>1. drink' = drink
      BY <2>3, CommitDrinks
    <3> QED
      BY <1>1, <3>1, RowsOfDrinks DEF DrinkRows
  <2> QED
    BY <2>1, <2>2, <2>3 DEF DrinkOps
<1>6. /\ DOMAIN drink' \subseteq Ids
      /\ \A d \in DOMAIN drink' : drink'[d] \in DrinkRow
  <2>1. \A d \in DOMAIN drink : d \in Ids /\ drink[d] \in DrinkRow
    BY <1>1, RowsOfDrinks DEF DrinkRows
  <2>2. x \in Ids
    BY <1>1 DEF HoldsAll, Holds
  <2> QED
    BY <1>4, <1>5, <2>1, <2>2
<1>7. /\ DOMAIN session' \subseteq Ids /\ \A s \in DOMAIN session' : session'[s] \in Nat
  <2>1. /\ DOMAIN session \subseteq Ids /\ \A s \in DOMAIN session : session[s] \in Nat
        /\ l.session \in Ids /\ l.sum \in Nat
    BY <1>1 DEF TotalsInv, TypeOK, HoldsAll, Holds
  <2>2. \/ session' = session
        \/ session' = [s \in DOMAIN session \cup {l.session} |->
                         IF s = l.session THEN l.sum ELSE session[s]]
        \/ session' = [s \in DOMAIN session \ {l.session} |-> session[s]]
    BY <1>2 DEF SessionsWritten
  <2> QED
    BY <2>1, <2>2
<1>8. owner' \in [Rows -> Requests \cup {Nobody}] /\ shared' \subseteq Rows
  BY <1>1, <1>2 DEF TotalsInv, TypeOK
<1>9. TypeOK'
  BY <1>3, <1>6, <1>7, <1>8 DEF TypeOK, DrinkRow
<1>10. IsFiniteSet(DOMAIN drink')
  <2>1. IsFiniteSet(DOMAIN drink \cup {x})
    BY <1>1, FS_AddElement DEF TotalsInv
  <2> QED
    BY <1>4, <2>1, FS_Subset
<1>11. ASSUME NEW d \in DOMAIN drink' PROVE Poured(d)'
  <2>1. \A r \in Requests : Running(r)' => Running(r)
    BY <1>2 DEF Running
  <2>2. \A y : Poured(y) => Poured(y)'
    BY <1>2, <2>1 DEF Poured
  <2>3. CASE d \in DOMAIN drink
    BY <1>1, <2>2, <2>3 DEF TotalsInv
  <2>4. CASE d \notin DOMAIN drink
    <3>1. d = x
      BY <1>4, <2>4
    <3>2. CASE l.op = "pour"
      <4>1. d = p
        BY <1>1, <3>1, <3>2 DEF HoldsAll, Holds
      <4> QED
        BY <1>2, <3>2, <4>1 DEF Poured
    <3>3. CASE l.op \in Edits
      BY <1>1, <2>2, <3>1, <3>3 DEF HoldsAll, HoldsDrink
    <3>4. CASE l.op \notin DrinkOps
      BY <2>4, <3>4, CommitDrinks
    <3> QED
      BY <3>2, <3>3, <3>4 DEF DrinkOps, Edits
  <2> QED
    BY <2>3, <2>4
<1> QED
  BY <1>9, <1>10, <1>11

LEMMA CommitKeepsTotals ==
  ASSUME RaceInv, NEW p \in Requests, Commit(p)
  PROVE  TotalsInv'
<1>1. Shapes /\ TotalsInv
  BY DEF RaceInv, TapInv
<1>2. /\ \A r \in Requests \ {p} : script'[r] = script[r]
      /\ ~Running(p)' /\ loc' = loc
  BY <1>1, FinishFacts
<1>3. EditsAgree'
  <2>1. \A r \in Requests : Running(r)' => Running(r)
    BY <1>2 DEF Running
  <2> QED
    BY <1>1, <1>2, <2>1 DEF TotalsInv, EditsAgree
<1> QED
  BY <1>3, CommitKeepsTypes, CommitKeepsOthers, CommitKeepsKegsExact, CommitKeepsSessionsExact
     DEF TotalsInv

LEMMA TotalsInitInv == Init => TotalsInv
<1> SUFFICES ASSUME Init PROVE TotalsInv
  OBVIOUS
<1>1. \A p \in Requests : ~Running(p)
  BY DEF Init, Running
<1> DEFINE table(k, v) == [d \in {Earlier} |-> [keg |-> k, volume |-> v, session |-> d]]
           totals(v) == [s \in {Earlier} |-> v]
           rows(there, k, v) ==
             [x \in Kegs |->
                [served |-> IF there /\ x = k THEN v ELSE 0,
                 spilled |-> 0,
                 status |-> IF \E t \in Taps : tapKeg[t] = x THEN "on_tap" ELSE "available"]]
<1>2. PICK k \in Kegs, v \in Volumes, there \in BOOLEAN :
        /\ drink = IF there THEN table(k, v) ELSE << >>
        /\ session = IF there THEN totals(v) ELSE << >>
        /\ kegRow = rows(there, k, v)
  BY Zenon DEF Init
<1>3. v \in Nat
  BY RaceAssumption
<1>4. /\ DOMAIN drink = IF there THEN {Earlier} ELSE {}
      /\ there => drink[Earlier] = [keg |-> k, volume |-> v, session |-> Earlier]
  <2>1. DOMAIN << >> = {}
    OBVIOUS
  <2> QED
    BY <1>2, <2>1
<1>5. /\ DOMAIN session = IF there THEN {Earlier} ELSE {}
      /\ there => session[Earlier] = v
  <2>1. DOMAIN << >> = {}
    OBVIOUS
  <2> QED
    BY <1>2, <2>1
<1>6. /\ kegRow \in [Kegs -> KegRow]
      /\ \A x \in Kegs : kegRow[x].served = IF there /\ x = k THEN v ELSE 0
  BY <1>2, <1>3 DEF KegRow
<1> HIDE DEF table, totals, rows
<1>7. TypeOK
  <2>1. tapKeg \in [Taps -> Kegs \cup {NoKeg}] /\ shared = {}
    BY DEF Init
  <2>2. owner \in [Rows -> Requests \cup {Nobody}]
    BY DEF Init
  <2> QED
    BY <1>3, <1>4, <1>5, <1>6, <2>1, <2>2 DEF TypeOK, Ids
<1>8. IsFiniteSet(DOMAIN drink) /\ \A d \in DOMAIN drink : Poured(d)
  <2>1. IsFiniteSet({}) /\ IsFiniteSet({Earlier})
    BY FS_EmptySet, FS_Singleton
  <2> QED
    BY <1>4, <2>1 DEF Poured
<1>9. VolumeOf(drink, {}) = 0 /\ (there => VolumeOf(drink, {Earlier}) = v)
  <2>1. VolumeOf(drink, {}) = 0
    BY NoVolume
  <2>2. ASSUME there PROVE VolumeOf(drink, {Earlier}) = v
    <3>1. drink[Earlier].volume = v /\ {Earlier} \ {Earlier} = {}
      BY <1>4, <2>2
    <3>2. IsFiniteSet({Earlier}) /\ Earlier \in {Earlier}
          /\ \A d \in {Earlier} : drink[d].volume \in Nat
      BY <1>3, <3>1, FS_Singleton
    <3>3. VolumeOf(drink, {Earlier}) =
            drink[Earlier].volume + VolumeOf(drink, {Earlier} \ {Earlier})
      BY <3>2, VolumeOfOne
    <3> QED
      BY <1>3, <2>1, <3>1, <3>3
  <2> QED
    BY <2>1, <2>2
<1>10. UnsharedKegIsExact
  <2> SUFFICES ASSUME NEW x \in Kegs PROVE kegRow[x].served = VolumeOf(drink, DrinksOfKeg(x))
    BY DEF UnsharedKegIsExact
  <2>1. DrinksOfKeg(x) = IF there /\ x = k THEN {Earlier} ELSE {}
    BY <1>4 DEF DrinksOfKeg
  <2> QED
    BY <1>6, <1>9, <2>1
<1>11. UnsharedSessionsAreExact
  <2>1. ASSUME NEW s \in DOMAIN session
        PROVE  session[s] = VolumeOf(drink, DrinksOfSession(s))
    <3>1. there /\ s = Earlier
      BY <1>5, <2>1
    <3>2. DrinksOfSession(s) = {Earlier}
      BY <1>4, <3>1 DEF DrinksOfSession
    <3> QED
      BY <1>5, <1>9, <3>1, <3>2
  <2>2. {drink[d].session : d \in DOMAIN drink} = DOMAIN session
    BY <1>4, <1>5
  <2> QED
    BY <2>1, <2>2 DEF UnsharedSessionsAreExact
<1> QED
  BY <1>1, <1>7, <1>8, <1>10, <1>11 DEF TotalsInv, EditsAgree

LEMMA RaceInitInv == Init => RaceInv
BY TapInitInv, DrinkInitInv, TotalsInitInv DEF RaceInv

LEMMA RaceNextInv == RaceInv /\ [Next]_vars => RaceInv'
<1> SUFFICES ASSUME RaceInv, [Next]_vars PROVE TotalsInv'
  BY TapNextInv, DrinkNextInv DEF RaceInv
<1>1. CASE UNCHANGED vars
  <2>1. /\ tapKeg' = tapKeg /\ kegRow' = kegRow /\ drink' = drink /\ session' = session
        /\ owner' = owner /\ script' = script /\ loc' = loc /\ shared' = shared
    BY <1>1 DEF vars
  <2>2. /\ \A p \in Requests : Running(p)' = Running(p) /\ KegOf(p)' = KegOf(p)
        /\ \A p \in Requests : OtherDrinks(p)' = OtherDrinks(p)
        /\ \A p \in Requests : \A statement : Pending(p, statement)' = Pending(p, statement)
        /\ SharedSessions' = SharedSessions
    BY <2>1 DEF Running, KegOf, OtherDrinks, DrinksOfSession, Pending, SharedSessions
  <2>3. \A d : Poured(d)' = Poured(d)
    BY <2>1, <2>2 DEF Poured
  <2>4. ASSUME NEW p \in Requests, HoldsAll(p) PROVE HoldsAll(p)'
    BY <2>1, <2>2, <2>3, <2>4 DEF HoldsAll, Holds, HoldsRow, HoldsDrink, HoldsSum
  <2>5. TypeOK' /\ EditsAgree' /\ UnsharedKegIsExact' /\ UnsharedSessionsAreExact'
    BY <2>1, <2>2
       DEF RaceInv, TotalsInv, TypeOK, EditsAgree, UnsharedKegIsExact, UnsharedSessionsAreExact,
           DrinksOfKeg, DrinksOfSession
  <2> QED
    BY <2>1, <2>2, <2>3, <2>4, <2>5 DEF RaceInv, TotalsInv
<1> QED
  BY <1>1, BeginKeepsTotals, StatementKeepsTotals, CommitKeepsTotals, RollBackKeepsTotals
     DEF Next, Step

\* All of it is an invariant: what requests hold, the taps, the drinks and the totals.
THEOREM RaceInvariance == Spec => []RaceInv
BY RaceInitInv, RaceNextInv, PTL DEF Spec

\* The rows, and what requests hold of them, have their types whatever overlaps.
THEOREM RaceTypeCorrect == Spec => []TypeOK
<1>1. RaceInv => TypeOK
  BY DEF RaceInv, TotalsInv
<1> QED
  BY <1>1, RaceInvariance, PTL

\* The volume served of a keg is the sum of its drinks unless two requests worked on that
\* keg at the same time: saving a value computed from a loaded copy (Keg.served_volume_ml
\* in record_drink, cancel_drink and set_volume) is safe when the requests of one keg do
\* not overlap, whatever overlaps elsewhere.
THEOREM KegsAreExact == Spec => []UnsharedKegIsExact
<1>1. RaceInv => UnsharedKegIsExact
  BY DEF RaceInv, TotalsInv
<1> QED
  BY <1>1, RaceInvariance, PTL

\* A session's volume is the sum of its drinks, and no session is without one, unless two
\* requests that change drinks overlapped: find_session's loaded volume and Rebuild's sum
\* are still right when they are saved.
THEOREM SessionsAreExact == Spec => []UnsharedSessionsAreExact
<1>1. RaceInv => UnsharedSessionsAreExact
  BY DEF RaceInv, TotalsInv
<1> QED
  BY <1>1, RaceInvariance, PTL

=============================================================================
