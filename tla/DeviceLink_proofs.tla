------------------------- MODULE DeviceLink_proofs -------------------------
(***************************************************************************)
(* DevicesAreAccountedFor and RefusedMeansNoDevice, for any number of      *)
(* codes and threads.                                                      *)
(*                                                                         *)
(* The first is an account.  A thread owes its code a device from the time *)
(* it has read "linked", and from the time its device stopped waiting if   *)
(* that is earlier.  Devices and debts never exceed confirmations and      *)
(* abandoned polls; while the code is linked they are one less, until the  *)
(* poll that is waited for has read it.                                    *)
(***************************************************************************)
EXTENDS DeviceLink, FiniteSetTheorems, TLAPS

ThreadState == {Idle} \cup [op : Ops, code : Codes, waiting : BOOLEAN]

\* State t of a thread, at a step of a poll; of a poll of code c.
Polls(t) == t.op \notin {"idle", "confirm", "set linked"}

PollsFor(t, c) == Polls(t) /\ t.code = c

\* The same, with the device waiting.
WaitsFor(t, c) == PollsFor(t, c) /\ t.waiting

\* The devices it owes, none or one.
Debt(t, c) ==
  IF /\ PollsFor(t, c)
     /\ t.op \in {"delete", "create device"} \/ (t.op = "poll" /\ ~t.waiting)
  THEN 1 ELSE 0

\* The keys it owes.
KeyDebt(t, c) == IF PollsFor(t, c) /\ t.op = "create key" THEN 1 ELSE 0

Debts(c, th) == Cardinality({h \in Threads : Debt(th[h], c) = 1})

KeyDebts(c, th) == Cardinality({h \in Threads : KeyDebt(th[h], c) = 1})

\* The device waits for a poll that has read "linked" and has not taken the code away.
AboutToDelete(c) == \E h \in Threads : WaitsFor(thread[h], c) /\ thread[h].op = "delete"

\* The code is good for one more device, none that waits having read so.
Spare(c) == IF cache[c] = "linked" /\ ~AboutToDelete(c) THEN 1 ELSE 0

\* The account of devices and keys.
Balanced(c) ==
  /\ devices[c] + Debts(c, thread) + Spare(c) <= confirmed[c] + abandoned[c]
  /\ keys[c] + KeyDebts(c, thread) <= devices[c]

\* A poll that has not read "linked".
Empty(t) == t.op \in {"poll", "answer 404", "answer pending"}

\* Of an unconfirmed code nobody has read "linked".
Unconfirmed(c) ==
  confirmed[c] = 0 =>
    /\ devices[c] = 0
    /\ cache[c] # "linked"
    /\ \A h \in Threads : PollsFor(thread[h], c) => Empty(thread[h])

\* One poll at a time is waited for.
OneWaits(c) ==
  \A g, h \in Threads : WaitsFor(thread[g], c) /\ WaitsFor(thread[h], c) => g = h

\* A device was made, and its key is on its way to the client.
Tells(t, c) == PollsFor(t, c) /\ t.op \in {"create key", "answer key"}

\* While no poll was abandoned, each is waited for, and a device made is a device that
\* the client has or is about to hear of.
Heard(c) ==
  abandoned[c] = 0 =>
    /\ \A h \in Threads : PollsFor(thread[h], c) =>
         thread[h].waiting /\ client[c] = "polling"
    /\ devices[c] > 0 =>
         \/ client[c] = "linked"
         \/ \E h \in Threads : Tells(thread[h], c)

CodeInv(c) == Balanced(c) /\ Unconfirmed(c) /\ OneWaits(c) /\ Heard(c)

LinkInv == TypeOK /\ \A c \in Codes : CodeInv(c)

-----------------------------------------------------------------------------
(* Counting *)

\* Two sets that differ in at most one element.
LEMMA CountAfter ==
  ASSUME NEW S, NEW T, NEW h, IsFiniteSet(S), S \ {h} = T \ {h}
  PROVE  /\ Cardinality(S) \in Nat /\ Cardinality(T) \in Nat
         /\ Cardinality(T) + (IF h \in S THEN 1 ELSE 0) =
            Cardinality(S) + (IF h \in T THEN 1 ELSE 0)
<1> DEFINE R == S \ {h}
<1>1. IsFiniteSet(R) /\ h \notin R
  BY FS_Difference
<1>2. S = (IF h \in S THEN R \cup {h} ELSE R) /\ T = (IF h \in T THEN R \cup {h} ELSE R)
  OBVIOUS
<1>3. /\ IsFiniteSet(R \cup {h})
      /\ Cardinality(R \cup {h}) = Cardinality(R) + 1
  BY <1>1, FS_AddElement
<1>4. Cardinality(R) \in Nat
  BY <1>1, FS_CardinalityType
<1> HIDE DEF R
<1>5. Cardinality(S) = Cardinality(R) + (IF h \in S THEN 1 ELSE 0)
  BY <1>2, <1>3, <1>4
<1>6. Cardinality(T) = Cardinality(R) + (IF h \in T THEN 1 ELSE 0)
  BY <1>2, <1>3, <1>4
<1> QED
  BY <1>4, <1>5, <1>6

\* When one thread changes its state, debts change by what it owed and owes.
LEMMA DebtsAfter ==
  ASSUME NEW th \in [Threads -> ThreadState], NEW h \in Threads, NEW x \in ThreadState,
         NEW new \in [Threads -> ThreadState], NEW c,
         new[h] = x, \A g \in Threads : g # h => new[g] = th[g]
  PROVE  /\ Debts(c, th) \in Nat /\ Debts(c, new) \in Nat
         /\ KeyDebts(c, th) \in Nat /\ KeyDebts(c, new) \in Nat
         /\ Debts(c, new) + Debt(th[h], c) = Debts(c, th) + Debt(x, c)
         /\ KeyDebts(c, new) + KeyDebt(th[h], c) = KeyDebts(c, th) + KeyDebt(x, c)
<1> DEFINE S == {g \in Threads : Debt(th[g], c) = 1}
           T == {g \in Threads : Debt(new[g], c) = 1}
           SK == {g \in Threads : KeyDebt(th[g], c) = 1}
           TK == {g \in Threads : KeyDebt(new[g], c) = 1}
<1>2. IsFiniteSet(S) /\ IsFiniteSet(SK)
  BY DeviceLinkAssumption, FS_Subset
<1>3. S \ {h} = T \ {h} /\ SK \ {h} = TK \ {h}
  OBVIOUS
<1>4. \A t : Debt(t, c) \in {0, 1} /\ KeyDebt(t, c) \in {0, 1}
  BY DEF Debt, KeyDebt
<1>5. /\ Debt(th[h], c) = (IF h \in S THEN 1 ELSE 0)
      /\ Debt(x, c) = (IF h \in T THEN 1 ELSE 0)
      /\ KeyDebt(th[h], c) = (IF h \in SK THEN 1 ELSE 0)
      /\ KeyDebt(x, c) = (IF h \in TK THEN 1 ELSE 0)
  BY <1>4
<1> HIDE DEF S, T, SK, TK
<1>6. /\ Cardinality(S) \in Nat /\ Cardinality(T) \in Nat
      /\ Cardinality(T) + (IF h \in S THEN 1 ELSE 0) =
         Cardinality(S) + (IF h \in T THEN 1 ELSE 0)
  BY <1>2, <1>3, CountAfter, Zenon
<1>7. /\ Cardinality(SK) \in Nat /\ Cardinality(TK) \in Nat
      /\ Cardinality(TK) + (IF h \in SK THEN 1 ELSE 0) =
         Cardinality(SK) + (IF h \in TK THEN 1 ELSE 0)
  BY <1>2, <1>3, CountAfter, Zenon
<1> QED
  BY <1>5, <1>6, <1>7, Zenon DEF S, T, SK, TK, Debts, KeyDebts

\* Debts are counted in natural numbers, and are owed one by one.
LEMMA Weights ==
  /\ \A t, c : Debt(t, c) \in {0, 1} /\ KeyDebt(t, c) \in {0, 1}
  /\ \A c : Spare(c) \in {0, 1}
BY DEF Debt, KeyDebt, Spare

\* Whoever owes something makes the count of debts positive.
LEMMA SomeDebt ==
  ASSUME NEW c
  PROVE  /\ Debts(c, thread) \in Nat /\ KeyDebts(c, thread) \in Nat
         /\ (\E h \in Threads : Debt(thread[h], c) = 1) => Debts(c, thread) # 0
<1> DEFINE S == {h \in Threads : Debt(thread[h], c) = 1}
           SK == {h \in Threads : KeyDebt(thread[h], c) = 1}
<1>1. IsFiniteSet(S) /\ IsFiniteSet(SK)
  BY DeviceLinkAssumption, FS_Subset
<1>2. (\E h \in Threads : Debt(thread[h], c) = 1) => S # {}
  OBVIOUS
<1> HIDE DEF S, SK
<1>3. /\ Cardinality(S) \in Nat /\ Cardinality(SK) \in Nat
      /\ S # {} => Cardinality(S) # 0
  BY <1>1, FS_CardinalityType, FS_EmptySet
<1> QED
  BY <1>2, <1>3, Zenon DEF S, SK, Debts, KeyDebts

-----------------------------------------------------------------------------
(* A step of one thread *)

\* A thread that works on something has a code and a client.
LEMMA Working ==
  ASSUME TypeOK, NEW h \in Threads, thread[h].op # "idle"
  PROVE  thread[h] \in [op : Ops, code : Codes, waiting : BOOLEAN]
BY DEF TypeOK, Idle

\* It keeps them as it goes on with its work.
LEMMA GoesOn ==
  ASSUME TypeOK, NEW h \in Threads, thread[h].op # "idle", NEW op \in Ops, Goto(h, op)
  PROVE  LET x == [op |-> op, code |-> thread[h].code, waiting |-> thread[h].waiting]
         IN  x \in ThreadState /\ thread' = [thread EXCEPT ![h] = x]
<1>1. thread[h] \in [op : Ops, code : Codes, waiting : BOOLEAN]
  BY Working
<1> DEFINE x == [op |-> op, code |-> thread[h].code, waiting |-> thread[h].waiting]
<1>2. x \in ThreadState
  BY <1>1 DEF ThreadState
<1>3. [thread[h] EXCEPT !.op = op] = x
  BY <1>1
<1>4. thread' = [thread EXCEPT ![h] = [thread[h] EXCEPT !.op = op]]
  BY DEF Goto
<1> QED
  BY <1>2, <1>3, <1>4, Zenon

\* The others stay as they are, and debts are paid or made by one.
LEMMA ThreadStep ==
  ASSUME TypeOK, NEW h \in Threads, NEW x \in ThreadState,
         thread' = [thread EXCEPT ![h] = x], NEW c \in Codes
  PROVE  /\ thread' \in [Threads -> ThreadState]
         /\ thread'[h] = x /\ \A g \in Threads : g # h => thread'[g] = thread[g]
         /\ Debts(c, thread) \in Nat /\ Debts(c, thread') \in Nat
         /\ KeyDebts(c, thread) \in Nat /\ KeyDebts(c, thread') \in Nat
         /\ Debts(c, thread') + Debt(thread[h], c) = Debts(c, thread) + Debt(x, c)
         /\ KeyDebts(c, thread') + KeyDebt(thread[h], c) = KeyDebts(c, thread) + KeyDebt(x, c)
<1>1. thread \in [Threads -> ThreadState]
  BY DEF TypeOK, ThreadState
<1>2. /\ thread' \in [Threads -> ThreadState]
      /\ thread'[h] = x /\ \A g \in Threads : g # h => thread'[g] = thread[g]
  BY <1>1
<1>3. /\ Debts(c, thread) \in Nat /\ Debts(c, thread') \in Nat
      /\ KeyDebts(c, thread) \in Nat /\ KeyDebts(c, thread') \in Nat
      /\ Debts(c, thread') + Debt(thread[h], c) = Debts(c, thread) + Debt(x, c)
      /\ KeyDebts(c, thread') + KeyDebt(thread[h], c) = KeyDebts(c, thread) + KeyDebt(x, c)
  <2>1. ASSUME NEW new \in [Threads -> ThreadState], new[h] = x,
               \A g \in Threads : g # h => new[g] = thread[g]
        PROVE  /\ Debts(c, thread) \in Nat /\ Debts(c, new) \in Nat
               /\ KeyDebts(c, thread) \in Nat /\ KeyDebts(c, new) \in Nat
               /\ Debts(c, new) + Debt(thread[h], c) = Debts(c, thread) + Debt(x, c)
               /\ KeyDebts(c, new) + KeyDebt(thread[h], c) = KeyDebts(c, thread) + KeyDebt(x, c)
    BY <1>1, <2>1, DebtsAfter, SMT
  <2> QED
    BY <1>2, <2>1, Zenon
<1> QED
  BY <1>2, <1>3, Zenon

\* The account stays in balance if what is spent is allowed for.
LEMMA BalancedStep ==
  ASSUME TypeOK, TypeOK', NEW c \in Codes, Balanced(c),
         NEW h \in Threads, NEW x \in ThreadState, thread' = [thread EXCEPT ![h] = x],
         devices'[c] + Debt(x, c) + Spare(c)' + confirmed[c] + abandoned[c] <=
           devices[c] + Debt(thread[h], c) + Spare(c) + confirmed'[c] + abandoned'[c],
         keys'[c] + KeyDebt(x, c) + devices[c] <=
           keys[c] + KeyDebt(thread[h], c) + devices'[c]
  PROVE  Balanced(c)'
<1>1. /\ Debts(c, thread) \in Nat /\ Debts(c, thread') \in Nat
      /\ KeyDebts(c, thread) \in Nat /\ KeyDebts(c, thread') \in Nat
      /\ Debts(c, thread') + Debt(thread[h], c) = Debts(c, thread) + Debt(x, c)
      /\ KeyDebts(c, thread') + KeyDebt(thread[h], c) = KeyDebts(c, thread) + KeyDebt(x, c)
  BY ThreadStep
<1>2. /\ devices[c] \in Nat /\ keys[c] \in Nat /\ confirmed[c] \in Nat /\ abandoned[c] \in Nat
      /\ devices'[c] \in Nat /\ keys'[c] \in Nat
      /\ confirmed'[c] \in Nat /\ abandoned'[c] \in Nat
  BY DEF TypeOK
<1>3. /\ Debt(x, c) \in {0, 1} /\ Debt(thread[h], c) \in {0, 1}
      /\ KeyDebt(x, c) \in {0, 1} /\ KeyDebt(thread[h], c) \in {0, 1}
      /\ Spare(c) \in {0, 1}
  BY Weights, Zenon
<1>4. Spare(c)' \in {0, 1}
  BY DEF Spare
<1>5. /\ devices[c] + Debts(c, thread) + Spare(c) <= confirmed[c] + abandoned[c]
      /\ keys[c] + KeyDebts(c, thread) <= devices[c]
  BY DEF Balanced
<1>6. devices'[c] + Debts(c, thread') + Spare(c)' <= confirmed'[c] + abandoned'[c]
  BY <1>1, <1>2, <1>3, <1>4, <1>5
<1>7. keys'[c] + KeyDebts(c, thread') <= devices'[c]
  BY <1>1, <1>2, <1>3, <1>5
<1> QED
  BY <1>6, <1>7, Zenon DEF Balanced

\* So does the rest of the code's invariant, each part under what it needs.
LEMMA UnconfirmedStep ==
  ASSUME NEW c \in Codes, Unconfirmed(c), NEW h \in Threads, NEW x,
         \A g \in Threads : g # h => thread'[g] = thread[g], thread'[h] = x,
         confirmed'[c] = 0 =>
           /\ confirmed[c] = 0
           /\ devices'[c] = devices[c]
           /\ cache'[c] = cache[c] \/ cache'[c] # "linked"
           /\ PollsFor(x, c) => Empty(x)
  PROVE  Unconfirmed(c)'
BY DEF Unconfirmed

LEMMA OneWaitsStep ==
  ASSUME NEW c \in Codes, OneWaits(c), NEW h \in Threads, NEW x,
         \A g \in Threads : g # h => thread'[g] = thread[g], thread'[h] = x,
         WaitsFor(x, c) =>
           \/ WaitsFor(thread[h], c)
           \/ \A g \in Threads : ~WaitsFor(thread[g], c)
  PROVE  OneWaits(c)'
BY Zenon DEF OneWaits

\* Nobody else polls for a code that a thread polls for, while no poll was abandoned.
LEMMA PollsAlone ==
  ASSUME NEW c \in Codes, OneWaits(c), Heard(c), abandoned[c] = 0,
         NEW g \in Threads, NEW h \in Threads,
         PollsFor(thread[g], c), PollsFor(thread[h], c)
  PROVE  g = h
BY DEF OneWaits, Heard, WaitsFor

LEMMA HeardStep ==
  ASSUME NEW c \in Codes, Heard(c), NEW h \in Threads, NEW x,
         \A g \in Threads : g # h => thread'[g] = thread[g], thread'[h] = x,
         abandoned'[c] = 0 =>
           /\ abandoned[c] = 0
           /\ PollsFor(x, c) => x.waiting /\ client'[c] = "polling"
           /\ client'[c] = client[c] \/ \A g \in Threads : g # h => ~PollsFor(thread[g], c)
           /\ devices'[c] > 0 =>
                \/ client'[c] = "linked"
                \/ Tells(x, c)
                \/ /\ devices[c] > 0 /\ client'[c] = client[c]
                   /\ ~Tells(thread[h], c)
  PROVE  Heard(c)'
<1> SUFFICES ASSUME abandoned'[c] = 0
             PROVE  /\ \A g \in Threads : PollsFor(thread'[g], c) =>
                         thread'[g].waiting /\ client'[c] = "polling"
                    /\ devices'[c] > 0 =>
                         \/ client'[c] = "linked"
                         \/ \E g \in Threads : Tells(thread'[g], c)
  BY Zenon DEF Heard
<1>1. ASSUME NEW g \in Threads, PollsFor(thread'[g], c)
      PROVE  thread'[g].waiting /\ client'[c] = "polling"
  <2>1. CASE g = h
    BY <1>1, <2>1, Zenon
  <2>2. CASE g # h
    BY <1>1, <2>2, Zenon DEF Heard
  <2> QED
    BY <2>1, <2>2, Zenon
<1>2. ASSUME devices'[c] > 0
      PROVE  client'[c] = "linked" \/ \E g \in Threads : Tells(thread'[g], c)
  <2>1. CASE devices[c] > 0 /\ client'[c] = client[c] /\ ~Tells(thread[h], c)
    BY <2>1, Zenon DEF Heard
  <2> QED
    BY <1>2, <2>1, Zenon
<1> QED
  BY <1>1, <1>2, Zenon

LEMMA SpareStep ==
  ASSUME NEW c \in Codes, NEW h \in Threads, NEW x,
         \A g \in Threads : g # h => thread'[g] = thread[g], thread'[h] = x,
         cache'[c] = cache[c] \/ cache'[c] # "linked",
         WaitsFor(thread[h], c) /\ thread[h].op = "delete" =>
           WaitsFor(x, c) /\ x.op = "delete"
  PROVE  Spare(c)' <= Spare(c)
<1>1. AboutToDelete(c) => AboutToDelete(c)'
  BY Zenon DEF AboutToDelete
<1> QED
  BY <1>1 DEF Spare

\* A step that is not part of a poll of c, and at most confirms c.
LEMMA Elsewhere ==
  ASSUME TypeOK, TypeOK', NEW c \in Codes, CodeInv(c),
         NEW h \in Threads, NEW x \in ThreadState, thread' = [thread EXCEPT ![h] = x],
         ~PollsFor(thread[h], c), ~PollsFor(x, c),
         client'[c] = client[c], devices'[c] = devices[c], keys'[c] = keys[c],
         abandoned'[c] = abandoned[c],
         \/ cache'[c] = cache[c] /\ confirmed'[c] = confirmed[c]
         \/ confirmed'[c] = confirmed[c] + 1
  PROVE  CodeInv(c)'
<1>1. thread'[h] = x /\ \A g \in Threads : g # h => thread'[g] = thread[g]
  BY ThreadStep, Zenon
<1>2. /\ ~WaitsFor(thread[h], c) /\ ~WaitsFor(x, c)
      /\ ~Tells(thread[h], c) /\ ~Tells(x, c)
  BY Zenon DEF WaitsFor, Tells
<1>3. /\ Debt(thread[h], c) = 0 /\ Debt(x, c) = 0
      /\ KeyDebt(thread[h], c) = 0 /\ KeyDebt(x, c) = 0
  BY DEF Debt, KeyDebt
<1>4. /\ devices[c] \in Nat /\ keys[c] \in Nat
      /\ confirmed[c] \in Nat /\ confirmed'[c] \in Nat /\ abandoned[c] \in Nat
  BY DEF TypeOK
<1>5. Spare(c)' + confirmed[c] <= Spare(c) + confirmed'[c]
  <2>1. Spare(c) \in {0, 1} /\ Spare(c)' \in {0, 1}
    BY DEF Spare
  <2>2. CASE cache'[c] = cache[c] /\ confirmed'[c] = confirmed[c]
    <3>1. Spare(c)' <= Spare(c)
      BY <1>1, <1>2, <2>2, SpareStep, Zenon
    <3> QED
      BY <1>4, <2>1, <2>2, <3>1
  <2>3. CASE confirmed'[c] = confirmed[c] + 1
    BY <1>4, <2>1, <2>3
  <2> QED
    BY <2>2, <2>3, Zenon
<1>6. /\ devices'[c] + Debt(x, c) + Spare(c)' + confirmed[c] + abandoned[c] <=
           devices[c] + Debt(thread[h], c) + Spare(c) + confirmed'[c] + abandoned'[c]
      /\ keys'[c] + KeyDebt(x, c) + devices[c] <=
           keys[c] + KeyDebt(thread[h], c) + devices'[c]
  <2>1. Spare(c) \in {0, 1} /\ Spare(c)' \in {0, 1}
    BY DEF Spare
  <2> QED
    BY <1>3, <1>4, <1>5, <2>1
<1>7. Balanced(c)'
  BY <1>6, BalancedStep, Zenon DEF CodeInv
<1>8. Unconfirmed(c)'
  <2>1. confirmed'[c] = 0 => confirmed[c] = 0 /\ cache'[c] = cache[c]
    BY <1>4
  <2> QED
    BY <1>1, <2>1, UnconfirmedStep, Zenon DEF CodeInv
<1>9. OneWaits(c)'
  BY <1>1, <1>2, OneWaitsStep, Zenon DEF CodeInv
<1>10. Heard(c)'
  <2>1. devices'[c] > 0 <=> devices[c] > 0
    BY Zenon
  <2> QED
    BY <1>1, <1>2, <2>1, HeardStep, Zenon DEF CodeInv
<1> QED
  BY <1>7, <1>8, <1>9, <1>10, Zenon DEF CodeInv

\* A step of no thread, by which no code becomes linked.
LEMMA Aside ==
  ASSUME TypeOK, NEW c \in Codes, CodeInv(c),
         UNCHANGED <<thread, rows, history>>,
         cache'[c] = cache[c] \/ cache'[c] # "linked",
         client'[c] = client[c] \/ client[c] = "off"
  PROVE  CodeInv(c)'
<1>1. thread' = thread /\ devices' = devices /\ keys' = keys
      /\ confirmed' = confirmed /\ abandoned' = abandoned
  BY DEF rows, history
<1>2. /\ Debts(c, thread) \in Nat
      /\ devices[c] \in Nat /\ confirmed[c] \in Nat /\ abandoned[c] \in Nat
  BY SomeDebt DEF TypeOK
<1>3. Spare(c) \in {0, 1} /\ Spare(c)' \in {0, 1} /\ Spare(c)' <= Spare(c)
  BY <1>1 DEF Spare, AboutToDelete
<1>4. Balanced(c)'
  <2>1. /\ devices[c] + Debts(c, thread) + Spare(c) <= confirmed[c] + abandoned[c]
        /\ keys[c] + KeyDebts(c, thread) <= devices[c]
    BY DEF CodeInv, Balanced
  <2>2. devices[c] + Debts(c, thread) + Spare(c)' <= confirmed[c] + abandoned[c]
    BY <1>2, <1>3, <2>1
  <2>3. Debts(c, thread)' = Debts(c, thread) /\ KeyDebts(c, thread)' = KeyDebts(c, thread)
    BY <1>1 DEF Debts, KeyDebts
  <2> QED
    BY <1>1, <2>1, <2>2, <2>3, Zenon DEF Balanced
<1>5. Unconfirmed(c)' /\ OneWaits(c)'
  BY <1>1 DEF CodeInv, Unconfirmed, OneWaits
<1>6. Heard(c)'
  <2>1. CASE client'[c] = client[c]
    BY <1>1, <2>1 DEF CodeInv, Heard
  <2>2. CASE client[c] = "off"
    <3>1. abandoned[c] = 0 =>
            /\ \A h \in Threads : ~PollsFor(thread[h], c)
            /\ ~(devices[c] > 0)
      BY <2>2 DEF CodeInv, Heard, Tells
    <3> QED
      BY <1>1, <3>1, Zenon DEF Heard
  <2> QED
    BY <2>1, <2>2, Zenon
<1> QED
  BY <1>4, <1>5, <1>6, Zenon DEF CodeInv

-----------------------------------------------------------------------------
(* Types *)

LEMMA ThreadTyped ==
  ASSUME TypeOK, NEW h \in Threads, NEW x \in ThreadState,
         thread' = [thread EXCEPT ![h] = x]
  PROVE  thread' \in [Threads -> {Idle} \cup [op : Ops, code : Codes, waiting : BOOLEAN]]
BY DEF TypeOK, ThreadState

LEMMA OneMore ==
  ASSUME NEW f \in [Codes -> Nat], NEW k \in Codes
  PROVE  /\ [f EXCEPT ![k] = @ + 1] \in [Codes -> Nat]
         /\ [f EXCEPT ![k] = @ + 1][k] = f[k] + 1
         /\ \A c \in Codes : c # k => [f EXCEPT ![k] = @ + 1][c] = f[c]
OBVIOUS

\* What a poll makes of the status it has read.
LEMMA Reads ==
  ASSUME TypeOK, NEW h \in Threads, ReadStatus(h)
  PROVE  \E op \in Ops :
           /\ Goto(h, op)
           /\ op \in {"answer 404", "answer pending", "delete"}
           /\ op = "delete" <=> cache[thread[h].code] = "linked"
<1>1. thread[h].op = "poll"
  BY DEF ReadStatus, At
<1>2. thread[h].code \in Codes
  BY <1>1, Working
<1>3. cache[thread[h].code] \in {"absent", "pending", "linked"}
  BY <1>2 DEF TypeOK
<1> DEFINE op == CASE cache[thread[h].code] = "absent"  -> "answer 404"
                   [] cache[thread[h].code] = "pending" -> "answer pending"
                   [] cache[thread[h].code] = "linked"  -> "delete"
<1>4. /\ op \in Ops
      /\ op \in {"answer 404", "answer pending", "delete"}
      /\ op = "delete" <=> cache[thread[h].code] = "linked"
  BY <1>3 DEF Ops, Answers
<1>5. Goto(h, op)
  BY DEF ReadStatus
<1> HIDE DEF op
<1> QED
  BY <1>4, <1>5

LEMMA Typed ==
  ASSUME TypeOK, [Next]_vars
  PROVE  TypeOK'
<1> USE DeviceLinkAssumption
<1>1. ASSUME NEW c \in Codes, Start(c)
      PROVE  TypeOK'
  BY <1>1 DEF TypeOK, Start, rows, history, bounds
<1>2. ASSUME NEW c \in Codes, Poll(c)
      PROVE  TypeOK'
  <2>1. PICK h \in Threads :
          thread' = [thread EXCEPT ![h] = [op |-> "poll", code |-> c, waiting |-> TRUE]]
    BY <1>2 DEF Poll
  <2>2. [op |-> "poll", code |-> c, waiting |-> TRUE] \in ThreadState
    BY DEF ThreadState, Ops
  <2>3. thread' \in [Threads -> {Idle} \cup [op : Ops, code : Codes, waiting : BOOLEAN]]
    BY <2>1, <2>2, ThreadTyped
  <2> QED
    BY <1>2, <2>3 DEF TypeOK, Poll, rows, history, bounds
<1>3. ASSUME NEW c \in Codes, GiveUp(c)
      PROVE  TypeOK'
  <2>1. PICK h \in Awaited(c) : thread' = [thread EXCEPT ![h].waiting = FALSE]
    BY <1>3 DEF GiveUp
  <2>2. h \in Threads /\ thread[h].op # "idle"
    BY <2>1 DEF Awaited, At
  <2>3. thread[h] \in [op : Ops, code : Codes, waiting : BOOLEAN]
    BY <2>2, Working
  <2>4. thread' \in [Threads -> {Idle} \cup [op : Ops, code : Codes, waiting : BOOLEAN]]
    BY <2>1, <2>2, <2>3 DEF TypeOK
  <2> QED
    BY <1>3, <2>4 DEF TypeOK, GiveUp, Faulty, rows
<1>4. ASSUME NEW c \in Codes, Enter(c)
      PROVE  TypeOK'
  <2>1. PICK h \in Threads :
          thread' = [thread EXCEPT ![h] = [op |-> "confirm", code |-> c, waiting |-> FALSE]]
    BY <1>4 DEF Enter
  <2>2. [op |-> "confirm", code |-> c, waiting |-> FALSE] \in ThreadState
    BY DEF ThreadState, Ops
  <2>3. thread' \in [Threads -> {Idle} \cup [op : Ops, code : Codes, waiting : BOOLEAN]]
    BY <2>1, <2>2, ThreadTyped
  <2> QED
    BY <1>4, <2>3 DEF TypeOK, Enter, rows, history
<1>5. ASSUME NEW c \in Codes, Expire(c)
      PROVE  TypeOK'
  BY <1>5 DEF TypeOK, Expire, rows, history, bounds
<1>6. ASSUME NEW h \in Threads, Step(h)
      PROVE  TypeOK'
  <2>1. thread[h] \in [op : Ops, code : Codes, waiting : BOOLEAN]
    <3>1. thread[h].op # "idle"
      BY <1>6 DEF Step, ReadStatus, DeleteCode, CreateDevice, CreateKey, Answer,
                  ReadForConfirm, SetLinked, At, Answers
    <3> QED
      BY <3>1, Working
  <2>2. \A op \in Ops : Goto(h, op) =>
          thread' \in [Threads -> {Idle} \cup [op : Ops, code : Codes, waiting : BOOLEAN]]
    BY <2>1 DEF TypeOK, Goto
  <2>3. End(h) =>
          thread' \in [Threads -> {Idle} \cup [op : Ops, code : Codes, waiting : BOOLEAN]]
    BY DEF TypeOK, End
  <2>4. CASE ReadStatus(h)
    <3>1. \E op \in Ops : Goto(h, op)
      BY <2>4, Reads
    <3> QED
      BY <2>2, <2>4, <3>1 DEF TypeOK, ReadStatus, rows, history, bounds
  <2>5. CASE DeleteCode(h)
    <3>1. "create device" \in Ops
      BY DEF Ops
    <3> QED
      BY <2>1, <2>2, <2>5, <3>1 DEF TypeOK, DeleteCode, rows, history, bounds
  <2>6. CASE CreateDevice(h)
    <3>1. "create key" \in Ops
      BY DEF Ops
    <3>2. devices' \in [Codes -> Nat]
      BY <2>1, <2>6, OneMore DEF TypeOK, CreateDevice
    <3>3. Goto(h, "create key")
      BY <2>6 DEF CreateDevice
    <3> QED
      BY <2>2, <2>6, <3>1, <3>2, <3>3 DEF TypeOK, CreateDevice, history, bounds
  <2>7. CASE CreateKey(h)
    <3>1. "answer key" \in Ops
      BY DEF Ops, Answers
    <3>2. keys' \in [Codes -> Nat]
      BY <2>1, <2>7, OneMore DEF TypeOK, CreateKey
    <3>3. Goto(h, "answer key")
      BY <2>7 DEF CreateKey
    <3> QED
      BY <2>2, <2>7, <3>1, <3>2, <3>3 DEF TypeOK, CreateKey, history, bounds
  <2>8. CASE Answer(h)
    <3>1. Learns(thread[h].code, thread[h].op) \in {"polling", "linked", "refused"}
      BY <2>8 DEF Answer, Answers, Learns
    <3>2. client' \in [Codes -> {"off", "polling", "linked", "refused"}]
      BY <2>1, <2>8, <3>1 DEF TypeOK, Answer
    <3> QED
      BY <2>3, <2>8, <3>2 DEF TypeOK, Answer, rows, history, bounds
  <2>9. CASE ReadForConfirm(h)
    BY <2>2, <2>3, <2>9 DEF TypeOK, ReadForConfirm, Ops, rows, history, bounds
  <2>10. CASE SetLinked(h)
    <3>1. /\ cache' \in [Codes -> {"absent", "pending", "linked"}]
          /\ confirmed' \in [Codes -> Nat]
      BY <2>1, <2>10, OneMore DEF TypeOK, SetLinked
    <3> QED
      BY <2>3, <2>10, <3>1 DEF TypeOK, SetLinked, rows, bounds
  <2> QED
    BY <1>6, <2>4, <2>5, <2>6, <2>7, <2>8, <2>9, <2>10 DEF Step
<1>7. ASSUME NEW h \in Threads, ThreadDies(h)
      PROVE  TypeOK'
  <2>1. thread[h] \in [op : Ops, code : Codes, waiting : BOOLEAN]
    BY <1>7, Working DEF ThreadDies, At
  <2> QED
    BY <1>7, <2>1 DEF TypeOK, ThreadDies, Faulty, End, rows
<1>8. CASE ClearCache
  BY <1>8 DEF TypeOK, ClearCache, Faulty, rows, history
<1>9. CASE UNCHANGED vars
  BY <1>9 DEF TypeOK, vars, rows, history, bounds
<1> QED
  BY <1>1, <1>2, <1>3, <1>4, <1>5, <1>6, <1>7, <1>8, <1>9, Zenon DEF Next

-----------------------------------------------------------------------------
(* Steps of polls *)

\* The poll of h goes on to op.  Other codes do not notice; for its own, the account
\* must stay in balance, and the device must be told what is made for it.
LEMMA GoesOnWith ==
  ASSUME TypeOK, TypeOK', NEW c \in Codes, CodeInv(c),
         NEW h \in Threads, Polls(thread[h]), NEW op \in Ops, Goto(h, op),
         NEW k, k = thread[h].code, UNCHANGED <<client, history>>,
         c # k => cache'[c] = cache[c] /\ devices'[c] = devices[c] /\ keys'[c] = keys[c],
         NEW x, x = [op |-> op, code |-> k, waiting |-> thread[h].waiting], Polls(x),
         c = k =>
           /\ devices'[c] + Debt(x, c) + Spare(c)' <= devices[c] + Debt(thread[h], c) + Spare(c)
           /\ keys'[c] + KeyDebt(x, c) + devices[c] <=
                keys[c] + KeyDebt(thread[h], c) + devices'[c]
           /\ confirmed[c] = 0 =>
                /\ devices'[c] = devices[c]
                /\ cache'[c] = cache[c] \/ cache'[c] # "linked"
                /\ Empty(x)
           /\ devices'[c] > 0 => Tells(x, c) \/ (devices[c] > 0 /\ ~Tells(thread[h], c))
  PROVE  CodeInv(c)'
<1>1. thread[h].op # "idle"
  BY DEF Polls
<1>2. x \in ThreadState /\ thread' = [thread EXCEPT ![h] = x]
  BY <1>1, GoesOn
<1>3. x.op = op /\ x.code = k /\ x.waiting = thread[h].waiting
  OBVIOUS
<1>4. client' = client /\ confirmed' = confirmed /\ abandoned' = abandoned
  BY DEF history
<1>5. CASE c # k
  <2>1. ~PollsFor(thread[h], c) /\ ~PollsFor(x, c)
    BY <1>3, <1>5 DEF PollsFor
  <2> QED
    BY <1>2, <1>4, <1>5, <2>1, Elsewhere, Zenon
<1>6. CASE c = k
  <2>1. thread'[h] = x /\ \A g \in Threads : g # h => thread'[g] = thread[g]
    BY <1>2, ThreadStep, Zenon
  <2>3. /\ PollsFor(thread[h], c) /\ PollsFor(x, c)
        /\ WaitsFor(x, c) => WaitsFor(thread[h], c)
    BY <1>3, <1>6, Zenon DEF PollsFor, WaitsFor
  <2>4. Balanced(c)'
    <3>1. /\ devices[c] \in Nat /\ confirmed[c] \in Nat /\ abandoned[c] \in Nat
          /\ devices'[c] \in Nat
      BY DEF TypeOK
    <3>2. /\ Debt(x, c) \in {0, 1} /\ Debt(thread[h], c) \in {0, 1}
          /\ Spare(c) \in {0, 1}
      BY Weights, Zenon
    <3>3. Spare(c)' \in {0, 1}
      BY DEF Spare
    <3>4. devices'[c] + Debt(x, c) + Spare(c)' + confirmed[c] + abandoned[c] <=
            devices[c] + Debt(thread[h], c) + Spare(c) + confirmed'[c] + abandoned'[c]
      BY <1>4, <1>6, <3>1, <3>2, <3>3
    <3> QED
      BY <1>2, <1>6, <3>4, BalancedStep, Zenon DEF CodeInv
  <2>5. Unconfirmed(c)'
    BY <1>3, <1>4, <1>6, <2>1, UnconfirmedStep, Zenon DEF CodeInv
  <2>6. OneWaits(c)'
    BY <2>1, <2>3, OneWaitsStep, Zenon DEF CodeInv
  <2>7. Heard(c)'
    <3>1. abandoned[c] = 0 => thread[h].waiting /\ client[c] = "polling"
      BY <2>3, Zenon DEF CodeInv, Heard
    <3>2. client'[c] = client[c] /\ (abandoned'[c] = 0 => abandoned[c] = 0)
      BY <1>4, Zenon
    <3>3. abandoned'[c] = 0 /\ PollsFor(x, c) => x.waiting /\ client'[c] = "polling"
      BY <1>3, <3>1, <3>2, Zenon
    <3>4. devices'[c] > 0 => Tells(x, c) \/ (devices[c] > 0 /\ ~Tells(thread[h], c))
      BY <1>6, Zenon
    <3> QED
      BY <2>1, <3>2, <3>3, <3>4, HeardStep, Zenon DEF CodeInv
  <2> QED
    BY <2>4, <2>5, <2>6, <2>7, Zenon DEF CodeInv
<1> QED
  BY <1>5, <1>6, Zenon

LEMMA ReadStatusInv ==
  ASSUME TypeOK, TypeOK', \A c \in Codes : CodeInv(c), NEW h \in Threads, ReadStatus(h),
         NEW c \in Codes
  PROVE  CodeInv(c)'
<1>1. PICK op \in Ops :
        /\ Goto(h, op)
        /\ op \in {"answer 404", "answer pending", "delete"}
        /\ op = "delete" <=> cache[thread[h].code] = "linked"
  BY Reads
<1>2. thread[h].op = "poll"
  BY DEF ReadStatus, At
<1>3. UNCHANGED <<cache, client, rows, history>>
  BY DEF ReadStatus
<1> DEFINE k == thread[h].code
           x == [op |-> op, code |-> k, waiting |-> thread[h].waiting]
<1>4. x \in ThreadState /\ thread' = [thread EXCEPT ![h] = x]
  BY <1>1, <1>2, GoesOn
<1>5. x.op = op /\ x.code = k /\ x.waiting = thread[h].waiting
  OBVIOUS
<1>6. Polls(x) /\ Polls(thread[h])
  BY <1>1, <1>2, <1>5 DEF Polls
<1> HIDE DEF x
<1>7. thread'[h] = x /\ \A g \in Threads : g # h => thread'[g] = thread[g]
  BY <1>4, ThreadStep, Zenon
<1>8. cache' = cache /\ devices' = devices /\ keys' = keys /\ client' = client
  BY <1>3 DEF rows
<1>9. ASSUME c = k
      PROVE  /\ devices'[c] + Debt(x, c) + Spare(c)' <= devices[c] + Debt(thread[h], c) + Spare(c)
             /\ keys'[c] + KeyDebt(x, c) + devices[c] <=
                  keys[c] + KeyDebt(thread[h], c) + devices'[c]
             /\ confirmed[c] = 0 => Empty(x)
             /\ ~Tells(thread[h], c)
  <2>1. PollsFor(thread[h], c) /\ PollsFor(x, c)
    BY <1>5, <1>6, <1>9, Zenon DEF PollsFor
  <2>2. KeyDebt(x, c) = 0 /\ KeyDebt(thread[h], c) = 0 /\ ~Tells(thread[h], c)
    BY <1>1, <1>2, <1>5 DEF KeyDebt, Tells
  <2>3. Spare(c)' <= Spare(c)
    BY <1>2, <1>7, <1>8, SpareStep
  <2>4. Spare(c) \in {0, 1} /\ Spare(c)' \in {0, 1}
    BY DEF Spare
  <2>5. devices[c] \in Nat /\ keys[c] \in Nat
    BY DEF TypeOK
  <2>6. Debt(x, c) + Spare(c)' <= Debt(thread[h], c) + Spare(c)
    <3>1. CASE op # "delete"
      <4>1. Debt(x, c) = 0 /\ Debt(thread[h], c) \in {0, 1}
        BY <1>1, <1>5, <3>1 DEF Debt
      <4> QED
        BY <2>3, <2>4, <4>1
    <3>2. CASE op = "delete" /\ ~thread[h].waiting
      <4>1. Debt(x, c) = 1 /\ Debt(thread[h], c) = 1
        BY <1>2, <1>5, <2>1, <3>2 DEF Debt
      <4> QED
        BY <2>3, <2>4, <4>1
    <3>3. CASE op = "delete" /\ thread[h].waiting
      <4>1. WaitsFor(thread[h], c) /\ WaitsFor(x, c)
        BY <1>5, <2>1, <3>3, Zenon DEF WaitsFor
      <4>2. ~AboutToDelete(c)
        BY <1>2, <4>1 DEF CodeInv, OneWaits, AboutToDelete
      <4>3. AboutToDelete(c)'
        BY <1>5, <1>7, <3>3, <4>1, Zenon DEF AboutToDelete
      <4>4. Spare(c) = 1 /\ Spare(c)' = 0
        BY <1>1, <1>9, <3>3, <4>2, <4>3 DEF Spare
      <4>5. Debt(x, c) \in {0, 1} /\ Debt(thread[h], c) \in {0, 1}
        BY DEF Debt
      <4> QED
        BY <4>4, <4>5
    <3> QED
      BY <3>1, <3>2, <3>3, Zenon
  <2>7. Debt(x, c) \in {0, 1} /\ Debt(thread[h], c) \in {0, 1}
    BY DEF Debt
  <2>8. /\ devices'[c] + Debt(x, c) + Spare(c)' <= devices[c] + Debt(thread[h], c) + Spare(c)
        /\ keys'[c] + KeyDebt(x, c) + devices[c] <=
             keys[c] + KeyDebt(thread[h], c) + devices'[c]
    BY <1>8, <2>2, <2>4, <2>5, <2>6, <2>7
  <2>9. confirmed[c] = 0 => Empty(x)
    BY <1>1, <1>5, <1>9 DEF CodeInv, Unconfirmed, Empty
  <2> QED
    BY <2>2, <2>8, <2>9, Zenon
<1>10. UNCHANGED <<client, history>>
  BY <1>3
<1>11. c = k => /\ devices'[c] = devices[c] /\ cache'[c] = cache[c]
                /\ devices'[c] > 0 => Tells(x, c) \/ (devices[c] > 0 /\ ~Tells(thread[h], c))
  BY <1>8, <1>9, Zenon
<1>12. x = [op |-> op, code |-> k, waiting |-> thread[h].waiting]
  BY DEF x
<1> HIDE DEF k
<1>13. k = thread[h].code
  BY DEF k
<1> QED
  BY <1>1, <1>6, <1>8, <1>9, <1>10, <1>11, <1>12, <1>13, GoesOnWith, Zenon

LEMMA DeleteCodeInv ==
  ASSUME TypeOK, TypeOK', \A c \in Codes : CodeInv(c), NEW h \in Threads, DeleteCode(h),
         NEW c \in Codes
  PROVE  CodeInv(c)'
<1> DEFINE op == "create device"
           k == thread[h].code
           x == [op |-> op, code |-> k, waiting |-> thread[h].waiting]
<1>1. thread[h].op = "delete" /\ Goto(h, op) /\ op \in Ops
  BY DEF DeleteCode, At, Ops
<1>2. k \in Codes
  BY <1>1, Working
<1>3. Polls(x) /\ Polls(thread[h])
  BY <1>1 DEF Polls
<1>4. /\ devices' = devices /\ keys' = keys /\ UNCHANGED <<client, history>>
      /\ c # k => cache'[c] = cache[c]
      /\ c = k => cache'[c] = "absent"
  BY <1>2 DEF DeleteCode, TypeOK, rows
<1>5. ASSUME c = k
      PROVE  /\ devices'[c] + Debt(x, c) + Spare(c)' <= devices[c] + Debt(thread[h], c) + Spare(c)
             /\ keys'[c] + KeyDebt(x, c) + devices[c] <=
                  keys[c] + KeyDebt(thread[h], c) + devices'[c]
             /\ confirmed[c] # 0
             /\ ~Tells(thread[h], c)
  <2>1. PollsFor(thread[h], c) /\ PollsFor(x, c)
    BY <1>3, <1>5, Zenon DEF PollsFor
  <2>2. /\ KeyDebt(x, c) = 0 /\ KeyDebt(thread[h], c) = 0 /\ ~Tells(thread[h], c)
        /\ Debt(x, c) = 1 /\ Debt(thread[h], c) = 1
    BY <1>1, <2>1 DEF Debt, KeyDebt, Tells
  <2>3. Spare(c) \in {0, 1} /\ Spare(c)' = 0
    BY <1>4, <1>5 DEF Spare
  <2>4. devices[c] \in Nat /\ keys[c] \in Nat
    BY DEF TypeOK
  <2>5. confirmed[c] # 0
    BY <1>1, <2>1 DEF CodeInv, Unconfirmed, Empty
  <2> HIDE DEF x
  <2>6. /\ devices'[c] + Debt(x, c) + Spare(c)' <= devices[c] + Debt(thread[h], c) + Spare(c)
        /\ keys'[c] + KeyDebt(x, c) + devices[c] <=
             keys[c] + KeyDebt(thread[h], c) + devices'[c]
    BY <1>4, <2>2, <2>3, <2>4
  <2> QED
    BY <2>2, <2>5, <2>6, Zenon
<1>6. x = [op |-> op, code |-> k, waiting |-> thread[h].waiting] /\ k = thread[h].code
  OBVIOUS
<1> HIDE DEF x, k, op
<1>7. c # k => cache'[c] = cache[c] /\ devices'[c] = devices[c] /\ keys'[c] = keys[c]
  BY <1>4, Zenon
<1>8. c = k =>
        /\ devices'[c] + Debt(x, c) + Spare(c)' <= devices[c] + Debt(thread[h], c) + Spare(c)
        /\ keys'[c] + KeyDebt(x, c) + devices[c] <=
             keys[c] + KeyDebt(thread[h], c) + devices'[c]
        /\ confirmed[c] = 0 =>
             /\ devices'[c] = devices[c]
             /\ cache'[c] = cache[c] \/ cache'[c] # "linked"
             /\ Empty(x)
        /\ devices'[c] > 0 => Tells(x, c) \/ (devices[c] > 0 /\ ~Tells(thread[h], c))
  BY <1>4, <1>5, Zenon
<1>9. UNCHANGED <<client, history>> /\ Goto(h, op) /\ op \in Ops /\ CodeInv(c)
  BY <1>1, <1>4, Zenon
<1> QED
  BY <1>3, <1>6, <1>7, <1>8, <1>9, GoesOnWith, SMT

LEMMA CreateDeviceInv ==
  ASSUME TypeOK, TypeOK', \A c \in Codes : CodeInv(c), NEW h \in Threads, CreateDevice(h),
         NEW c \in Codes
  PROVE  CodeInv(c)'
<1> DEFINE op == "create key"
           k == thread[h].code
           x == [op |-> op, code |-> k, waiting |-> thread[h].waiting]
<1>1. thread[h].op = "create device" /\ Goto(h, op) /\ op \in Ops
  BY DEF CreateDevice, At, Ops
<1>2. k \in Codes /\ x \in ThreadState /\ thread' = [thread EXCEPT ![h] = x]
  BY <1>1, Working, GoesOn
<1>3. Polls(x) /\ Polls(thread[h])
  BY <1>1 DEF Polls
<1>4. /\ cache' = cache /\ keys' = keys /\ UNCHANGED <<client, history>>
      /\ c # k => devices'[c] = devices[c]
      /\ c = k => devices'[c] = devices[c] + 1
  <2>1. devices \in [Codes -> Nat] /\ devices' = [devices EXCEPT ![k] = @ + 1]
    BY DEF CreateDevice, TypeOK
  <2>2. cache' = cache /\ keys' = keys /\ UNCHANGED <<client, history>>
    BY DEF CreateDevice
  <2> HIDE DEF k
  <2> QED
    BY <1>2, <2>1, <2>2, OneMore
<1>5. ASSUME c = k
      PROVE  /\ devices'[c] + Debt(x, c) + Spare(c)' <= devices[c] + Debt(thread[h], c) + Spare(c)
             /\ keys'[c] + KeyDebt(x, c) + devices[c] <=
                  keys[c] + KeyDebt(thread[h], c) + devices'[c]
             /\ confirmed[c] # 0
             /\ Tells(x, c)
  <2>1. PollsFor(thread[h], c) /\ PollsFor(x, c)
    BY <1>3, <1>5, Zenon DEF PollsFor
  <2>2. /\ KeyDebt(x, c) = 1 /\ KeyDebt(thread[h], c) = 0 /\ Tells(x, c)
        /\ Debt(x, c) = 0 /\ Debt(thread[h], c) = 1
    BY <1>1, <2>1 DEF Debt, KeyDebt, Tells
  <2>3. thread'[h] = x /\ \A g \in Threads : g # h => thread'[g] = thread[g]
    BY <1>2, ThreadStep, Zenon
  <2>4. Spare(c)' <= Spare(c)
    BY <1>1, <1>4, <2>3, SpareStep
  <2>5. Spare(c) \in {0, 1} /\ Spare(c)' \in {0, 1}
    BY DEF Spare
  <2>6. devices[c] \in Nat /\ keys[c] \in Nat
    BY DEF TypeOK
  <2>7. confirmed[c] # 0
    BY <1>1, <2>1 DEF CodeInv, Unconfirmed, Empty
  <2> HIDE DEF x
  <2>8. /\ devices'[c] + Debt(x, c) + Spare(c)' <= devices[c] + Debt(thread[h], c) + Spare(c)
        /\ keys'[c] + KeyDebt(x, c) + devices[c] <=
             keys[c] + KeyDebt(thread[h], c) + devices'[c]
    BY <1>4, <1>5, <2>2, <2>4, <2>5, <2>6
  <2> QED
    BY <2>2, <2>7, <2>8, Zenon
<1>6. x = [op |-> op, code |-> k, waiting |-> thread[h].waiting] /\ k = thread[h].code
  OBVIOUS
<1> HIDE DEF x, k, op
<1>7. c # k => cache'[c] = cache[c] /\ devices'[c] = devices[c] /\ keys'[c] = keys[c]
  BY <1>4, Zenon
<1>8. c = k =>
        /\ devices'[c] + Debt(x, c) + Spare(c)' <= devices[c] + Debt(thread[h], c) + Spare(c)
        /\ keys'[c] + KeyDebt(x, c) + devices[c] <=
             keys[c] + KeyDebt(thread[h], c) + devices'[c]
        /\ confirmed[c] = 0 =>
             /\ devices'[c] = devices[c]
             /\ cache'[c] = cache[c] \/ cache'[c] # "linked"
             /\ Empty(x)
        /\ devices'[c] > 0 => Tells(x, c) \/ (devices[c] > 0 /\ ~Tells(thread[h], c))
  BY <1>4, <1>5, Zenon
<1>9. UNCHANGED <<client, history>> /\ Goto(h, op) /\ op \in Ops /\ CodeInv(c)
  BY <1>1, <1>4, Zenon
<1> QED
  BY <1>3, <1>6, <1>7, <1>8, <1>9, GoesOnWith, SMT

LEMMA CreateKeyInv ==
  ASSUME TypeOK, TypeOK', \A c \in Codes : CodeInv(c), NEW h \in Threads, CreateKey(h),
         NEW c \in Codes
  PROVE  CodeInv(c)'
<1> DEFINE op == "answer key"
           k == thread[h].code
           x == [op |-> op, code |-> k, waiting |-> thread[h].waiting]
<1>1. thread[h].op = "create key" /\ Goto(h, op) /\ op \in Ops
  BY DEF CreateKey, At, Ops, Answers
<1>2. k \in Codes /\ x \in ThreadState /\ thread' = [thread EXCEPT ![h] = x]
  BY <1>1, Working, GoesOn
<1>3. Polls(x) /\ Polls(thread[h])
  BY <1>1 DEF Polls
<1>4. /\ cache' = cache /\ devices' = devices /\ UNCHANGED <<client, history>>
      /\ c # k => keys'[c] = keys[c]
      /\ c = k => keys'[c] = keys[c] + 1
  <2>1. keys \in [Codes -> Nat] /\ keys' = [keys EXCEPT ![k] = @ + 1]
    BY DEF CreateKey, TypeOK
  <2>2. cache' = cache /\ devices' = devices /\ UNCHANGED <<client, history>>
    BY DEF CreateKey
  <2> HIDE DEF k
  <2> QED
    BY <1>2, <2>1, <2>2, OneMore
<1>5. ASSUME c = k
      PROVE  /\ devices'[c] + Debt(x, c) + Spare(c)' <= devices[c] + Debt(thread[h], c) + Spare(c)
             /\ keys'[c] + KeyDebt(x, c) + devices[c] <=
                  keys[c] + KeyDebt(thread[h], c) + devices'[c]
             /\ confirmed[c] # 0
             /\ Tells(x, c)
  <2>1. PollsFor(thread[h], c) /\ PollsFor(x, c)
    BY <1>3, <1>5, Zenon DEF PollsFor
  <2>2. /\ KeyDebt(x, c) = 0 /\ KeyDebt(thread[h], c) = 1 /\ Tells(x, c)
        /\ Debt(x, c) = 0 /\ Debt(thread[h], c) = 0
    BY <1>1, <2>1 DEF Debt, KeyDebt, Tells
  <2>3. thread'[h] = x /\ \A g \in Threads : g # h => thread'[g] = thread[g]
    BY <1>2, ThreadStep, Zenon
  <2>4. Spare(c)' <= Spare(c)
    BY <1>1, <1>4, <2>3, SpareStep
  <2>5. Spare(c) \in {0, 1} /\ Spare(c)' \in {0, 1}
    BY DEF Spare
  <2>6. devices[c] \in Nat /\ keys[c] \in Nat
    BY DEF TypeOK
  <2>7. confirmed[c] # 0
    BY <1>1, <2>1 DEF CodeInv, Unconfirmed, Empty
  <2> HIDE DEF x
  <2>8. /\ devices'[c] + Debt(x, c) + Spare(c)' <= devices[c] + Debt(thread[h], c) + Spare(c)
        /\ keys'[c] + KeyDebt(x, c) + devices[c] <=
             keys[c] + KeyDebt(thread[h], c) + devices'[c]
    BY <1>4, <1>5, <2>2, <2>4, <2>5, <2>6
  <2> QED
    BY <2>2, <2>7, <2>8, Zenon
<1>6. x = [op |-> op, code |-> k, waiting |-> thread[h].waiting] /\ k = thread[h].code
  OBVIOUS
<1> HIDE DEF x, k, op
<1>7. c # k => cache'[c] = cache[c] /\ devices'[c] = devices[c] /\ keys'[c] = keys[c]
  BY <1>4, Zenon
<1>8. c = k =>
        /\ devices'[c] + Debt(x, c) + Spare(c)' <= devices[c] + Debt(thread[h], c) + Spare(c)
        /\ keys'[c] + KeyDebt(x, c) + devices[c] <=
             keys[c] + KeyDebt(thread[h], c) + devices'[c]
        /\ confirmed[c] = 0 =>
             /\ devices'[c] = devices[c]
             /\ cache'[c] = cache[c] \/ cache'[c] # "linked"
             /\ Empty(x)
        /\ devices'[c] > 0 => Tells(x, c) \/ (devices[c] > 0 /\ ~Tells(thread[h], c))
  BY <1>4, <1>5, Zenon
<1>9. UNCHANGED <<client, history>> /\ Goto(h, op) /\ op \in Ops /\ CodeInv(c)
  BY <1>1, <1>4, Zenon
<1> QED
  BY <1>3, <1>6, <1>7, <1>8, <1>9, GoesOnWith, SMT

\* Any other step of a thread, by which no code becomes linked and nothing is made: the
\* thread may take up or leave a poll, and more polls may be abandoned.
LEMMA ComesOrGoes ==
  ASSUME TypeOK, TypeOK', NEW c \in Codes, CodeInv(c),
         NEW h \in Threads, NEW x \in ThreadState, thread' = [thread EXCEPT ![h] = x],
         UNCHANGED <<cache, rows, confirmed>>,
         Debt(x, c) + Spare(c)' + abandoned[c] <= Debt(thread[h], c) + Spare(c) + abandoned'[c],
         KeyDebt(x, c) <= KeyDebt(thread[h], c),
         PollsFor(x, c) => Empty(x) \/ (PollsFor(thread[h], c) /\ x.op = thread[h].op),
         WaitsFor(x, c) => Awaited(c) = {},
         abandoned'[c] = 0 =>
           /\ abandoned[c] = 0
           /\ PollsFor(x, c) => x.waiting /\ client'[c] = "polling"
           /\ \/ client'[c] = client[c]
              \/ \A g \in Threads : g # h => ~PollsFor(thread[g], c)
           /\ devices[c] > 0 =>
                \/ client'[c] = "linked"
                \/ client'[c] = client[c] /\ ~Tells(thread[h], c)
  PROVE  CodeInv(c)'
<1>1. cache' = cache /\ devices' = devices /\ keys' = keys /\ confirmed' = confirmed
  BY DEF rows
<1>2. thread'[h] = x /\ \A g \in Threads : g # h => thread'[g] = thread[g]
  BY ThreadStep, Zenon
<1>3. Balanced(c)'
  <2>1. /\ devices[c] \in Nat /\ keys[c] \in Nat /\ confirmed[c] \in Nat
        /\ abandoned[c] \in Nat /\ abandoned'[c] \in Nat
    BY DEF TypeOK
  <2>2. /\ Debt(x, c) \in {0, 1} /\ Debt(thread[h], c) \in {0, 1}
        /\ KeyDebt(x, c) \in {0, 1} /\ KeyDebt(thread[h], c) \in {0, 1}
        /\ Spare(c) \in {0, 1} /\ Spare(c)' \in {0, 1}
    BY DEF Debt, KeyDebt, Spare
  <2>3. devices'[c] + Debt(x, c) + Spare(c)' + confirmed[c] + abandoned[c] <=
          devices[c] + Debt(thread[h], c) + Spare(c) + confirmed'[c] + abandoned'[c]
    BY <1>1, <2>1, <2>2
  <2>4. keys'[c] + KeyDebt(x, c) + devices[c] <=
          keys[c] + KeyDebt(thread[h], c) + devices'[c]
    BY <1>1, <2>1, <2>2
  <2> QED
    BY <2>3, <2>4, BalancedStep, Zenon DEF CodeInv
<1>4. Unconfirmed(c)'
  <2>1. confirmed[c] = 0 /\ PollsFor(x, c) => Empty(x)
    BY Zenon DEF CodeInv, Unconfirmed, Empty
  <2> QED
    BY <1>1, <1>2, <2>1, UnconfirmedStep, Zenon DEF CodeInv
<1>5. OneWaits(c)'
  <2>1. Awaited(c) = {} => \A g \in Threads : ~WaitsFor(thread[g], c)
    BY DEF Awaited, WaitsFor, PollsFor, Polls, At
  <2> QED
    BY <1>2, <2>1, OneWaitsStep, Zenon DEF CodeInv
<1>6. Heard(c)'
  BY <1>1, <1>2, HeardStep, Zenon DEF CodeInv
<1> QED
  BY <1>3, <1>4, <1>5, <1>6, Zenon DEF CodeInv

LEMMA PollInv ==
  ASSUME TypeOK, TypeOK', \A c \in Codes : CodeInv(c), NEW k \in Codes, Poll(k),
         NEW c \in Codes
  PROVE  CodeInv(c)'
<1> DEFINE x == [op |-> "poll", code |-> k, waiting |-> TRUE]
<1>1. PICK h \in Threads : At(h, "idle") /\ thread' = [thread EXCEPT ![h] = x]
  BY DEF Poll
<1>2. x \in ThreadState
  BY DEF ThreadState, Ops
<1>3. ~PollsFor(thread[h], c) /\ ~WaitsFor(thread[h], c) /\ ~Tells(thread[h], c)
  BY <1>1 DEF At, PollsFor, Polls, WaitsFor, Tells
<1>4. UNCHANGED <<cache, client, rows, history>> /\ Awaited(k) = {} /\ client[k] = "polling"
  BY DEF Poll
<1>5. cache' = cache /\ client' = client /\ confirmed' = confirmed /\ abandoned' = abandoned
      /\ UNCHANGED <<cache, rows, confirmed>> /\ UNCHANGED <<rows, history>>
  BY <1>4 DEF history
<1>6. CASE c # k
  <2>1. ~PollsFor(x, c)
    BY <1>6 DEF PollsFor
  <2>2. devices' = devices /\ keys' = keys
    BY <1>5 DEF rows
  <2> HIDE DEF x
  <2> QED
    BY <1>1, <1>2, <1>3, <1>5, <2>1, <2>2, Elsewhere, Zenon
<1>7. CASE c = k
  <2>1. /\ Debt(x, c) = 0 /\ KeyDebt(x, c) = 0 /\ Empty(x) /\ x.waiting
        /\ Debt(thread[h], c) = 0 /\ KeyDebt(thread[h], c) = 0
    BY <1>3 DEF Debt, KeyDebt, Empty
  <2> HIDE DEF x
  <2>2. thread'[h] = x /\ \A g \in Threads : g # h => thread'[g] = thread[g]
    BY <1>1, <1>2, ThreadStep, Zenon
  <2>3. Spare(c)' <= Spare(c) /\ Spare(c) \in {0, 1} /\ Spare(c)' \in {0, 1}
    <3>1. Spare(c)' <= Spare(c)
      BY <1>3, <1>5, <2>2, SpareStep, Zenon
    <3> QED
      BY <3>1 DEF Spare
  <2>4. abandoned[c] \in Nat
    BY DEF TypeOK
  <2>5. /\ Debt(x, c) + Spare(c)' + abandoned[c] <=
             Debt(thread[h], c) + Spare(c) + abandoned'[c]
        /\ KeyDebt(x, c) <= KeyDebt(thread[h], c)
    BY <1>5, <2>1, <2>3, <2>4
  <2>6. devices[c] > 0 /\ abandoned[c] = 0 => client'[c] = client[c] /\ ~Tells(thread[h], c)
    BY <1>3, <1>5, Zenon
  <2>7. abandoned'[c] = abandoned[c] /\ client'[c] = client[c] /\ client'[c] = "polling"
    BY <1>4, <1>5, <1>7, Zenon
  <2> QED
    BY <1>1, <1>2, <1>3, <1>4, <1>5, <1>7, <2>1, <2>5, <2>6, <2>7, ComesOrGoes, Zenon
<1> QED
  BY <1>6, <1>7, Zenon

\* A step that has nothing to do with polls, of any code.
LEMMA ConfirmInv ==
  ASSUME TypeOK, TypeOK', \A c \in Codes : CodeInv(c), NEW c \in Codes,
         \/ \E k \in Codes : Enter(k)
         \/ \E h \in Threads : ReadForConfirm(h) \/ SetLinked(h)
  PROVE  CodeInv(c)'
<1>1. ASSUME NEW k \in Codes, Enter(k)
      PROVE  CodeInv(c)'
  <2> DEFINE x == [op |-> "confirm", code |-> k, waiting |-> FALSE]
  <2>1. PICK h \in Threads : At(h, "idle") /\ thread' = [thread EXCEPT ![h] = x]
    BY <1>1 DEF Enter
  <2>2. x \in ThreadState
    BY DEF ThreadState, Ops
  <2>3. ~PollsFor(thread[h], c) /\ ~PollsFor(x, c)
    BY <2>1 DEF At, PollsFor, Polls
  <2>4. UNCHANGED <<cache, client, devices, keys, confirmed, abandoned>>
    BY <1>1 DEF Enter, rows, history
  <2> HIDE DEF x
  <2> QED
    BY <2>1, <2>2, <2>3, <2>4, Elsewhere
<1>2. ASSUME NEW h \in Threads, ReadForConfirm(h)
      PROVE  CodeInv(c)'
  <2>1. UNCHANGED <<cache, client, devices, keys, confirmed, abandoned>>
        /\ thread[h].op = "confirm" /\ (End(h) \/ Goto(h, "set linked"))
    BY <1>2 DEF ReadForConfirm, At, rows, history
  <2>2. ~PollsFor(thread[h], c)
    BY <2>1 DEF PollsFor, Polls
  <2>3. CASE End(h)
    <3>1. Idle \in ThreadState /\ ~PollsFor(Idle, c)
      BY DEF ThreadState, Idle, PollsFor, Polls
    <3> QED
      BY <2>1, <2>2, <2>3, <3>1, Elsewhere DEF End
  <2>4. CASE Goto(h, "set linked")
    <3> DEFINE x == [op |-> "set linked", code |-> thread[h].code, waiting |-> thread[h].waiting]
    <3>1. x \in ThreadState /\ thread' = [thread EXCEPT ![h] = x]
      <4>1. "set linked" \in Ops /\ thread[h].op # "idle"
        BY <2>1 DEF Ops
      <4> QED
        BY <2>4, <4>1, GoesOn
    <3>2. ~PollsFor(x, c)
      BY DEF PollsFor, Polls
    <3> HIDE DEF x
    <3> QED
      BY <2>1, <2>2, <3>1, <3>2, Elsewhere
  <2> QED
    BY <2>1, <2>3, <2>4
<1>3. ASSUME NEW h \in Threads, SetLinked(h)
      PROVE  CodeInv(c)'
  <2> DEFINE k == thread[h].code
  <2>1. /\ UNCHANGED <<client, devices, keys, abandoned>>
        /\ thread[h].op = "set linked" /\ thread' = [thread EXCEPT ![h] = Idle]
        /\ cache' = [cache EXCEPT ![k] = "linked"]
        /\ confirmed' = [confirmed EXCEPT ![k] = @ + 1]
    BY <1>3 DEF SetLinked, At, End, rows
  <2>2. k \in Codes
    BY <2>1, Working
  <2>3. confirmed \in [Codes -> Nat] /\ cache \in [Codes -> {"absent", "pending", "linked"}]
    BY DEF TypeOK
  <2>4. /\ ~PollsFor(thread[h], c) /\ ~PollsFor(Idle, c) /\ Idle \in ThreadState
    BY <2>1 DEF Idle, PollsFor, Polls, ThreadState
  <2> HIDE DEF k
  <2>5. CASE c = k
    <3>1. confirmed'[c] = confirmed[c] + 1
      BY <2>1, <2>2, <2>3, <2>5, OneMore
    <3> QED
      BY <2>1, <2>4, <3>1, Elsewhere
  <2>6. CASE c # k
    <3>1. confirmed'[c] = confirmed[c]
      BY <2>1, <2>2, <2>3, <2>6, OneMore
    <3>2. cache'[c] = cache[c]
      BY <2>1, <2>3, <2>6
    <3> QED
      BY <2>1, <2>4, <3>1, <3>2, Elsewhere
  <2> QED
    BY <2>5, <2>6, Zenon
<1> QED
  BY <1>1, <1>2, <1>3, Zenon

LEMMA AnswerInv ==
  ASSUME TypeOK, TypeOK', \A c \in Codes : CodeInv(c), NEW h \in Threads, Answer(h),
         NEW c \in Codes
  PROVE  CodeInv(c)'
<1> DEFINE k == thread[h].code
<1>1. /\ thread[h].op \in Answers
      /\ thread' = [thread EXCEPT ![h] = Idle]
      /\ UNCHANGED <<cache, rows, history>>
      /\ client' = IF thread[h].waiting
                   THEN [client EXCEPT ![k] = Learns(k, thread[h].op)] ELSE client
  BY DEF Answer, End
<1>2. k \in Codes /\ Polls(thread[h])
  BY <1>1, Working DEF Answers, Polls
<1>3. Idle \in ThreadState /\ ~PollsFor(Idle, c) /\ ~WaitsFor(Idle, c)
  BY DEF ThreadState, Idle, PollsFor, WaitsFor, Polls
<1>4. UNCHANGED <<cache, rows, confirmed>> /\ abandoned' = abandoned /\ confirmed' = confirmed
      /\ cache' = cache /\ devices' = devices /\ keys' = keys
  BY <1>1 DEF history, rows
<1>5. CASE c # k
  <2>1. ~PollsFor(thread[h], c)
    BY <1>5 DEF PollsFor
  <2>2. client'[c] = client[c]
    BY <1>1, <1>5 DEF TypeOK
  <2> QED
    BY <1>1, <1>3, <1>4, <2>1, <2>2, Elsewhere, Zenon
<1>6. CASE c = k
  <2>1. PollsFor(thread[h], c)
    BY <1>2, <1>6, Zenon DEF PollsFor
  <2>2. /\ Debt(Idle, c) = 0 /\ KeyDebt(Idle, c) = 0
        /\ Debt(thread[h], c) = 0 /\ KeyDebt(thread[h], c) = 0
    BY <1>1, <1>3 DEF Debt, KeyDebt, Answers
  <2>3. thread'[h] = Idle /\ \A g \in Threads : g # h => thread'[g] = thread[g]
    BY <1>1, <1>3, ThreadStep, Zenon
  <2>4. Spare(c)' <= Spare(c) /\ Spare(c) \in {0, 1} /\ Spare(c)' \in {0, 1}
    <3>1. thread[h].op # "delete"
      BY <1>1 DEF Answers
    <3>2. Spare(c)' <= Spare(c)
      BY <1>4, <2>3, <3>1, SpareStep, Zenon
    <3> QED
      BY <3>2 DEF Spare
  <2>5. abandoned[c] \in Nat /\ devices[c] \in Nat
    BY DEF TypeOK
  <2>6. /\ Debt(Idle, c) + Spare(c)' + abandoned[c] <=
             Debt(thread[h], c) + Spare(c) + abandoned'[c]
        /\ KeyDebt(Idle, c) <= KeyDebt(thread[h], c)
    BY <1>4, <2>2, <2>4, <2>5
  <2>7. abandoned[c] = 0 =>
          /\ \A g \in Threads : g # h => ~PollsFor(thread[g], c)
          /\ devices[c] > 0 => client'[c] = "linked"
    <3> SUFFICES ASSUME abandoned[c] = 0
                 PROVE  /\ \A g \in Threads : g # h => ~PollsFor(thread[g], c)
                        /\ devices[c] > 0 => client'[c] = "linked"
      OBVIOUS
    <3>1. \A g \in Threads : g # h => ~PollsFor(thread[g], c)
      BY <2>1, PollsAlone, Zenon DEF CodeInv
    <3>2. thread[h].waiting /\ client[c] = "polling"
      BY <2>1, Zenon DEF CodeInv, Heard
    <3>3. ASSUME devices[c] > 0
          PROVE  client'[c] = "linked"
      <4>1. \E g \in Threads : Tells(thread[g], c)
        BY <3>2, <3>3 DEF CodeInv, Heard
      <4>2. Tells(thread[h], c)
        BY <3>1, <4>1, Zenon DEF Tells
      <4>3. thread[h].op = "answer key"
        BY <1>1, <4>2 DEF Tells, Answers
      <4>4. client'[c] = Learns(k, thread[h].op)
        BY <1>1, <1>6, <3>2 DEF TypeOK
      <4> QED
        BY <4>3, <4>4 DEF Learns
    <3> QED
      BY <3>1, <3>3, Zenon
  <2> QED
    BY <1>1, <1>3, <1>4, <2>6, <2>7, ComesOrGoes, Zenon
<1> QED
  BY <1>5, <1>6, Zenon

LEMMA WaitingSet ==
  ASSUME NEW y \in [op : Ops, code : Codes, waiting : BOOLEAN], NEW w
  PROVE  [y EXCEPT !.waiting = w] = [op |-> y.op, code |-> y.code, waiting |-> w]
OBVIOUS

LEMMA GiveUpInv ==
  ASSUME TypeOK, TypeOK', \A c \in Codes : CodeInv(c), NEW k \in Codes, GiveUp(k),
         NEW c \in Codes
  PROVE  CodeInv(c)'
<1>1. PICK h \in Awaited(k) : thread' = [thread EXCEPT ![h].waiting = FALSE]
  BY DEF GiveUp
<1>2. h \in Threads /\ thread[h].op # "idle" /\ thread[h].code = k /\ thread[h].waiting
  BY <1>1 DEF Awaited, At
<1>3. thread[h] \in [op : Ops, code : Codes, waiting : BOOLEAN]
  BY <1>2, Working
<1> DEFINE x == [op |-> thread[h].op, code |-> k, waiting |-> FALSE]
<1>4. x \in ThreadState /\ thread' = [thread EXCEPT ![h] = x]
  <2>1. [thread[h] EXCEPT !.waiting = FALSE] = x
    BY <1>2, <1>3, WaitingSet, Zenon
  <2>2. thread' = [thread EXCEPT ![h] = [thread[h] EXCEPT !.waiting = FALSE]]
    BY <1>1
  <2>3. x \in ThreadState
    BY <1>3 DEF ThreadState
  <2> HIDE DEF x
  <2> QED
    BY <2>1, <2>2, <2>3, Zenon
<1>5. /\ UNCHANGED <<cache, rows, confirmed>> /\ cache' = cache /\ client' = client
      /\ devices' = devices /\ keys' = keys /\ confirmed' = confirmed
      /\ abandoned' = [abandoned EXCEPT ![k] = @ + 1] /\ abandoned \in [Codes -> Nat]
  BY DEF GiveUp, rows, TypeOK
<1>6. /\ c = k => abandoned'[c] = abandoned[c] + 1
      /\ c # k => abandoned'[c] = abandoned[c]
      /\ abandoned[c] \in Nat
  BY <1>5, OneMore
<1>7. x.op = thread[h].op /\ x.code = k /\ x.waiting = FALSE
  OBVIOUS
<1> HIDE DEF x
<1>8. CASE c # k
  <2>1. ~PollsFor(thread[h], c) /\ ~PollsFor(x, c)
    BY <1>2, <1>7, <1>8 DEF PollsFor
  <2> QED
    BY <1>2, <1>4, <1>5, <1>6, <1>8, <2>1, Elsewhere, Zenon
<1>9. CASE c = k
  <2>1. PollsFor(x, c) <=> PollsFor(thread[h], c)
    BY <1>2, <1>7 DEF PollsFor, Polls
  <2>2. ~WaitsFor(x, c)
    BY <1>7 DEF WaitsFor
  <2>3. KeyDebt(x, c) = KeyDebt(thread[h], c) /\ KeyDebt(x, c) \in {0, 1}
    BY <1>7, <2>1 DEF KeyDebt
  <2>4. Debt(x, c) + Spare(c)' <= Debt(thread[h], c) + Spare(c) + 1
    <3>1. /\ Debt(x, c) \in {0, 1} /\ Debt(thread[h], c) \in {0, 1}
          /\ Spare(c) \in {0, 1} /\ Spare(c)' \in {0, 1}
      BY DEF Debt, Spare
    <3>2. CASE WaitsFor(thread[h], c) /\ thread[h].op = "delete"
      <4>1. Debt(x, c) = 1 /\ Debt(thread[h], c) = 1
        BY <1>7, <2>1, <3>2 DEF Debt, WaitsFor
      <4> QED
        BY <3>1, <4>1
    <3>3. CASE ~(WaitsFor(thread[h], c) /\ thread[h].op = "delete")
      <4>1. thread'[h] = x /\ \A g \in Threads : g # h => thread'[g] = thread[g]
        BY <1>2, <1>4, ThreadStep, Zenon
      <4>2. Spare(c)' <= Spare(c)
        BY <1>2, <1>5, <3>3, <4>1, SpareStep, Zenon
      <4> QED
        BY <3>1, <4>2
    <3> QED
      BY <3>2, <3>3, Zenon
  <2>5. /\ Debt(x, c) + Spare(c)' + abandoned[c] <=
             Debt(thread[h], c) + Spare(c) + abandoned'[c]
        /\ KeyDebt(x, c) <= KeyDebt(thread[h], c)
    <3>1. /\ Debt(x, c) \in {0, 1} /\ Debt(thread[h], c) \in {0, 1}
          /\ Spare(c) \in {0, 1} /\ Spare(c)' \in {0, 1}
      BY DEF Debt, Spare
    <3> QED
      BY <1>6, <1>9, <2>3, <2>4, <3>1
  <2>6. abandoned'[c] # 0
    BY <1>6, <1>9
  <2>7. /\ PollsFor(x, c) => Empty(x) \/ (PollsFor(thread[h], c) /\ x.op = thread[h].op)
        /\ UNCHANGED <<cache, rows, confirmed>> /\ CodeInv(c)
    BY <1>5, <1>7, <2>1, Zenon
  <2>8. abandoned'[c] = 0 =>
          /\ abandoned[c] = 0
          /\ PollsFor(x, c) => x.waiting /\ client'[c] = "polling"
          /\ \/ client'[c] = client[c]
             \/ \A g \in Threads : g # h => ~PollsFor(thread[g], c)
          /\ devices[c] > 0 =>
               \/ client'[c] = "linked"
               \/ client'[c] = client[c] /\ ~Tells(thread[h], c)
    BY <2>6, Zenon
  <2>9. h \in Threads /\ (WaitsFor(x, c) => Awaited(c) = {})
    BY <1>2, <2>2, Zenon
  <2> QED
    BY <1>4, <2>5, <2>7, <2>8, <2>9, ComesOrGoes, Zenon
<1> QED
  BY <1>8, <1>9, Zenon

LEMMA ThreadDiesInv ==
  ASSUME TypeOK, TypeOK', \A c \in Codes : CodeInv(c), NEW h \in Threads, ThreadDies(h),
         NEW c \in Codes
  PROVE  CodeInv(c)'
<1> DEFINE k == thread[h].code
<1>1. /\ thread[h].op # "idle" /\ thread' = [thread EXCEPT ![h] = Idle]
      /\ UNCHANGED <<cache, client, rows, confirmed>>
      /\ abandoned' = IF thread[h].waiting
                      THEN [abandoned EXCEPT ![k] = @ + 1] ELSE abandoned
  BY DEF ThreadDies, At, End
<1>2. thread[h] \in [op : Ops, code : Codes, waiting : BOOLEAN] /\ k \in Codes
  BY <1>1, Working
<1>3. Idle \in ThreadState /\ ~PollsFor(Idle, c) /\ ~WaitsFor(Idle, c)
  BY DEF ThreadState, Idle, PollsFor, WaitsFor, Polls
<1>4. /\ cache' = cache /\ client' = client /\ devices' = devices /\ keys' = keys
      /\ confirmed' = confirmed /\ UNCHANGED <<cache, rows, confirmed>>
      /\ abandoned \in [Codes -> Nat]
  BY <1>1 DEF rows, TypeOK
<1> HIDE DEF k
<1>5. /\ c # k \/ ~thread[h].waiting => abandoned'[c] = abandoned[c]
      /\ c = k /\ thread[h].waiting => abandoned'[c] = abandoned[c] + 1
      /\ abandoned[c] \in Nat
  BY <1>1, <1>2, <1>4, OneMore
<1>6. CASE c # k
  <2>1. ~PollsFor(thread[h], c)
    BY <1>6 DEF k, PollsFor
  <2> QED
    BY <1>1, <1>3, <1>4, <1>5, <1>6, <2>1, Elsewhere, Zenon
<1>7. CASE c = k
  <2>1. /\ Debt(Idle, c) = 0 /\ KeyDebt(Idle, c) = 0
        /\ Debt(thread[h], c) \in {0, 1} /\ KeyDebt(thread[h], c) \in {0, 1}
        /\ Spare(c) \in {0, 1} /\ Spare(c)' \in {0, 1}
    BY <1>3 DEF Debt, KeyDebt, Spare
  <2>2. KeyDebt(Idle, c) <= KeyDebt(thread[h], c)
    BY <2>1
  <2>3. CASE thread[h].waiting
    <3>1. abandoned'[c] = abandoned[c] + 1
      BY <1>5, <1>7, <2>3
    <3>2. Debt(Idle, c) + Spare(c)' + abandoned[c] <=
            Debt(thread[h], c) + Spare(c) + abandoned'[c]
      BY <1>5, <2>1, <3>1
    <3>3. abandoned'[c] # 0
      BY <1>5, <3>1
    <3> QED
      BY <1>1, <1>3, <1>4, <2>2, <3>2, <3>3, ComesOrGoes, Zenon
  <2>4. CASE ~thread[h].waiting
    <3>1. abandoned'[c] = abandoned[c]
      BY <1>5, <2>4
    <3>2. thread'[h] = Idle /\ \A g \in Threads : g # h => thread'[g] = thread[g]
      BY <1>1, <1>3, ThreadStep, Zenon
    <3>3. Spare(c)' <= Spare(c)
      BY <1>4, <2>4, <3>2, SpareStep, Zenon DEF WaitsFor
    <3>4. Debt(Idle, c) + Spare(c)' + abandoned[c] <=
            Debt(thread[h], c) + Spare(c) + abandoned'[c]
      BY <1>5, <2>1, <3>1, <3>3
    <3>5. abandoned'[c] = 0 => abandoned[c] = 0 /\ ~Tells(thread[h], c)
      BY <2>4, <3>1, Zenon DEF CodeInv, Heard, Tells
    <3>6. client'[c] = client[c]
      BY <1>4, Zenon
    <3> QED
      BY <1>1, <1>3, <1>4, <2>2, <3>4, <3>5, <3>6, ComesOrGoes, Zenon
  <2> QED
    BY <2>3, <2>4, Zenon
<1> QED
  BY <1>6, <1>7, Zenon

-----------------------------------------------------------------------------
(* The invariant *)

LEMMA InitInv ==
  ASSUME Init
  PROVE  LinkInv
<1>1. TypeOK
  BY DeviceLinkAssumption DEF Init, TypeOK
<1>2. ASSUME NEW c \in Codes
      PROVE  CodeInv(c)
  <2>1. \A h \in Threads : thread[h] = Idle /\ ~PollsFor(thread[h], c)
    BY DEF Init, Idle, PollsFor, Polls
  <2>2. /\ {h \in Threads : Debt(thread[h], c) = 1} = {}
        /\ {h \in Threads : KeyDebt(thread[h], c) = 1} = {}
    <3>1. \A h \in Threads : Debt(thread[h], c) = 0 /\ KeyDebt(thread[h], c) = 0
      BY <2>1, Zenon DEF Debt, KeyDebt
    <3> QED
      BY <3>1
  <2>3. Debts(c, thread) = 0 /\ KeyDebts(c, thread) = 0
    BY <2>2, FS_EmptySet, Zenon DEF Debts, KeyDebts
  <2>4. Spare(c) = 0
    BY DEF Init, Spare
  <2>5. Balanced(c)
    BY <2>3, <2>4 DEF Init, Balanced
  <2>6. Unconfirmed(c) /\ OneWaits(c) /\ Heard(c)
    BY <2>1 DEF Init, Unconfirmed, OneWaits, Heard, WaitsFor
  <2> QED
    BY <2>5, <2>6, Zenon DEF CodeInv
<1> QED
  BY <1>1, <1>2, Zenon DEF LinkInv

LEMMA StepInv ==
  ASSUME LinkInv, [Next]_vars
  PROVE  LinkInv'
<1>1. TypeOK /\ \A c \in Codes : CodeInv(c)
  BY DEF LinkInv
<1>2. TypeOK'
  BY <1>1, Typed
<1>3. ASSUME NEW c \in Codes
      PROVE  CodeInv(c)'
  <2>1. ASSUME NEW k \in Codes, Start(k)
        PROVE  CodeInv(c)'
    <3>1. /\ UNCHANGED <<thread, rows, history>>
          /\ cache'[c] = cache[c] \/ cache'[c] # "linked"
          /\ client'[c] = client[c] \/ client[c] = "off"
      BY <1>1, <2>1 DEF Start, TypeOK
    <3> QED
      BY <1>1, <3>1, Aside
  <2>2. ASSUME NEW k \in Codes, Expire(k)
        PROVE  CodeInv(c)'
    <3>1. /\ UNCHANGED <<thread, rows, history>>
          /\ cache'[c] = cache[c] \/ cache'[c] # "linked"
          /\ client'[c] = client[c] \/ client[c] = "off"
      BY <1>1, <2>2 DEF Expire, TypeOK
    <3> QED
      BY <1>1, <3>1, Aside
  <2>3. CASE ClearCache \/ UNCHANGED vars
    <3>1. /\ UNCHANGED <<thread, rows, history>>
          /\ cache'[c] = cache[c] \/ cache'[c] # "linked"
          /\ client'[c] = client[c] \/ client[c] = "off"
      BY <2>3 DEF ClearCache, vars
    <3> QED
      BY <1>1, <3>1, Aside
  <2>4. ASSUME NEW k \in Codes, Poll(k) \/ GiveUp(k) \/ Enter(k)
        PROVE  CodeInv(c)'
    BY <1>1, <1>2, <2>4, PollInv, GiveUpInv, ConfirmInv, Zenon
  <2>5. ASSUME NEW h \in Threads, Step(h) \/ ThreadDies(h)
        PROVE  CodeInv(c)'
    BY <1>1, <1>2, <2>5, ReadStatusInv, DeleteCodeInv, CreateDeviceInv, CreateKeyInv,
       AnswerInv, ConfirmInv, ThreadDiesInv, Zenon DEF Step
  <2> QED
    BY <2>1, <2>2, <2>3, <2>4, <2>5, Zenon DEF Next
<1> QED
  BY <1>2, <1>3, Zenon DEF LinkInv

\* The invariant holds of any number of codes, threads, confirmations and faults.
THEOREM LinkInvariance == Spec => []LinkInv
<1>1. Init => LinkInv
  BY InitInv
<1>2. LinkInv /\ [Next]_vars => LinkInv'
  BY StepInv
<1> QED
  BY <1>1, <1>2, PTL DEF Spec

\* TypeOK: entries of the cache, threads, devices and rows keep their types.
THEOREM LinkTypeCorrect == Spec => []TypeOK
<1>1. LinkInv => TypeOK
  BY DEF LinkInv
<1> QED
  BY <1>1, LinkInvariance, PTL

\* DevicesAreAccountedFor: confirmations and abandoned polls pay for every Device row.
THEOREM EveryDeviceIsAccountedFor == Spec => []DevicesAreAccountedFor
<1>1. ASSUME LinkInv, NEW c \in Codes
      PROVE  /\ keys[c] <= devices[c]
             /\ devices[c] <= confirmed[c] + abandoned[c]
             /\ cache[c] = "linked" => devices[c] < confirmed[c] + abandoned[c]
             /\ confirmed[c] = 0 => devices[c] = 0
  <2>1. TypeOK /\ Balanced(c) /\ Unconfirmed(c)
    BY <1>1 DEF LinkInv, CodeInv
  <2>2. /\ Debts(c, thread) \in Nat /\ KeyDebts(c, thread) \in Nat
        /\ (\E h \in Threads : Debt(thread[h], c) = 1) => Debts(c, thread) # 0
    BY SomeDebt
  <2>3. /\ devices[c] \in Nat /\ keys[c] \in Nat
        /\ confirmed[c] \in Nat /\ abandoned[c] \in Nat
    BY <2>1 DEF TypeOK
  <2>4. Spare(c) \in {0, 1}
    BY DEF Spare
  <2>5. /\ devices[c] + Debts(c, thread) + Spare(c) <= confirmed[c] + abandoned[c]
        /\ keys[c] + KeyDebts(c, thread) <= devices[c]
    BY <2>1 DEF Balanced
  <2>6. keys[c] <= devices[c] /\ devices[c] <= confirmed[c] + abandoned[c]
    BY <2>2, <2>3, <2>4, <2>5
  <2>7. ASSUME cache[c] = "linked"
        PROVE  devices[c] < confirmed[c] + abandoned[c]
    <3>1. CASE AboutToDelete(c)
      <4>1. \E h \in Threads : Debt(thread[h], c) = 1
        BY <3>1 DEF AboutToDelete, WaitsFor, Debt
      <4>2. Debts(c, thread) # 0
        BY <2>2, <4>1, Zenon
      <4> QED
        BY <2>2, <2>3, <2>4, <2>5, <4>2
    <3>2. CASE ~AboutToDelete(c)
      <4>1. Spare(c) = 1
        BY <2>7, <3>2 DEF Spare
      <4> QED
        BY <2>2, <2>3, <2>5, <4>1
    <3> QED
      BY <3>1, <3>2, Zenon
  <2>8. confirmed[c] = 0 => devices[c] = 0
    BY <2>1 DEF Unconfirmed
  <2> QED
    BY <2>6, <2>7, <2>8, Zenon
<1>2. LinkInv => DevicesAreAccountedFor
  BY <1>1, Zenon DEF DevicesAreAccountedFor
<1> QED
  BY <1>2, LinkInvariance, PTL

\* RefusedMeansNoDevice: no device is made for a client that hears "expired" and that
\* has heard every answer.
THEOREM NoDeviceForTheRefused == Spec => []RefusedMeansNoDevice
<1>1. ASSUME LinkInv, NEW c \in Codes, client[c] = "refused", abandoned[c] = 0
      PROVE  devices[c] = 0
  <2>1. Heard(c) /\ devices[c] \in Nat
    BY <1>1 DEF LinkInv, CodeInv, TypeOK
  <2>2. ~(devices[c] > 0)
    BY <1>1, <2>1 DEF Heard, Tells
  <2> QED
    BY <2>1, <2>2
<1>2. LinkInv => RefusedMeansNoDevice
  BY <1>1, Zenon DEF RefusedMeansNoDevice
<1> QED
  BY <1>2, LinkInvariance, PTL

=============================================================================
