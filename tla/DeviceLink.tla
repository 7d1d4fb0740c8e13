----------------------------- MODULE DeviceLink -----------------------------
(***************************************************************************)
(* Pairing a device with the server (web/api/devicelink.py): the device    *)
(* gets a link code and polls the code's status, an administrator confirms *)
(* the code, and the next poll makes a Device and an ApiKey and takes the  *)
(* code away.  A code is an entry of the cache, which is read, written and *)
(* deleted in separate calls; rows of the database are created in          *)
(* transactions of their own.                                              *)
(*                                                                         *)
(* Threads of the server work on polls and confirmations at the same time. *)
(* A device may give up waiting for an answer and ask again; a thread may  *)
(* die; an entry may expire; saving the site's settings clears the cache.  *)
(* Codes are random and do not collide.                                    *)
(***************************************************************************)
EXTENDS Integers, FiniteSets

CONSTANTS
  Codes,             \* one per device that is being paired
  Threads,
  MaxConfirmations,  \* bound on the times a code is entered, over all codes
  MaxFaults          \* bound on abandoned polls, dead threads, cleared caches

ASSUME DeviceLinkAssumption ==
  IsFiniteSet(Threads) /\ MaxConfirmations \in Nat /\ MaxFaults \in Nat

VARIABLES
  cache,      \* cache[c]: "absent", "pending" (linked is False), or "linked"
  thread,     \* what each thread is at
  client,     \* the device: "off", "polling", "linked" (has a key), "refused" (404)
  devices,    \* number of Device rows made for each code
  keys,       \* number of ApiKey rows made for each code
  confirmed,  \* times each code was confirmed (history)
  abandoned,  \* polls of each code that the device stopped waiting for (history)
  entered, faults   \* for the bounds

rows == <<devices, keys>>
bounds == <<entered, faults>>
history == <<confirmed, abandoned>>
vars == <<cache, thread, client, rows, history, bounds>>

Idle == [op |-> "idle"]

Init ==
  /\ cache = [c \in Codes |-> "absent"]
  /\ thread = [h \in Threads |-> Idle]
  /\ client = [c \in Codes |-> "off"]
  /\ devices = [c \in Codes |-> 0]
  /\ keys = [c \in Codes |-> 0]
  /\ confirmed = [c \in Codes |-> 0]
  /\ abandoned = [c \in Codes |-> 0]
  /\ entered = 0
  /\ faults = 0

At(h, op) == thread[h].op = op

Goto(h, op) == thread' = [thread EXCEPT ![h].op = op]

End(h) == thread' = [thread EXCEPT ![h] = Idle]

Faulty == faults < MaxFaults /\ faults' = faults + 1

\* The poll whose answer the device is waiting for.
Awaited(c) == {h \in Threads : ~At(h, "idle") /\ thread[h].code = c /\ thread[h].waiting}

-----------------------------------------------------------------------------
(* The device *)

\* start_link
Start(c) ==
  /\ client[c] = "off"
  /\ client' = [client EXCEPT ![c] = "polling"]
  /\ cache' = [cache EXCEPT ![c] = "pending"]
  /\ UNCHANGED <<thread, rows, history, bounds>>

Poll(c) ==
  /\ client[c] = "polling"
  /\ Awaited(c) = {}
  /\ \E h \in Threads :
       /\ At(h, "idle")
       /\ thread' = [thread EXCEPT ![h] = [op |-> "poll", code |-> c, waiting |-> TRUE]]
  /\ UNCHANGED <<cache, client, rows, history, bounds>>

\* The device stops waiting; the server does not notice.
GiveUp(c) ==
  /\ Faulty
  /\ \E h \in Awaited(c) : thread' = [thread EXCEPT ![h].waiting = FALSE]
  /\ abandoned' = [abandoned EXCEPT ![c] = @ + 1]
  /\ UNCHANGED <<cache, client, rows, confirmed, entered>>

-----------------------------------------------------------------------------
(* get_status, by a thread *)

\* _get_status
ReadStatus(h) ==
  /\ At(h, "poll")
  /\ LET status == cache[thread[h].code]
     IN  Goto(h, CASE status = "absent"  -> "answer 404"
                   [] status = "pending" -> "answer pending"
                   [] status = "linked"  -> "delete")
  /\ UNCHANGED <<cache, client, rows, history, bounds>>

\* As below, with the code left in the cache (a mutant).
DeleteCodeNot(h) ==
  /\ At(h, "delete")
  /\ Goto(h, "create device")
  /\ UNCHANGED <<cache, client, rows, history, bounds>>

DeleteCode(h) ==
  /\ At(h, "delete")
  /\ cache' = [cache EXCEPT ![thread[h].code] = "absent"]
  /\ Goto(h, "create device")
  /\ UNCHANGED <<client, rows, history, bounds>>

CreateDevice(h) ==
  /\ At(h, "create device")
  /\ devices' = [devices EXCEPT ![thread[h].code] = @ + 1]
  /\ Goto(h, "create key")
  /\ UNCHANGED <<cache, client, keys, history, bounds>>

\* As below, with the key not returned (a mutant).
CreateKeyOnly(h) ==
  /\ At(h, "create key")
  /\ keys' = [keys EXCEPT ![thread[h].code] = @ + 1]
  /\ Goto(h, "answer pending")
  /\ UNCHANGED <<cache, client, devices, history, bounds>>

CreateKey(h) ==
  /\ At(h, "create key")
  /\ keys' = [keys EXCEPT ![thread[h].code] = @ + 1]
  /\ Goto(h, "answer key")
  /\ UNCHANGED <<cache, client, devices, history, bounds>>

\* What the device makes of an answer.
Learns(c, answer) ==
  CASE answer = "answer key"     -> "linked"
    [] answer = "answer 404"     -> "refused"
    [] answer = "answer pending" -> "polling"

Answers == {"answer 404", "answer pending", "answer key"}

Answer(h) ==
  /\ thread[h].op \in Answers
  /\ LET c == thread[h].code
     IN  client' = IF thread[h].waiting
                   THEN [client EXCEPT ![c] = Learns(c, thread[h].op)]
                   ELSE client
  /\ End(h)
  /\ UNCHANGED <<cache, rows, history, bounds>>

-----------------------------------------------------------------------------
(* confirm_link, by a thread; faults *)

\* An administrator enters a code that a device displays.
Enter(c) ==
  /\ client[c] # "off"
  /\ entered < MaxConfirmations
  /\ entered' = entered + 1
  /\ \E h \in Threads :
       /\ At(h, "idle")
       /\ thread' = [thread EXCEPT ![h] = [op |-> "confirm", code |-> c, waiting |-> FALSE]]
  /\ UNCHANGED <<cache, client, rows, history, faults>>

ReadForConfirm(h) ==
  /\ At(h, "confirm")
  /\ IF cache[thread[h].code] = "absent" THEN End(h) ELSE Goto(h, "set linked")
  /\ UNCHANGED <<cache, client, rows, history, bounds>>

\* The entry is set whatever has become of it since it was read.
SetLinked(h) ==
  /\ At(h, "set linked")
  /\ cache' = [cache EXCEPT ![thread[h].code] = "linked"]
  /\ confirmed' = [confirmed EXCEPT ![thread[h].code] = @ + 1]
  /\ End(h)
  /\ UNCHANGED <<client, rows, abandoned, bounds>>

\* As below, with a timeout for confirmed codes only (a mutant).
ExpireLinked(c) ==
  /\ cache[c] = "linked"
  /\ cache' = [cache EXCEPT ![c] = "absent"]
  /\ UNCHANGED <<thread, client, rows, history, bounds>>

\* CACHE_TIMEOUT after the entry was set.
Expire(c) ==
  /\ cache[c] # "absent"
  /\ cache' = [cache EXCEPT ![c] = "absent"]
  /\ UNCHANGED <<thread, client, rows, history, bounds>>

\* _sitesettings_post_save
ClearCache ==
  /\ Faulty
  /\ cache' = [c \in Codes |-> "absent"]
  /\ UNCHANGED <<thread, client, rows, history, entered>>

\* The process dies; a device that waits gets an error and polls again.
ThreadDies(h) ==
  /\ ~At(h, "idle")
  /\ Faulty
  /\ abandoned' = IF thread[h].waiting
                  THEN [abandoned EXCEPT ![thread[h].code] = @ + 1] ELSE abandoned
  /\ End(h)
  /\ UNCHANGED <<cache, client, rows, confirmed, entered>>

-----------------------------------------------------------------------------

Step(h) ==
  \/ ReadStatus(h) \/ DeleteCode(h) \/ CreateDevice(h) \/ CreateKey(h)
  \/ Answer(h)
  \/ ReadForConfirm(h) \/ SetLinked(h)

Next ==
  \/ \E c \in Codes : Start(c) \/ Poll(c) \/ GiveUp(c) \/ Enter(c) \/ Expire(c)
  \/ \E h \in Threads : Step(h) \/ ThreadDies(h)
  \/ ClearCache

\* Threads work, entries expire, a device polls on.  Nobody need confirm anything.
Fairness ==
  /\ \A h \in Threads : WF_vars(Step(h))
  /\ \A c \in Codes : WF_vars(Expire(c)) /\ SF_vars(Poll(c))

Spec == Init /\ [][Next]_vars /\ Fairness

-----------------------------------------------------------------------------
(* Properties *)

Ops == {"poll", "delete", "create device", "create key", "confirm", "set linked"} \cup Answers

TypeOK ==
  /\ cache \in [Codes -> {"absent", "pending", "linked"}]
  /\ thread \in [Threads -> {Idle} \cup [op : Ops, code : Codes, waiting : BOOLEAN]]
  /\ client \in [Codes -> {"off", "polling", "linked", "refused"}]
  /\ devices \in [Codes -> Nat] /\ keys \in [Codes -> Nat]
  /\ confirmed \in [Codes -> Nat] /\ abandoned \in [Codes -> Nat]
  /\ entered \in 0 .. MaxConfirmations /\ faults \in 0 .. MaxFaults

\* There are no more devices for a code than times it was confirmed, plus polls that
\* the device did not see the end of, and one less while the code is good for another:
\* one confirmation and a device that waits for its answers make one Device, however
\* polls, confirmation and expiry interleave.  A code that nobody confirmed makes none
\* at all, and no key comes without its device.
DevicesAreAccountedFor ==
  \A c \in Codes :
    /\ keys[c] <= devices[c]
    /\ devices[c] <= confirmed[c] + abandoned[c]
    /\ cache[c] = "linked" => devices[c] < confirmed[c] + abandoned[c]
    /\ confirmed[c] = 0 => devices[c] = 0

\* A device that is told "expired" has no Device row: the server has made one for it only
\* if an answer was not heard, because the device had stopped waiting for it or because the
\* thread at work on it died.
RefusedMeansNoDevice ==
  \A c \in Codes : client[c] = "refused" /\ abandoned[c] = 0 => devices[c] = 0

\* Every device stops polling in the end, with a key or with a refusal: codes expire,
\* and a confirmation that brings one back does so only once.
PollingEnds == \A c \in Codes : client[c] = "polling" ~> client[c] # "polling"

=============================================================================
