--------------------------- MODULE Runner_proofs ---------------------------
(***************************************************************************)
(* NoneLeftBehind, for any number of commands and signals.                 *)
(*                                                                         *)
(* Only the lowest frame of the stack is the program: those above it are   *)
(* handlers, which kill and wait.  The lowest frame says which commands    *)
(* are recorded and which are launched; a frame that waits has seen the    *)
(* end of what it has passed.  The second survives because commands are    *)
(* recorded by the lowest frame only, and not while another is above it.   *)
(***************************************************************************)
EXTENDS Runner, TLAPS

\* Frames that are at a command have one.  In these three w stands for watched and p
\* for proc, before or after a step.
Fits(f, w) ==
  /\ f.do \in {"record", "poll!"} => f.c <= NumCommands
  /\ f.do = "wait!" => f.c \in w

\* What a waiting frame has passed is reaped.
Passed(f, w, p) ==
  f.do \in {"wait", "wait!"} => \A c \in w : c < f.c => p[c] = "reaped"

\* What the lowest frame has launched and recorded.
Launched(f, w, p) ==
  /\ f.do = "launch" => /\ w = {c \in Commands : c < f.c}
                        /\ \A c \in Commands : c >= f.c => p[c] = "none"
  /\ f.do = "record" => /\ w = {c \in Commands : c < f.c}
                        /\ \A c \in Commands : c > f.c => p[c] = "none"
  /\ f.do \notin {"launch", "record"} => w = Commands

HandlerDoings == {"kill", "wait", "wait!"}

FramesInv ==
  /\ \A i \in 1 .. Len(activity) : Fits(activity[i], watched) /\ Passed(activity[i], watched, proc)
  /\ \A i \in 1 .. Len(activity) : i < Len(activity) => activity[i].do \in HandlerDoings
  /\ activity # <<>> => Launched(activity[Len(activity)], watched, proc)

RunnerInv ==
  /\ TypeOK
  /\ FramesInv
  /\ outcome = "stopped" => activity = <<>>
  /\ NoneLeftBehind

-----------------------------------------------------------------------------

\* Of two kinds of stack: the program alone, or with handlers on top.
LEMMA OneOrMore == ~(1 > 1) /\ \A n \in Nat : n >= 1 => n = 1 \/ n > 1
OBVIOUS

\* Work replaces the topmost frame and no other.
LEMMA TopIsReplaced ==
  ASSUME activity \in Seq(FrameType), activity # <<>>, NEW f \in FrameType, Becomes(f)
  PROVE  /\ activity' \in Seq(FrameType)
         /\ activity' # <<>>
         /\ Len(activity') = Len(activity)
         /\ activity'[1] = f
         /\ \A i \in 2 .. Len(activity) : activity'[i] = activity[i]
<1>1. Len(activity) \in Nat /\ Len(activity) >= 1
  OBVIOUS
<1>2. /\ Tail(activity) \in Seq(FrameType)
      /\ Len(Tail(activity)) = Len(activity) - 1
      /\ \A i \in 1 .. Len(activity) - 1 : Tail(activity)[i] = activity[i + 1]
  BY <1>1
<1> DEFINE rest == Tail(activity)
<1> HIDE DEF rest
<1>3. /\ rest \in Seq(FrameType)
      /\ Len(rest) = Len(activity) - 1
      /\ \A i \in 1 .. Len(activity) - 1 : rest[i] = activity[i + 1]
  BY <1>2 DEF rest
<1>4. activity' = <<f>> \o rest
  BY DEF Becomes, rest
<1>5. activity' \in Seq(FrameType) /\ Len(activity') = Len(activity)
  BY <1>1, <1>3, <1>4
<1>6. activity'[1] = f
  BY <1>1, <1>3, <1>4
<1>7. ASSUME NEW i \in 2 .. Len(activity)
      PROVE  activity'[i] = activity[i]
  <2>1. activity'[i] = rest[i - 1]
    BY <1>1, <1>3, <1>4
  <2>2. rest[i - 1] = activity[(i - 1) + 1]
    BY <1>1, <1>3
  <2> QED
    BY <1>1, <2>1, <2>2
<1> QED
  BY <1>1, <1>5, <1>6, <1>7

\* A signal puts a frame on top.
LEMMA FrameIsPushed ==
  ASSUME activity \in Seq(FrameType), NEW f \in FrameType, activity' = <<f>> \o activity
  PROVE  /\ activity' \in Seq(FrameType)
         /\ activity' # <<>>
         /\ Len(activity') = Len(activity) + 1
         /\ activity'[1] = f
         /\ \A i \in 1 .. Len(activity) : activity'[i + 1] = activity[i]
<1>1. activity' \in Seq(FrameType) /\ Len(activity') = Len(activity) + 1 /\ activity'[1] = f
  OBVIOUS
<1>2. \A i \in 1 .. Len(activity) : activity'[i + 1] = activity[i]
  OBVIOUS
<1> QED
  BY <1>1, <1>2

-----------------------------------------------------------------------------

\* The runner begins with one frame that is to launch the first command.
LEMMA InitInv == Init => RunnerInv
<1> SUFFICES ASSUME Init
             PROVE  RunnerInv
  OBVIOUS
<1> DEFINE f == Frame("launch", FALSE)
<1>1. f \in FrameType /\ activity = <<f>>
  BY RunnerAssumption DEF Init, Frame, FrameType, Doings
<1>0. /\ f.do = "launch" /\ f.c = 1
      /\ proc = [c \in Commands |-> "none"] /\ watched = {} /\ told = {}
      /\ outcome = "running" /\ signals = 0
  BY DEF Init, Frame
<1> HIDE DEF f
<1>2. /\ Len(activity) = 1 /\ activity \in Seq(FrameType) /\ activity[1] = f
      /\ \A i \in 1 .. Len(activity) : activity[i] = f
  BY <1>1
<1>3. TypeOK
  BY <1>0, <1>2, RunnerAssumption DEF TypeOK, Commands
<1>4. Fits(f, watched) /\ Passed(f, watched, proc) /\ Launched(f, watched, proc)
  BY <1>0, RunnerAssumption DEF Fits, Passed, Launched, Commands
<1>5. FramesInv
  BY <1>2, <1>4 DEF FramesInv
<1> QED
  BY <1>0, <1>3, <1>5 DEF RunnerInv, NoneLeftBehind

\* A step of the topmost frame keeps the invariant if the new frame is in order and,
\* when there are frames below, they find what they knew.
LEMMA TopStepInv ==
  ASSUME RunnerInv, activity # <<>>, NEW f \in FrameType, Becomes(f),
         proc' \in [Commands -> {"none", "running", "exited", "gone", "reaped"}],
         watched' \in SUBSET Commands, told' \in SUBSET watched',
         UNCHANGED <<outcome, signals>>,
         Fits(f, watched'), Passed(f, watched', proc'),
         Len(activity) = 1 => Launched(f, watched', proc'),
         Len(activity) > 1 =>
           /\ f.do \in HandlerDoings
           /\ watched' = watched
           /\ \A c \in Commands : proc[c] = "reaped" => proc'[c] = "reaped"
           /\ \A c \in Commands \ watched : proc[c] = "none" => proc'[c] = "none"
  PROVE  RunnerInv'
<1>1. TypeOK /\ FramesInv /\ outcome # "stopped"
  BY DEF RunnerInv
<1>2. activity \in Seq(FrameType)
  BY <1>1 DEF TypeOK
<1>3. /\ activity' \in Seq(FrameType)
      /\ activity' # <<>>
      /\ Len(activity') = Len(activity)
      /\ activity'[1] = f
      /\ \A i \in 2 .. Len(activity) : activity'[i] = activity[i]
  BY <1>2, TopIsReplaced
<1>4. Len(activity) \in Nat /\ Len(activity) >= 1
  BY <1>2
<1>5. TypeOK'
  BY <1>1, <1>3 DEF TypeOK
<1>6. ASSUME NEW i \in 1 .. Len(activity')
      PROVE  /\ Fits(activity'[i], watched') /\ Passed(activity'[i], watched', proc')
             /\ i < Len(activity') => activity'[i].do \in HandlerDoings
  <2>1. CASE i = 1
    <3>1. activity'[i] = f
      BY <1>3, <2>1
    <3>2. Fits(activity'[i], watched') /\ Passed(activity'[i], watched', proc')
      BY <3>1 DEF Fits, Passed
    <3> QED
      BY <1>3, <1>4, <2>1, <3>1, <3>2
  <2>2. CASE i # 1
    <3>1. i \in 2 .. Len(activity) /\ Len(activity) > 1 /\ activity'[i] = activity[i]
      BY <1>3, <1>4, <2>2
    <3>2. /\ Fits(activity[i], watched) /\ Passed(activity[i], watched, proc)
          /\ i < Len(activity) => activity[i].do \in HandlerDoings
      BY <1>1, <3>1 DEF FramesInv
    <3>3. watched \in SUBSET Commands
      BY <1>1 DEF TypeOK
    <3>4. Fits(activity'[i], watched')
      BY <3>1, <3>2 DEF Fits
    <3>5. Passed(activity'[i], watched', proc')
      BY <3>1, <3>2, <3>3 DEF Passed
    <3> QED
      BY <1>3, <3>1, <3>2, <3>4, <3>5
  <2> QED
    BY <2>1, <2>2
<1>7. Launched(activity'[Len(activity')], watched', proc')
  <2>1. CASE Len(activity) = 1
    BY <1>3, <2>1 DEF Launched
  <2>2. CASE Len(activity) > 1
    <3> DEFINE b == activity[Len(activity)]
    <3>1. Len(activity) \in 2 .. Len(activity)
      BY <1>4, <2>2
    <3>2. activity'[Len(activity')] = b
      BY <1>3, <3>1
    <3>3. Launched(b, watched, proc)
      BY <1>1 DEF FramesInv
    <3>4. b.c \in Nat
      <4>1. b \in FrameType
        BY <1>2, <1>4
      <4> QED
        BY <4>1, RunnerAssumption DEF FrameType
    <3> HIDE DEF b
    <3>5. /\ watched' = watched
          /\ \A c \in Commands \ watched : proc[c] = "none" => proc'[c] = "none"
      BY <2>2
    <3>6. b.do = "launch" => \A c \in Commands : c >= b.c => proc'[c] = "none"
      BY <3>3, <3>4, <3>5, RunnerAssumption DEF Launched, Commands
    <3>7. b.do = "record" => \A c \in Commands : c > b.c => proc'[c] = "none"
      BY <3>3, <3>4, <3>5, RunnerAssumption DEF Launched, Commands
    <3> QED
      BY <3>2, <3>3, <3>5, <3>6, <3>7 DEF Launched
  <2>3. Len(activity) = 1 \/ Len(activity) > 1
    BY <1>4, OneOrMore, Zenon
  <2> QED
    BY <2>1, <2>2, <2>3, Zenon
<1>8. FramesInv'
  BY <1>6, <1>7 DEF FramesInv
<1> QED
  BY <1>1, <1>5, <1>8 DEF RunnerInv, NoneLeftBehind

\* The same for a frame that is alone.
LEMMA LoneStepInv ==
  ASSUME RunnerInv, activity # <<>>, Len(activity) = 1, NEW f \in FrameType, Becomes(f),
         proc' \in [Commands -> {"none", "running", "exited", "gone", "reaped"}],
         watched' \in SUBSET Commands, told' \in SUBSET watched',
         UNCHANGED <<outcome, signals>>,
         Fits(f, watched'), Passed(f, watched', proc'), Launched(f, watched', proc')
  PROVE  RunnerInv'
<1>1. ~(Len(activity) > 1)
  BY OneOrMore, Zenon
<1> QED
  BY <1>1, TopStepInv, Zenon

-----------------------------------------------------------------------------
(* Each step keeps the invariant *)

\* What the invariant says of the topmost frame.
LEMMA TopInOrder ==
  ASSUME RunnerInv, activity # <<>>
  PROVE  /\ activity \in Seq(FrameType) /\ Len(activity) \in Nat /\ Len(activity) >= 1
         /\ Top \in FrameType /\ Top = activity[1]
         /\ Fits(Top, watched) /\ Passed(Top, watched, proc)
         /\ Len(activity) > 1 => Top.do \in HandlerDoings
         /\ Len(activity) = 1 => Launched(Top, watched, proc)
         /\ outcome # "stopped"
<1>1. activity \in Seq(FrameType) /\ outcome # "stopped" /\ FramesInv
  BY DEF RunnerInv, TypeOK
<1>2. Len(activity) \in Nat /\ Len(activity) >= 1 /\ Top = activity[1]
  BY <1>1 DEF Top
<1>3. Top \in FrameType
  BY <1>1, <1>2
<1>4. Fits(Top, watched) /\ Passed(Top, watched, proc) /\ (Len(activity) > 1 => Top.do \in HandlerDoings)
  BY <1>1, <1>2 DEF FramesInv
<1>5. Len(activity) = 1 => Launched(Top, watched, proc)
  BY <1>1, <1>2 DEF FramesInv
<1> QED
  BY <1>1, <1>2, <1>3, <1>4, <1>5

LEMMA LaunchInv == RunnerInv /\ Launch => RunnerInv'
<1> SUFFICES ASSUME RunnerInv, Launch
             PROVE  RunnerInv'
  OBVIOUS
<1>1. activity # <<>> /\ Top.do = "launch"
  BY DEF Launch, Doing
<1>2. /\ Top \in FrameType /\ Len(activity) \in Nat /\ Len(activity) >= 1
      /\ Len(activity) > 1 => Top.do \in HandlerDoings
      /\ Len(activity) = 1 => Launched(Top, watched, proc)
  BY <1>1, TopInOrder
<1>3. Len(activity) = 1 /\ Launched(Top, watched, proc)
  <2>1. Top.do \notin HandlerDoings
    BY <1>1 DEF HandlerDoings
  <2> QED
    BY <1>2, <2>1, OneOrMore, Zenon
<1>4. /\ proc \in [Commands -> {"none", "running", "exited", "gone", "reaped"}]
      /\ watched \in SUBSET Commands /\ told \in SUBSET watched
  BY DEF RunnerInv, TypeOK
<1>5. CASE More
  <2> DEFINE f == [Top EXCEPT !.do = "record"]
  <2>1. /\ proc' = [proc EXCEPT ![Top.c] = "running"] /\ Becomes(f)
        /\ UNCHANGED <<watched, told, outcome, signals>>
    BY <1>5 DEF Launch
  <2>2. f \in FrameType /\ f.do = "record" /\ f.c = Top.c
    BY <1>2 DEF FrameType, Doings
  <2>3. Top.c \in Commands /\ Top.c <= NumCommands
    BY <1>2, <1>5, RunnerAssumption DEF More, FrameType, Commands
  <2> HIDE DEF f
  <2>4. proc' \in [Commands -> {"none", "running", "exited", "gone", "reaped"}]
    BY <1>4, <2>1, <2>3
  <2>5. Fits(f, watched') /\ Passed(f, watched', proc')
    BY <2>2, <2>3 DEF Fits, Passed
  <2>6. Launched(f, watched', proc')
    BY <1>1, <1>3, <1>4, <2>1, <2>2, <2>3, RunnerAssumption
       DEF Launched, Commands
  <2>7. watched' \in SUBSET Commands /\ told' \in SUBSET watched'
    BY <1>4, <2>1
  <2>8. UNCHANGED <<outcome, signals>>
    BY <2>1
  <2> QED
    BY <1>1, <1>3, <2>1, <2>2, <2>4, <2>5, <2>6, <2>7, <2>8, LoneStepInv, Zenon
<1>6. CASE ~More
  <2> DEFINE f == Frame("poll", FALSE)
  <2>1. Becomes(f) /\ UNCHANGED <<proc, watched, told, outcome, signals>>
    BY <1>6 DEF Launch
  <2>2. f \in FrameType /\ f.do = "poll"
    BY RunnerAssumption DEF Frame, FrameType, Doings
  <2>3. Top.c = NumCommands + 1
    BY <1>2, <1>6, RunnerAssumption DEF More, FrameType
  <2> HIDE DEF f
  <2>4. Fits(f, watched') /\ Passed(f, watched', proc')
    BY <2>2 DEF Fits, Passed
  <2>5. watched = Commands
    <3>1. watched = {c \in Commands : c < Top.c}
      BY <1>1, <1>3 DEF Launched
    <3>2. \A c \in Commands : c < Top.c
      BY <2>3, RunnerAssumption DEF Commands
    <3> QED
      BY <3>1, <3>2
  <2>6. Launched(f, watched', proc')
    BY <2>1, <2>2, <2>5 DEF Launched
  <2>7. /\ proc' \in [Commands -> {"none", "running", "exited", "gone", "reaped"}]
        /\ watched' \in SUBSET Commands /\ told' \in SUBSET watched'
        /\ UNCHANGED <<outcome, signals>>
    BY <1>4, <2>1
  <2> QED
    BY <1>1, <1>3, <2>1, <2>2, <2>4, <2>6, <2>7, LoneStepInv, Zenon
<1> QED
  BY <1>5, <1>6

LEMMA RecordInv == RunnerInv /\ Record => RunnerInv'
<1> SUFFICES ASSUME RunnerInv, Record
             PROVE  RunnerInv'
  OBVIOUS
<1> DEFINE f == [Top EXCEPT !.do = "launch", !.c = @ + 1]
<1>1. /\ activity # <<>> /\ Top.do = "record" /\ Becomes(f)
      /\ watched' = watched \cup {Top.c}
      /\ UNCHANGED <<proc, told, outcome, signals>>
  BY DEF Record, Doing
<1>2. /\ Top \in FrameType /\ Len(activity) \in Nat /\ Len(activity) >= 1 /\ Fits(Top, watched)
      /\ Len(activity) > 1 => Top.do \in HandlerDoings
      /\ Len(activity) = 1 => Launched(Top, watched, proc)
  BY <1>1, TopInOrder
<1>3. Len(activity) = 1 /\ Launched(Top, watched, proc)
  <2>1. Top.do \notin HandlerDoings
    BY <1>1 DEF HandlerDoings
  <2> QED
    BY <1>2, <2>1, OneOrMore, Zenon
<1>4. /\ proc \in [Commands -> {"none", "running", "exited", "gone", "reaped"}]
      /\ watched \in SUBSET Commands /\ told \in SUBSET watched
  BY DEF RunnerInv, TypeOK
<1>5. Top.c \in Commands
  BY <1>1, <1>2, RunnerAssumption DEF Fits, FrameType, Commands
<1>6. f \in FrameType /\ f.do = "launch" /\ f.c = Top.c + 1
  <2>1. Top.c + 1 \in 1 .. NumCommands + 1
    BY <1>5, RunnerAssumption DEF Commands
  <2> DEFINE next == Top.c + 1
  <2> HIDE DEF next
  <2>2. [Top EXCEPT !.do = "launch", !.c = next] \in FrameType
    BY <1>2, <2>1 DEF FrameType, Doings, next
  <2>3. /\ [Top EXCEPT !.do = "launch", !.c = next].do = "launch"
        /\ [Top EXCEPT !.do = "launch", !.c = next].c = next
    BY <1>2 DEF FrameType
  <2> QED
    BY <2>2, <2>3 DEF next
<1> HIDE DEF f
<1>7. Fits(f, watched') /\ Passed(f, watched', proc')
  BY <1>6 DEF Fits, Passed
<1>8. Launched(f, watched', proc')
  BY <1>1, <1>3, <1>5, <1>6, RunnerAssumption DEF Launched, Commands
<1>9. /\ proc' \in [Commands -> {"none", "running", "exited", "gone", "reaped"}]
      /\ watched' \in SUBSET Commands /\ told' \in SUBSET watched'
      /\ UNCHANGED <<outcome, signals>>
  BY <1>1, <1>4, <1>5
<1> QED
  BY <1>1, <1>3, <1>6, <1>7, <1>8, <1>9, LoneStepInv, Zenon

LEMMA PollInv == RunnerInv /\ Poll => RunnerInv'
<1> SUFFICES ASSUME RunnerInv, Poll
             PROVE  RunnerInv'
  OBVIOUS
<1> DEFINE f == IF ~More THEN Frame(IF Top.abort THEN "kill" ELSE "poll", FALSE)
                ELSE IF proc[Top.c] = "reaped" THEN [Top EXCEPT !.c = @ + 1, !.abort = TRUE]
                ELSE [Top EXCEPT !.do = "poll!"]
<1>1. /\ activity # <<>> /\ Top.do = "poll" /\ Becomes(f)
      /\ UNCHANGED <<proc, watched, told, outcome, signals>>
  BY DEF Poll, Doing
<1>2. /\ Top \in FrameType /\ Len(activity) \in Nat /\ Len(activity) >= 1
      /\ Len(activity) > 1 => Top.do \in HandlerDoings
      /\ Len(activity) = 1 => Launched(Top, watched, proc)
  BY <1>1, TopInOrder
<1>3. Len(activity) = 1 /\ Launched(Top, watched, proc)
  <2>1. Top.do \notin HandlerDoings
    BY <1>1 DEF HandlerDoings
  <2> QED
    BY <1>2, <2>1, OneOrMore, Zenon
<1>4. /\ proc \in [Commands -> {"none", "running", "exited", "gone", "reaped"}]
      /\ watched \in SUBSET Commands /\ told \in SUBSET watched
  BY DEF RunnerInv, TypeOK
<1>5. /\ f \in FrameType /\ f.do \in {"poll!", "kill", "poll"}
      /\ f.do = "poll!" => f.c <= NumCommands
  <2>1. CASE ~More
    BY <1>2, <2>1, RunnerAssumption DEF Frame, FrameType, Doings
  <2>2. CASE More /\ proc[Top.c] = "reaped"
    <3> DEFINE next == Top.c + 1
    <3>1. next \in 1 .. NumCommands + 1
      BY <1>2, <2>2, RunnerAssumption DEF More, FrameType
    <3> HIDE DEF next
    <3>2. /\ [Top EXCEPT !.c = next, !.abort = TRUE] \in FrameType
          /\ [Top EXCEPT !.c = next, !.abort = TRUE].do = "poll"
      BY <1>1, <1>2, <3>1 DEF FrameType
    <3> QED
      BY <2>2, <3>2 DEF next
  <2>3. CASE More /\ proc[Top.c] # "reaped"
    BY <1>2, <2>3, RunnerAssumption DEF More, FrameType, Doings
  <2> QED
    BY <2>1, <2>2, <2>3
<1> HIDE DEF f
<1>7. Fits(f, watched') /\ Passed(f, watched', proc')
  BY <1>5 DEF Fits, Passed
<1>8. Launched(f, watched', proc')
  BY <1>1, <1>3, <1>5 DEF Launched
<1>9. /\ proc' \in [Commands -> {"none", "running", "exited", "gone", "reaped"}]
      /\ watched' \in SUBSET Commands /\ told' \in SUBSET watched'
      /\ UNCHANGED <<outcome, signals>>
  BY <1>1, <1>4
<1> QED
  BY <1>1, <1>3, <1>5, <1>7, <1>8, <1>9, LoneStepInv, Zenon

\* Under poll everything is watched, so that what is seen dead is no news to launch.
LEMMA PolledInv == RunnerInv /\ Polled => RunnerInv'
<1> SUFFICES ASSUME RunnerInv, Polled
             PROVE  RunnerInv'
  OBVIOUS
<1> DEFINE dead == proc[Top.c] # "running"
           f == [Top EXCEPT !.do = "poll", !.c = @ + 1, !.abort = @ \/ dead]
<1>1. /\ activity # <<>> /\ Top.do = "poll!" /\ Becomes(f)
      /\ proc' = IF dead THEN [proc EXCEPT ![Top.c] = "reaped"] ELSE proc
      /\ UNCHANGED <<watched, told, outcome, signals>>
  BY DEF Polled, Doing
<1> HIDE DEF dead
<1>2. /\ Top \in FrameType /\ Len(activity) \in Nat /\ Len(activity) >= 1 /\ Fits(Top, watched)
      /\ Len(activity) > 1 => Top.do \in HandlerDoings
      /\ Len(activity) = 1 => Launched(Top, watched, proc)
  BY <1>1, TopInOrder
<1>3. Len(activity) = 1 /\ Launched(Top, watched, proc)
  <2>1. Top.do \notin HandlerDoings
    BY <1>1 DEF HandlerDoings
  <2> QED
    BY <1>2, <2>1, OneOrMore, Zenon
<1>4. /\ proc \in [Commands -> {"none", "running", "exited", "gone", "reaped"}]
      /\ watched \in SUBSET Commands /\ told \in SUBSET watched
  BY DEF RunnerInv, TypeOK
<1>5. Top.c \in Commands
  BY <1>1, <1>2, RunnerAssumption DEF Fits, FrameType, Commands
<1>6. f \in FrameType /\ f.do = "poll"
  <2>1. Top.c + 1 \in 1 .. NumCommands + 1
    BY <1>5, RunnerAssumption DEF Commands
  <2> DEFINE next == Top.c + 1
             over == Top.abort \/ dead
  <2>2. over \in BOOLEAN
    BY <1>2 DEF FrameType
  <2> HIDE DEF next, over
  <2>3. [Top EXCEPT !.do = "poll", !.c = next, !.abort = over] \in FrameType
    BY <1>2, <2>1, <2>2 DEF FrameType, Doings, next
  <2>4. [Top EXCEPT !.do = "poll", !.c = next, !.abort = over].do = "poll"
    BY <1>2 DEF FrameType
  <2> QED
    BY <2>3, <2>4 DEF next, over
<1> HIDE DEF f
<1>7. Fits(f, watched') /\ Passed(f, watched', proc')
  BY <1>6 DEF Fits, Passed
<1>8. Launched(f, watched', proc')
  BY <1>1, <1>3, <1>6 DEF Launched
<1>9. /\ proc' \in [Commands -> {"none", "running", "exited", "gone", "reaped"}]
      /\ watched' \in SUBSET Commands /\ told' \in SUBSET watched'
      /\ UNCHANGED <<outcome, signals>>
  BY <1>1, <1>4, <1>5
<1> QED
  BY <1>1, <1>3, <1>6, <1>7, <1>8, <1>9, LoneStepInv, Zenon

\* Sending a signal changes nothing but who was told.
LEMMA KillInv == RunnerInv /\ Kill => RunnerInv'
<1> SUFFICES ASSUME RunnerInv, Kill
             PROVE  RunnerInv'
  OBVIOUS
<1>1. activity # <<>> /\ Top.do = "kill" /\ UNCHANGED <<proc, watched, outcome, signals>>
  BY DEF Kill, Doing
<1>2. Top \in FrameType /\ (Len(activity) = 1 => Launched(Top, watched, proc))
  BY <1>1, TopInOrder
<1>3. /\ proc \in [Commands -> {"none", "running", "exited", "gone", "reaped"}]
      /\ watched \in SUBSET Commands /\ told \in SUBSET watched
  BY DEF RunnerInv, TypeOK
<1>4. PICK f \in FrameType :
        /\ Becomes(f)
        /\ f.do = "kill" \/ (f.do = "wait" /\ f.c = 1)
  <2>1. CASE More
    <3> DEFINE next == Top.c + 1
    <3>1. next \in 1 .. NumCommands + 1
      BY <1>2, <2>1, RunnerAssumption DEF More, FrameType
    <3> HIDE DEF next
    <3>2. /\ [Top EXCEPT !.c = next] \in FrameType
          /\ [Top EXCEPT !.c = next].do = "kill"
      BY <1>1, <1>2, <3>1 DEF FrameType
    <3>3. Becomes([Top EXCEPT !.c = next])
      BY <2>1 DEF Kill, NextCommand, next
    <3> QED
      BY <3>2, <3>3
  <2>2. CASE ~More
    <3>1. Becomes(Frame("wait", Top.handler))
      BY <2>2 DEF Kill
    <3>2. /\ Frame("wait", Top.handler) \in FrameType
          /\ Frame("wait", Top.handler).do = "wait" /\ Frame("wait", Top.handler).c = 1
      BY <1>2, RunnerAssumption DEF Frame, FrameType, Doings
    <3> QED
      BY <3>1, <3>2
  <2> QED
    BY <2>1, <2>2
<1>5. Fits(f, watched') /\ f.do \in HandlerDoings
  BY <1>4 DEF Fits, HandlerDoings
<1>6. Passed(f, watched', proc')
  BY <1>1, <1>3, <1>4, RunnerAssumption DEF Passed, Commands
<1>7. Len(activity) = 1 => Launched(f, watched', proc')
  <2>1. Launched(Top, watched, proc) => watched = Commands
    BY <1>1 DEF Launched
  <2>2. watched = Commands => Launched(f, watched', proc')
    BY <1>1, <1>4 DEF Launched
  <2> QED
    BY <1>2, <2>1, <2>2, Zenon
<1>8. told' \in SUBSET watched'
  BY <1>1, <1>3 DEF Kill
<1>9. /\ proc' \in [Commands -> {"none", "running", "exited", "gone", "reaped"}]
      /\ watched' \in SUBSET Commands /\ watched' = watched
      /\ UNCHANGED <<outcome, signals>>
      /\ \A c \in Commands : proc[c] = "reaped" => proc'[c] = "reaped"
      /\ \A c \in Commands \ watched : proc[c] = "none" => proc'[c] = "none"
  BY <1>1, <1>3
<1> QED
  BY <1>1, <1>4, <1>5, <1>6, <1>7, <1>8, <1>9, TopStepInv, Zenon

\* A command is passed when it is not watched or reaped.
LEMMA WaitInv == RunnerInv /\ Wait => RunnerInv'
<1> SUFFICES ASSUME RunnerInv, Wait
             PROVE  RunnerInv'
  OBVIOUS
<1>1. /\ activity # <<>> /\ Top.do = "wait" /\ More
      /\ UNCHANGED <<proc, watched, told, outcome, signals>>
  BY DEF Wait, Doing
<1>2. /\ Top \in FrameType /\ Passed(Top, watched, proc)
      /\ Len(activity) = 1 => Launched(Top, watched, proc)
  BY <1>1, TopInOrder
<1>3. /\ proc \in [Commands -> {"none", "running", "exited", "gone", "reaped"}]
      /\ watched \in SUBSET Commands /\ told \in SUBSET watched
  BY DEF RunnerInv, TypeOK
<1>4. PICK f \in FrameType :
        /\ Becomes(f)
        /\ \/ f.do = "wait" /\ f.c = Top.c + 1 /\ (Top.c \notin watched \/ proc[Top.c] = "reaped")
           \/ f.do = "wait!" /\ f.c = Top.c /\ Top.c \in watched
  <2>1. CASE Top.c \notin watched \/ proc[Top.c] = "reaped"
    <3> DEFINE next == Top.c + 1
    <3>1. next \in 1 .. NumCommands + 1
      BY <1>1, <1>2, RunnerAssumption DEF More, FrameType
    <3> HIDE DEF next
    <3>2. /\ [Top EXCEPT !.c = next] \in FrameType
          /\ [Top EXCEPT !.c = next].do = "wait" /\ [Top EXCEPT !.c = next].c = next
      BY <1>1, <1>2, <3>1 DEF FrameType
    <3>3. Becomes([Top EXCEPT !.c = next])
      BY <2>1 DEF Wait, NextCommand, next
    <3> QED
      BY <2>1, <3>2, <3>3 DEF next
  <2>2. CASE ~(Top.c \notin watched \/ proc[Top.c] = "reaped")
    <3>1. Becomes([Top EXCEPT !.do = "wait!"])
      BY <2>2 DEF Wait
    <3>2. /\ [Top EXCEPT !.do = "wait!"] \in FrameType
          /\ [Top EXCEPT !.do = "wait!"].do = "wait!" /\ [Top EXCEPT !.do = "wait!"].c = Top.c
      BY <1>2 DEF FrameType, Doings
    <3> QED
      BY <2>2, <3>1, <3>2
  <2> QED
    BY <2>1, <2>2
<1>5. Fits(f, watched') /\ f.do \in HandlerDoings
  BY <1>1, <1>4 DEF Fits, HandlerDoings
<1>6. Passed(f, watched', proc')
  <2> SUFFICES ASSUME NEW c \in watched, c < f.c
               PROVE  proc[c] = "reaped"
    BY <1>1 DEF Passed
  <2>1. c \in Nat /\ Top.c \in Nat
    BY <1>2, <1>3, RunnerAssumption DEF Commands, FrameType
  <2>2. c < Top.c => proc[c] = "reaped"
    BY <1>1, <1>2 DEF Passed
  <2>3. CASE c < Top.c
    BY <2>2, <2>3
  <2>4. CASE ~(c < Top.c)
    <3>1. f.c = Top.c + 1 /\ (Top.c \notin watched \/ proc[Top.c] = "reaped")
      BY <1>4, <2>4
    <3>2. c = Top.c
      BY <2>1, <2>4, <3>1
    <3> QED
      BY <3>1, <3>2
  <2> QED
    BY <2>3, <2>4
<1>7. Len(activity) = 1 => Launched(f, watched', proc')
  <2>1. Launched(Top, watched, proc) => watched = Commands
    BY <1>1 DEF Launched
  <2>2. watched = Commands => Launched(f, watched', proc')
    BY <1>1, <1>4 DEF Launched
  <2> QED
    BY <1>2, <2>1, <2>2, Zenon
<1>8. /\ proc' \in [Commands -> {"none", "running", "exited", "gone", "reaped"}]
      /\ watched' \in SUBSET Commands /\ watched' = watched /\ told' \in SUBSET watched'
      /\ UNCHANGED <<outcome, signals>>
      /\ \A c \in Commands : proc[c] = "reaped" => proc'[c] = "reaped"
      /\ \A c \in Commands \ watched : proc[c] = "none" => proc'[c] = "none"
  BY <1>1, <1>3
<1> QED
  BY <1>1, <1>4, <1>5, <1>6, <1>7, <1>8, TopStepInv, Zenon

\* The process it waited for is reaped, and is a watched one.
LEMMA WaitedInv == RunnerInv /\ Waited => RunnerInv'
<1> SUFFICES ASSUME RunnerInv, Waited
             PROVE  RunnerInv'
  OBVIOUS
<1>1. /\ activity # <<>> /\ Top.do = "wait!"
      /\ proc' = [proc EXCEPT ![Top.c] = "reaped"]
      /\ UNCHANGED <<watched, told, outcome, signals>>
  BY DEF Waited, Doing
<1>2. /\ Top \in FrameType /\ Passed(Top, watched, proc) /\ Fits(Top, watched)
      /\ Len(activity) = 1 => Launched(Top, watched, proc)
  BY <1>1, TopInOrder
<1>3. /\ proc \in [Commands -> {"none", "running", "exited", "gone", "reaped"}]
      /\ watched \in SUBSET Commands /\ told \in SUBSET watched
  BY DEF RunnerInv, TypeOK
<1>4. Top.c \in watched /\ Top.c \in Commands
  BY <1>1, <1>2, <1>3 DEF Fits
<1>5. PICK f \in FrameType : Becomes(f) /\ f.do = "wait" /\ f.c = Top.c + 1
  <2> DEFINE next == Top.c + 1
  <2>1. next \in 1 .. NumCommands + 1
    BY <1>4, RunnerAssumption DEF Commands
  <2> HIDE DEF next
  <2>2. /\ [Top EXCEPT !.do = "wait", !.c = next] \in FrameType
        /\ [Top EXCEPT !.do = "wait", !.c = next].do = "wait"
        /\ [Top EXCEPT !.do = "wait", !.c = next].c = next
    BY <1>2, <2>1 DEF FrameType, Doings
  <2>3. Becomes([Top EXCEPT !.do = "wait", !.c = next])
    BY DEF Waited, next
  <2> QED
    BY <2>2, <2>3 DEF next
<1>6. Fits(f, watched') /\ f.do \in HandlerDoings
  BY <1>5 DEF Fits, HandlerDoings
<1>7. Passed(f, watched', proc')
  <2> SUFFICES ASSUME NEW c \in watched, c < f.c
               PROVE  proc'[c] = "reaped"
    BY <1>1 DEF Passed
  <2>1. c \in Commands /\ c \in Nat /\ Top.c \in Nat
    BY <1>2, <1>3, RunnerAssumption DEF Commands, FrameType
  <2>2. c < Top.c => proc[c] = "reaped"
    BY <1>1, <1>2 DEF Passed
  <2>3. c < Top.c \/ c = Top.c
    BY <1>5, <2>1
  <2> QED
    BY <1>1, <1>3, <1>4, <2>1, <2>2, <2>3
<1>8. Len(activity) = 1 => Launched(f, watched', proc')
  <2>1. Launched(Top, watched, proc) => watched = Commands
    BY <1>1 DEF Launched
  <2>2. watched = Commands => Launched(f, watched', proc')
    BY <1>1, <1>5 DEF Launched
  <2> QED
    BY <1>2, <2>1, <2>2, Zenon
<1>9. /\ proc' \in [Commands -> {"none", "running", "exited", "gone", "reaped"}]
      /\ watched' \in SUBSET Commands /\ watched' = watched /\ told' \in SUBSET watched'
      /\ UNCHANGED <<outcome, signals>>
      /\ \A c \in Commands : proc[c] = "reaped" => proc'[c] = "reaped"
      /\ \A c \in Commands \ watched : proc[c] = "none" => proc'[c] = "none"
  BY <1>1, <1>3, <1>4
<1> QED
  BY <1>1, <1>5, <1>6, <1>7, <1>8, <1>9, TopStepInv, Zenon

\* A frame that has waited for all that is watched ends the runner.  What is not watched
\* is launched, if at all, by the lowest frame.
LEMMA StopInv == RunnerInv /\ Stop => RunnerInv'
<1> SUFFICES ASSUME RunnerInv, Stop
             PROVE  RunnerInv'
  OBVIOUS
<1>1. /\ activity # <<>> /\ Top.do = "wait" /\ ~More
      /\ activity' = <<>> /\ outcome' = "stopped"
      /\ UNCHANGED <<proc, watched, told, signals>>
  BY DEF Stop, Doing
<1>2. /\ Top \in FrameType /\ Passed(Top, watched, proc)
      /\ activity \in Seq(FrameType) /\ Len(activity) \in Nat /\ Len(activity) >= 1
  BY <1>1, TopInOrder
<1>3. TypeOK
  BY DEF RunnerInv
<1>4. TypeOK'
  BY <1>1, <1>3 DEF TypeOK
<1>5. FramesInv'
  BY <1>1 DEF FramesInv
<1>6. \A c \in watched : proc[c] = "reaped"
  <2>1. \A c \in watched : c < Top.c
    BY <1>1, <1>2, <1>3, RunnerAssumption DEF More, FrameType, TypeOK, Commands
  <2> QED
    BY <1>1, <1>2, <2>1 DEF Passed
<1>7. ASSUME NEW c \in Commands \ watched, NEW d \in Commands \ watched,
             proc[c] = "running", proc[d] = "running"
      PROVE  c = d
  <2> DEFINE b == activity[Len(activity)]
  <2>1. b \in FrameType
    BY <1>2
  <2>2. Launched(b, watched, proc)
    BY <1>1 DEF RunnerInv, FramesInv
  <2> HIDE DEF b
  <2>3. c \in Nat /\ d \in Nat /\ b.c \in Nat
    BY <2>1, RunnerAssumption DEF Commands, FrameType
  <2>4. b.do = "record"
    <3>1. b.do # "launch"
      BY <1>7, <2>2, <2>3 DEF Launched
    <3>2. b.do \in {"launch", "record"}
      BY <1>7, <2>2 DEF Launched
    <3> QED
      BY <3>1, <3>2
  <2>5. ~(c < b.c) /\ ~(d < b.c) /\ ~(c > b.c) /\ ~(d > b.c)
    BY <1>7, <2>2, <2>4 DEF Launched
  <2> QED
    BY <2>3, <2>5
<1>8. NoneLeftBehind'
  BY <1>1, <1>6, <1>7 DEF NoneLeftBehind
<1> QED
  BY <1>1, <1>4, <1>5, <1>8 DEF RunnerInv

LEMMA LaunchFailsInv == RunnerInv /\ LaunchFails => RunnerInv'
<1> SUFFICES ASSUME RunnerInv, LaunchFails
             PROVE  RunnerInv'
  OBVIOUS
<1>1. activity' = <<>> /\ outcome' = "failed" /\ UNCHANGED <<proc, watched, told, signals>>
  BY DEF LaunchFails
<1>2. TypeOK'
  BY <1>1 DEF RunnerInv, TypeOK
<1> QED
  BY <1>1, <1>2 DEF RunnerInv, FramesInv, NoneLeftBehind

\* The handler's frame comes on top, and every other keeps its place from below.
LEMMA SignalInv == RunnerInv /\ Signal => RunnerInv'
<1> SUFFICES ASSUME RunnerInv, Signal
             PROVE  RunnerInv'
  OBVIOUS
<1> DEFINE f == Frame("kill", TRUE)
<1>1. /\ activity # <<>> /\ activity' = <<f>> \o activity /\ signals < MaxSignals
      /\ signals' = signals + 1 /\ UNCHANGED <<proc, watched, told, outcome>>
  BY DEF Signal
<1>2. f \in FrameType /\ f.do = "kill"
  BY RunnerAssumption DEF Frame, FrameType, Doings
<1> HIDE DEF f
<1>3. TypeOK /\ FramesInv /\ outcome # "stopped"
  BY <1>1 DEF RunnerInv
<1>4. activity \in Seq(FrameType) /\ Len(activity) \in Nat /\ Len(activity) >= 1
  BY <1>1, TopInOrder
<1>5. /\ activity' \in Seq(FrameType)
      /\ activity' # <<>>
      /\ Len(activity') = Len(activity) + 1
      /\ activity'[1] = f
      /\ \A i \in 1 .. Len(activity) : activity'[i + 1] = activity[i]
  BY <1>1, <1>2, <1>4, FrameIsPushed
<1>6. TypeOK'
  BY <1>1, <1>3, <1>5, RunnerAssumption DEF TypeOK
<1>7. ASSUME NEW i \in 1 .. Len(activity')
      PROVE  /\ Fits(activity'[i], watched') /\ Passed(activity'[i], watched', proc')
             /\ i < Len(activity') => activity'[i].do \in HandlerDoings
  <2>1. CASE i = 1
    BY <1>2, <1>5, <2>1 DEF Fits, Passed, HandlerDoings
  <2>2. CASE i # 1
    <3> DEFINE j == i - 1
    <3>1. j \in 1 .. Len(activity) /\ i = j + 1 /\ (i < Len(activity') => j < Len(activity))
      BY <1>4, <1>5, <2>2
    <3> HIDE DEF j
    <3>2. activity'[i] = activity[j]
      BY <1>5, <3>1
    <3>3. /\ Fits(activity[j], watched) /\ Passed(activity[j], watched, proc)
          /\ j < Len(activity) => activity[j].do \in HandlerDoings
      BY <1>3, <3>1 DEF FramesInv
    <3>4. watched' = watched /\ proc' = proc
      BY <1>1
    <3> QED
      BY <3>1, <3>2, <3>3, <3>4, Zenon
  <2> QED
    BY <2>1, <2>2
<1>8. Launched(activity'[Len(activity')], watched', proc')
  <2>1. activity'[Len(activity')] = activity[Len(activity)]
    BY <1>4, <1>5
  <2>2. Launched(activity[Len(activity)], watched, proc)
    BY <1>1, <1>3 DEF FramesInv
  <2>3. watched' = watched /\ proc' = proc
    BY <1>1
  <2> QED
    BY <2>1, <2>2, <2>3, Zenon
<1>9. FramesInv'
  BY <1>7, <1>8 DEF FramesInv
<1> QED
  BY <1>1, <1>3, <1>6, <1>9 DEF RunnerInv, NoneLeftBehind

\* The end of a command, or waitpid's return, takes nothing from what any frame knows.
LEMMA EndInv ==
  ASSUME RunnerInv, NEW c \in Commands, NEW s \in {"exited", "gone"},
         proc[c] \in {"running", "exited"}, proc' = [proc EXCEPT ![c] = s],
         UNCHANGED <<watched, told, activity, outcome, signals>>
  PROVE  RunnerInv'
<1>2. TypeOK /\ FramesInv /\ (outcome = "stopped" => activity = <<>>) /\ NoneLeftBehind
  BY DEF RunnerInv
<1>3. TypeOK'
  BY <1>2 DEF TypeOK
<1>4. \A d \in Commands : /\ proc[d] = "reaped" => proc'[d] = "reaped"
                          /\ proc[d] = "none" => proc'[d] = "none"
                          /\ proc'[d] = "running" => proc[d] = "running"
  BY <1>2 DEF TypeOK
<1>5. watched \in SUBSET Commands /\ watched' = watched /\ activity' = activity
  BY <1>2 DEF TypeOK
<1>6. FramesInv'
  <2>1. ASSUME NEW f, Fits(f, watched), Passed(f, watched, proc)
        PROVE  Fits(f, watched') /\ Passed(f, watched', proc')
    BY <1>4, <1>5, <2>1 DEF Fits, Passed
  <2>2. ASSUME NEW f, Launched(f, watched, proc)
        PROVE  Launched(f, watched', proc')
    BY <1>4, <1>5, <2>2 DEF Launched
  <2> QED
    BY <1>2, <1>5, <2>1, <2>2, Zenon DEF FramesInv
<1>7. NoneLeftBehind'
  BY <1>2, <1>4, <1>5 DEF NoneLeftBehind
<1> QED
  BY <1>2, <1>3, <1>6, <1>7 DEF RunnerInv

LEMMA WaitPidInv == RunnerInv /\ WaitPid => RunnerInv'
<1> SUFFICES ASSUME RunnerInv, WaitPid
             PROVE  RunnerInv'
  OBVIOUS
<1>1. /\ activity # <<>> /\ Top.do \in {"poll!", "wait!"}
      /\ proc[Top.c] = "exited" /\ proc' = [proc EXCEPT ![Top.c] = "gone"]
      /\ UNCHANGED <<watched, told, activity, outcome, signals>>
  BY DEF WaitPid, Doing
<1>2. Top \in FrameType /\ Fits(Top, watched) /\ watched \in SUBSET Commands
  BY <1>1, TopInOrder DEF RunnerInv, TypeOK
<1>3. Top.c \in Commands
  BY <1>1, <1>2, RunnerAssumption DEF Fits, FrameType, Commands
<1> QED
  BY <1>1, <1>3, EndInv

\* The poll that takes the exception for its own is the lowest frame, and goes on alone.
LEMMA KillFailsInv == RunnerInv /\ KillFails => RunnerInv'
<1> SUFFICES ASSUME RunnerInv, KillFails
             PROVE  RunnerInv'
  OBVIOUS
<1> DEFINE b == activity[Len(activity)]
           f == [b EXCEPT !.do = "poll", !.c = @ + 1]
<1>1. activity # <<>> /\ UNCHANGED <<proc, watched, told, signals>>
  BY DEF KillFails, Doing
<1>2. TypeOK /\ FramesInv /\ outcome # "stopped"
  BY <1>1 DEF RunnerInv
<1>3. activity \in Seq(FrameType) /\ Len(activity) \in Nat /\ Len(activity) >= 1
  BY <1>1, TopInOrder
<1>4. b \in FrameType /\ Fits(b, watched) /\ Launched(b, watched, proc)
  BY <1>1, <1>2, <1>3 DEF FramesInv
<1>5. \/ b.do = "poll!" /\ activity' = <<f>> /\ outcome' = outcome
      \/ activity' = <<>> /\ outcome' = "failed"
  BY DEF KillFails, Last
<1> HIDE DEF b
<1>6. CASE b.do = "poll!" /\ activity' = <<f>> /\ outcome' = outcome
  <2>1. f \in FrameType /\ f.do = "poll"
    <3> DEFINE next == b.c + 1
    <3>1. next \in 1 .. NumCommands + 1
      BY <1>4, <1>6, RunnerAssumption DEF Fits, FrameType
    <3> HIDE DEF next
    <3>2. /\ [b EXCEPT !.do = "poll", !.c = next] \in FrameType
          /\ [b EXCEPT !.do = "poll", !.c = next].do = "poll"
      BY <1>4, <3>1 DEF FrameType, Doings
    <3> QED
      BY <3>2 DEF next
  <2>2. Launched(f, watched, proc) /\ Fits(f, watched) /\ Passed(f, watched, proc)
    BY <1>4, <1>6, <2>1 DEF Launched, Fits, Passed
  <2> HIDE DEF f
  <2>3. /\ activity' \in Seq(FrameType) /\ Len(activity') = 1
        /\ \A i \in 1 .. Len(activity') : activity'[i] = f /\ ~(i < Len(activity'))
    BY <1>6, <2>1
  <2>4. TypeOK'
    BY <1>1, <1>2, <1>6, <2>3 DEF TypeOK
  <2>5. FramesInv'
    <3>1. watched' = watched /\ proc' = proc /\ 1 \in 1 .. Len(activity')
      BY <1>1, <2>3
    <3> QED
      BY <2>2, <2>3, <3>1 DEF FramesInv
  <2> QED
    BY <1>2, <1>6, <2>4, <2>5 DEF RunnerInv, NoneLeftBehind
<1>7. CASE activity' = <<>> /\ outcome' = "failed"
  <2>1. TypeOK'
    BY <1>1, <1>2, <1>7 DEF TypeOK
  <2> QED
    BY <1>7, <2>1 DEF RunnerInv, FramesInv, NoneLeftBehind
<1> QED
  BY <1>5, <1>6, <1>7

LEMMA NextInv == RunnerInv /\ [Next]_vars => RunnerInv'
<1> SUFFICES ASSUME RunnerInv, [Next]_vars
             PROVE  RunnerInv'
  OBVIOUS
<1>1. CASE Work
  BY <1>1, LaunchInv, RecordInv, PollInv, WaitPidInv, PolledInv, KillInv, WaitInv, WaitedInv, StopInv
     DEF Work
<1>2. ASSUME NEW c \in Commands, Dies(c) \/ Obeys(c)
      PROVE  RunnerInv'
  <2>1. proc[c] = "running" /\ proc' = [proc EXCEPT ![c] = "exited"]
        /\ UNCHANGED <<watched, told, activity, outcome, signals>>
    BY <1>2 DEF Obeys, Dies
  <2> QED
    BY <2>1, EndInv
<1>3. CASE UNCHANGED vars
  BY <1>3 DEF vars, RunnerInv, TypeOK, FramesInv, NoneLeftBehind
<1> QED
  BY <1>1, <1>2, <1>3, LaunchFailsInv, KillFailsInv, SignalInv DEF Next

-----------------------------------------------------------------------------

\* RunnerInv holds throughout, for any number of commands and of signals.
THEOREM RunnerInvariance == Spec => []RunnerInv
BY InitInv, NextInv, PTL DEF Spec

\* Frames, commands and those told keep their types.
THEOREM RunnerTypeCorrect == Spec => []TypeOK
<1>1. RunnerInv => TypeOK
  BY DEF RunnerInv
<1> QED
  BY <1>1, RunnerInvariance, PTL

\* A runner that has stopped leaves nothing that it watched and at most one command that
\* it had just launched, however signals interrupt it and one another.
THEOREM NothingIsLeftBehind == Spec => []NoneLeftBehind
<1>1. RunnerInv => NoneLeftBehind
  BY DEF RunnerInv
<1> QED
  BY <1>1, RunnerInvariance, PTL

=============================================================================
