------------------------------- MODULE Runner -------------------------------
(***************************************************************************)
(* kegbot run_all and its like: a process that starts commands, watches    *)
(* them, and stops them all when one of them dies or when it is told to    *)
(* stop itself (util/runner.py, management/commands/common.py).            *)
(*                                                                         *)
(* SIGTERM and SIGINT run a handler in the midst of whatever the process   *)
(* is doing, the handler included: activity is a stack of frames of which  *)
(* the topmost works.  Python's Popen guards waitpid with a lock that is   *)
(* not reentrant; a frame that is interrupted keeps it.                    *)
(***************************************************************************)
EXTENDS Integers, Sequences, SequencesExt

CONSTANTS
  NumCommands,   \* commands are numbered in the order they were added
  MaxSignals     \* bound on the signals the runner gets

ASSUME RunnerAssumption == NumCommands \in Nat /\ MaxSignals \in Nat

Commands == 1 .. NumCommands

VARIABLES
  proc,      \* proc[c]: "none", "running", "exited", "gone" (waitpid has returned it,
             \* and it has no returncode yet), or "reaped" (has a returncode)
  watched,   \* keys of watched_procs
  told,      \* commands whose process group was sent SIGTERM
  activity,  \* frames, the topmost first; none once the process has ended
  outcome,   \* "running", "stopped" (return or sys.exit), or "failed" (exception)
  signals    \* for the bound

vars == <<proc, watched, told, activity, outcome, signals>>

\* A frame does one thing to one command after another.  "poll!" and "wait!" are
\* poll and wait with the lock of the command's Popen held.
Frame(do, handler) == [do |-> do, c |-> 1, abort |-> FALSE, handler |-> handler]

Init ==
  /\ proc = [c \in Commands |-> "none"]
  /\ watched = {}
  /\ told = {}
  /\ activity = <<Frame("launch", FALSE)>>
  /\ outcome = "running"
  /\ signals = 0

Top == Head(activity)

Doing(do) == activity # <<>> /\ Top.do = do

More == Top.c <= NumCommands

Becomes(frame) == activity' = <<frame>> \o Tail(activity)

NextCommand == Becomes([Top EXCEPT !.c = @ + 1])

\* A frame under the present one holds the lock of command c.
LockHeld(c) ==
  \E i \in 2 .. Len(activity) : activity[i].c = c /\ activity[i].do \in {"poll!", "wait!"}

-----------------------------------------------------------------------------
(* run *)

Launch ==
  /\ Doing("launch")
  /\ IF More
     THEN /\ proc' = [proc EXCEPT ![Top.c] = "running"]
          /\ Becomes([Top EXCEPT !.do = "record"])
     ELSE /\ Becomes(Frame("poll", FALSE))
          /\ UNCHANGED proc
  /\ UNCHANGED <<watched, told, outcome, signals>>

\* No process can be made: the exception ends the runner, and not its children.
LaunchFails ==
  /\ Doing("launch")
  /\ More
  /\ activity' = <<>>
  /\ outcome' = "failed"
  /\ UNCHANGED <<proc, watched, told, signals>>

\* self.watched_procs[command_name] = proc
Record ==
  /\ Doing("record")
  /\ watched' = watched \cup {Top.c}
  /\ Becomes([Top EXCEPT !.do = "launch", !.c = @ + 1])
  /\ UNCHANGED <<proc, told, outcome, signals>>

-----------------------------------------------------------------------------
(* watch_commands *)

\* proc.poll() takes the lock, or returns at once if the process was reaped; after the
\* last command, sleep or abort.
Poll ==
  /\ Doing("poll")
  /\ IF ~More THEN Becomes(Frame(IF Top.abort THEN "kill" ELSE "poll", FALSE))
     ELSE IF proc[Top.c] = "reaped" THEN Becomes([Top EXCEPT !.c = @ + 1, !.abort = TRUE])
     ELSE Becomes([Top EXCEPT !.do = "poll!"])
  /\ UNCHANGED <<proc, watched, told, outcome, signals>>

\* waitpid finds that the process has ended.  Its returncode is set in the next step.
WaitPid ==
  /\ Doing("poll!") \/ Doing("wait!")
  /\ proc[Top.c] = "exited"
  /\ proc' = [proc EXCEPT ![Top.c] = "gone"]
  /\ UNCHANGED <<watched, told, activity, outcome, signals>>

Polled ==
  /\ Doing("poll!")
  /\ proc[Top.c] # "exited"
  /\ LET dead == proc[Top.c] # "running"
     IN  /\ proc' = IF dead THEN [proc EXCEPT ![Top.c] = "reaped"] ELSE proc
         /\ Becomes([Top EXCEPT !.do = "poll", !.c = @ + 1, !.abort = @ \/ dead])
  /\ UNCHANGED <<watched, told, outcome, signals>>

-----------------------------------------------------------------------------
(* abort *)

\* As below, for the commands that have died (a mutant).
KillDead ==
  /\ Doing("kill")
  /\ IF More
     THEN /\ told' = IF Top.c \in watched /\ proc[Top.c] = "reaped"
                     THEN told \cup {Top.c} ELSE told
          /\ NextCommand
     ELSE /\ Becomes(Frame("wait", Top.handler))
          /\ UNCHANGED told
  /\ UNCHANGED <<proc, watched, outcome, signals>>

\* As below, for the commands that were never started, too (a mutant).
KillAll ==
  /\ Doing("kill")
  /\ IF More
     THEN /\ told' = IF proc[Top.c] # "reaped" THEN told \cup {Top.c} ELSE told
          /\ NextCommand
     ELSE /\ Becomes(Frame("wait", Top.handler))
          /\ UNCHANGED told
  /\ UNCHANGED <<proc, watched, outcome, signals>>

\* killpg(SIGTERM), to every process that has no returncode yet.
Kill ==
  /\ Doing("kill")
  /\ IF More
     THEN /\ told' = IF Top.c \in watched /\ proc[Top.c] # "reaped"
                     THEN told \cup {Top.c} ELSE told
          /\ NextCommand
     ELSE /\ Becomes(Frame("wait", Top.handler))
          /\ UNCHANGED told
  /\ UNCHANGED <<proc, watched, outcome, signals>>

\* killpg finds no process in the group of a command that is gone.  The exception unwinds
\* all frames but a poll that was interrupted with the lock held: that one takes it for
\* its own, and the runner goes on to the next command.
KillFails ==
  /\ Doing("kill")
  /\ More
  /\ Top.c \in watched
  /\ proc[Top.c] = "gone"
  /\ LET bottom == Last(activity)
     IN  IF bottom.do = "poll!"
         THEN /\ activity' = <<[bottom EXCEPT !.do = "poll", !.c = @ + 1]>>
              /\ UNCHANGED outcome
         ELSE /\ activity' = <<>>
              /\ outcome' = "failed"
  /\ UNCHANGED <<proc, watched, told, signals>>

\* As below, without waiting (a mutant).
WaitNot ==
  /\ Doing("wait")
  /\ More
  /\ NextCommand
  /\ UNCHANGED <<proc, watched, told, outcome, signals>>

\* proc.wait() returns at once if the process was reaped; else it needs the lock.
Wait ==
  /\ Doing("wait")
  /\ More
  /\ IF Top.c \notin watched \/ proc[Top.c] = "reaped"
     THEN NextCommand
     ELSE ~LockHeld(Top.c) /\ Becomes([Top EXCEPT !.do = "wait!"])
  /\ UNCHANGED <<proc, watched, told, outcome, signals>>

Waited ==
  /\ Doing("wait!")
  /\ proc[Top.c] \in {"gone", "reaped"}
  /\ proc' = [proc EXCEPT ![Top.c] = "reaped"]
  /\ Becomes([Top EXCEPT !.do = "wait", !.c = @ + 1])
  /\ UNCHANGED <<watched, told, outcome, signals>>

\* As below, with a handler that returns to what it interrupted (a mutant).
StopReturns ==
  /\ Doing("wait")
  /\ ~More
  /\ activity' = Tail(activity)
  /\ outcome' = IF Len(activity) = 1 THEN "stopped" ELSE "running"
  /\ UNCHANGED <<proc, watched, told, signals>>

\* watch_commands returns, or the handler's sys.exit unwinds whatever it interrupted.
Stop ==
  /\ Doing("wait")
  /\ ~More
  /\ activity' = <<>>
  /\ outcome' = "stopped"
  /\ UNCHANGED <<proc, watched, told, signals>>

-----------------------------------------------------------------------------
(* Around the runner *)

\* exit_fn
Signal ==
  /\ activity # <<>>
  /\ signals < MaxSignals
  /\ signals' = signals + 1
  /\ activity' = <<Frame("kill", TRUE)>> \o activity
  /\ UNCHANGED <<proc, watched, told, outcome>>

\* A command ends, of itself ...
Dies(c) ==
  /\ proc[c] = "running"
  /\ proc' = [proc EXCEPT ![c] = "exited"]
  /\ UNCHANGED <<watched, told, activity, outcome, signals>>

\* ... or because it was told to.
Obeys(c) == c \in told /\ Dies(c)

-----------------------------------------------------------------------------

Work ==
  \/ Launch \/ Record \/ Poll \/ WaitPid \/ Polled
  \/ Kill \/ Wait \/ Waited \/ Stop

Next ==
  \/ Work
  \/ LaunchFails
  \/ KillFails
  \/ Signal
  \/ \E c \in Commands : Dies(c) \/ Obeys(c)

Fairness == WF_vars(Work) /\ \A c \in Commands : WF_vars(Obeys(c))

Spec == Init /\ [][Next]_vars /\ Fairness

-----------------------------------------------------------------------------
(* Properties *)

Doings == {"launch", "record", "poll", "poll!", "kill", "wait", "wait!"}

FrameType ==
  [do : Doings, c : 1 .. NumCommands + 1, abort : BOOLEAN, handler : BOOLEAN]

TypeOK ==
  /\ proc \in [Commands -> {"none", "running", "exited", "gone", "reaped"}]
  /\ watched \in SUBSET Commands
  /\ told \in SUBSET watched
  /\ activity \in Seq(FrameType)
  /\ outcome \in {"running", "stopped", "failed"}
  /\ signals \in 0 .. MaxSignals

\* A runner that has stopped has seen the end of everything it watched.  What may be
\* left behind is one command, which was being launched when the signal came.
NoneLeftBehind ==
  outcome = "stopped" =>
    /\ \A c \in watched : proc[c] = "reaped"
    /\ \A c, d \in Commands \ watched : proc[c] = "running" /\ proc[d] = "running" => c = d

Watching == \E i \in DOMAIN activity : activity[i].do \notin {"launch", "record"}

\* Abort has failed at a command that a poll had waited for, but given no returncode, when
\* a signal came.
AbortFailed == outcome = "failed" /\ \E c \in watched : proc[c] = "gone"

AllDown == \A c \in watched : proc[c] # "running"

\* When one command dies under watch, or the runner is signalled, all that it watches
\* go down, even if it hangs itself, unless abort fails on its way through them.
AllGoDown ==
  /\ (Watching /\ \E c \in watched : proc[c] \in {"exited", "gone", "reaped"}) ~>
       AllDown \/ AbortFailed
  /\ (signals > 0) ~> AllDown \/ AbortFailed

\* The handler waits for a lock that the frame it interrupted holds.
Hangs == Doing("wait") /\ More /\ LockHeld(Top.c) /\ proc[Top.c] # "reaped"

\* A signal ends the runner, unless the handler's wait meets a poll or a wait it has
\* interrupted: a second SIGTERM, or the first at the wrong moment, makes it hang.
SignalEndsRunner == signals > 0 ~> (outcome # "running" \/ Hangs)

=============================================================================
