------------------------------- MODULE Shell -------------------------------
(***************************************************************************)
(* os_portable_execute_shell on Linux: a parent that forks, a child that   *)
(* reports through a pipe before it executes the program, and an alarm     *)
(* that interrupts the parent at any point.  A caller makes the calls one  *)
(* after the other.                                                        *)
(***************************************************************************)
EXTENDS Integers, Sequences

CONSTANTS Codes,      \* exit codes of programs; 0 is one of them
          MaxRuns     \* bound: calls made
ASSUME CodesAssumption == Codes \subseteq Nat /\ 0 \in Codes /\ MaxRuns \in Nat

VARIABLES
  runs,      \* calls made so far
  limited,   \* timeout != 0 in this call
  fate,      \* what happens to the child before the program runs
  ignores,   \* the program ignores SIGTERM
  pc,        \* the parent
  child,     \* the child: none, forked, ready, reported, running, exited, killed
  code,      \* its exit code
  grouped,   \* it leads a process group of its own
  pipe,      \* bytes in the pipe
  writer,    \* the child holds the write end of the pipe
  reaped,    \* waitpid has returned the child
  waited,    \* what waitpid returned: the child or -1
  alarm,     \* an alarm is pending
  shared_time_out,
  sigterm,   \* a SIGTERM is pending for the child
  pidfile,   \* what the pid file holds: a pid or 0
  ret        \* _ret

parent == <<runs, limited, fate, ignores, pc, reaped, waited, pidfile, ret>>
signals == <<alarm, shared_time_out, sigterm>>
kid == <<child, code, grouped, pipe, writer>>
vars == <<parent, signals, kid>>

Fates == {"run", "fork", "open", "args", "exec"}   \* run, or the call that fails
Idle == {"idle", "returned"}
Result(f, t, r, n) == [failure |-> f, timeout |-> t, ret |-> r, normal |-> n]
Garbage == "uninitialised"

Init ==
  /\ runs = 0 /\ limited = FALSE /\ fate = "run" /\ ignores = FALSE /\ pc = "idle"
  /\ child = "none" /\ code = 0 /\ grouped = FALSE /\ pipe = <<>> /\ writer = FALSE
  /\ reaped = FALSE /\ waited = "no" /\ alarm = FALSE /\ shared_time_out = FALSE
  /\ sigterm = FALSE /\ pidfile = "none" /\ ret = Result("NONE", FALSE, Garbage, Garbage)

Return(r) == pc' = "returned" /\ ret' = r

(* The call.  A child that an earlier call left behind goes on, but
   nothing refers to it any more. *)
Call(t, f, g) ==
  /\ pc \in Idle /\ runs < MaxRuns
  /\ runs' = runs + 1 /\ limited' = t /\ fate' = f /\ ignores' = g
  /\ code' = 0 /\ grouped' = FALSE /\ pipe' = <<>> /\ reaped' = FALSE /\ waited' = "no"
  /\ sigterm' = FALSE /\ child' = "none" /\ writer' = FALSE /\ pc' = "fork"
  /\ UNCHANGED <<alarm, shared_time_out, pidfile, ret>>

Fork ==
  /\ pc = "fork"
  /\ IF fate = "fork"
     THEN Return(Result("FORK", FALSE, Garbage, Garbage)) /\ UNCHANGED <<child, writer>>
     ELSE child' = "forked" /\ writer' = TRUE /\ pc' = "read" /\ UNCHANGED ret
  /\ UNCHANGED <<runs, limited, fate, ignores, reaped, waited, pidfile, signals, code,
                 grouped, pipe>>

-----------------------------------------------------------------------------
(* The child: a group of its own if there is a time limit.
   Mutant: the group is made for calls without a limit. *)
SetGroup_Faulty ==
  /\ child = "forked" /\ child' = "ready" /\ grouped' = ~limited
  /\ UNCHANGED <<parent, signals, code, pipe, writer>>
SetGroup ==
  /\ child = "forked" /\ child' = "ready" /\ grouped' = limited
  /\ UNCHANGED <<parent, signals, code, pipe, writer>>

Exits(c) == child' = "exited" /\ code' = c /\ writer' = FALSE

(* Redirection and arguments; the report goes out before execvp. *)
Prepare ==
  /\ child = "ready"
  /\ \/ /\ fate \in {"open", "args"}
        /\ pipe' = Append(pipe, IF fate = "open" THEN "PREIO" ELSE "ARG") /\ Exits(1)
     \/ /\ fate \notin {"open", "args"}
        /\ pipe' = Append(pipe, "NONE") /\ child' = "reported" /\ UNCHANGED <<code, writer>>
  /\ UNCHANGED <<parent, signals, grouped>>

(* execvp closes the pipe; if it fails, the child reports once more. *)
Exec ==
  /\ child = "reported"
  /\ \/ fate = "run" /\ child' = "running" /\ writer' = FALSE /\ UNCHANGED <<pipe, code>>
     \/ fate = "exec" /\ pipe' = Append(pipe, "EXEC") /\ Exits(255)
  /\ UNCHANGED <<parent, signals, grouped>>

(* The program ends by itself, or of a signal. *)
Exit(c) == child = "running" /\ Exits(c) /\ UNCHANGED <<parent, signals, grouped, pipe>>
Crash ==
  /\ child = "running" /\ child' = "killed"
  /\ UNCHANGED <<parent, signals, code, grouped, pipe, writer>>
Terminate ==
  /\ sigterm /\ child \in {"reported", "running"} /\ ~(child = "running" /\ ignores)
  /\ child' = "killed" /\ writer' = FALSE /\ sigterm' = FALSE
  /\ UNCHANGED <<parent, alarm, shared_time_out, code, grouped, pipe>>

Dead == child \in {"exited", "killed"}

-----------------------------------------------------------------------------
(* The parent: the first report; a failure is returned without a wait.
   Mutant: the alarm is left out. *)
ReadReport_Faulty ==
  /\ pc = "read" /\ pipe # <<>> /\ pipe' = Tail(pipe)
  /\ IF Head(pipe) = "NONE"
     THEN pc' = "armed" /\ pidfile' = "pid" /\ UNCHANGED <<ret, alarm, shared_time_out>>
     ELSE Return(Result(Head(pipe), FALSE, Garbage, Garbage))
          /\ UNCHANGED <<pidfile, shared_time_out, alarm>>
  /\ UNCHANGED <<runs, limited, fate, ignores, reaped, waited, sigterm, child, code,
                 grouped, writer>>
ReadReport ==
  /\ pc = "read" /\ pipe # <<>> /\ pipe' = Tail(pipe)
  /\ IF Head(pipe) = "NONE"
     THEN pc' = "armed" /\ pidfile' = "pid" /\ shared_time_out' = (shared_time_out /\ ~limited)
          /\ alarm' = limited /\ UNCHANGED ret
     ELSE Return(Result(Head(pipe), FALSE, Garbage, Garbage))
          /\ UNCHANGED <<pidfile, shared_time_out, alarm>>
  /\ UNCHANGED <<runs, limited, fate, ignores, reaped, waited, sigterm, child, code,
                 grouped, writer>>

EnterWait ==
  /\ pc = "armed" /\ pc' = "wait"
  /\ UNCHANGED <<runs, limited, fate, ignores, reaped, waited, pidfile, ret, signals, kid>>

Reap ==
  /\ pc = "wait" /\ Dead /\ pc' = "woken" /\ reaped' = TRUE /\ waited' = "child"
  /\ UNCHANGED <<runs, limited, fate, ignores, pidfile, ret, signals, kid>>

(* parent_alarm_handler.  It reaches the group of the child, if there is one.
   There is no SA_RESTART: a waitpid that is blocked returns -1.
   Mutant: waitpid is restarted. *)
AlarmHandler_Faulty ==
  /\ alarm /\ alarm' = FALSE
  /\ shared_time_out' = TRUE
  /\ sigterm' = (grouped /\ ~Dead)
  /\ UNCHANGED <<parent, kid>>
AlarmHandler ==
  /\ alarm /\ alarm' = FALSE
  /\ shared_time_out' = TRUE
  /\ sigterm' = (grouped /\ ~Dead)
  /\ IF pc = "wait" /\ ~Dead THEN pc' = "woken" /\ waited' = "-1" ELSE UNCHANGED <<pc, waited>>
  /\ UNCHANGED <<runs, limited, fate, ignores, reaped, pidfile, ret, kid>>

(* alarm(0), after waitpid has returned.
   Mutant: the alarm is not cancelled. *)
Cancel_Faulty ==
  /\ pc = "woken" /\ pc' = "again"
  /\ UNCHANGED <<runs, limited, fate, ignores, reaped, waited, pidfile, ret, signals, kid>>
Cancel ==
  /\ pc = "woken" /\ alarm' = FALSE
  /\ IF ~limited /\ waited = "-1"
     THEN Return(Result("WAIT", FALSE, Garbage, Garbage))
     ELSE pc' = "again" /\ UNCHANGED ret
  /\ UNCHANGED <<runs, limited, fate, ignores, reaped, waited, pidfile, shared_time_out,
                 sigterm, kid>>

(* The second read: a byte means that execvp failed, the end of the pipe that
   the program was executed.  The status is unset if waitpid was interrupted; the
   status of a killed program reads as 0.
   Mutant: the second report is not looked at. *)
Status == IF waited = "-1" THEN Garbage ELSE code
Normal == IF waited = "-1" THEN Garbage ELSE child = "exited"
ReadAgain_Faulty ==
  /\ pc = "again"
  /\ Return(Result("NONE", limited /\ shared_time_out, Status, Normal)) /\ pidfile' = "0"
  /\ UNCHANGED <<runs, limited, fate, ignores, reaped, waited, signals, kid>>
ReadAgain ==
  /\ pc = "again" /\ (pipe # <<>> \/ ~writer)
  /\ IF pipe # <<>>
     THEN Return(Result("EXEC", FALSE, Garbage, Normal)) /\ UNCHANGED pidfile
     ELSE /\ Return(Result("NONE", limited /\ shared_time_out, Status, Normal))
          /\ pidfile' = "0"
  /\ UNCHANGED <<runs, limited, fate, ignores, reaped, waited, signals, kid>>

Next ==
  \/ \E t \in BOOLEAN, f \in Fates, g \in BOOLEAN : Call(t, f, g)
  \/ Fork \/ SetGroup \/ Prepare \/ Exec \/ (\E c \in Codes : Exit(c)) \/ Crash \/ Terminate
  \/ ReadReport \/ EnterWait \/ Reap \/ AlarmHandler \/ Cancel \/ ReadAgain

(* Every process that can run is scheduled and an alarm goes off; that a program
   ends by itself is not assumed. *)
Fairness ==
  /\ WF_vars(Fork) /\ WF_vars(SetGroup) /\ WF_vars(Prepare) /\ WF_vars(Exec) /\ WF_vars(Terminate)
  /\ WF_vars(ReadReport) /\ WF_vars(EnterWait) /\ WF_vars(Reap)
  /\ WF_vars(AlarmHandler) /\ WF_vars(Cancel) /\ WF_vars(ReadAgain)

Spec == Init /\ [][Next]_vars /\ Fairness

-----------------------------------------------------------------------------
(* Type correctness, and where the processes can be with respect to each other:
   a parent that waits has a child, an alarm is pending only after the report,
   and no more than two bytes go through the pipe. *)
TypeOK ==
  /\ runs \in 0..MaxRuns /\ fate \in Fates
  /\ {limited, ignores, grouped, writer, reaped, alarm, shared_time_out, sigterm} \subseteq BOOLEAN
  /\ pc \in {"fork", "read", "armed", "wait", "woken", "again"} \cup Idle
  /\ child \in {"none", "forked", "ready", "reported", "running", "exited", "killed"}
  /\ code \in Codes \cup {0, 1, 255}
  /\ pipe \in {<<>>, <<"PREIO">>, <<"ARG">>, <<"NONE">>, <<"EXEC">>, <<"NONE", "EXEC">>}
  /\ waited \in {"no", "child", "-1"} /\ pidfile \in {"none", "pid", "0"}
  /\ ret.failure \in {"NONE", "PREIO", "FORK", "ARG", "EXEC", "WAIT"}
  /\ pc \in {"armed", "wait", "woken", "again"} => child \notin {"none", "forked", "ready"}
  /\ alarm => pc \in {"armed", "wait", "woken"} /\ limited

(* The program and the answer that a caller sees. *)
progBar ==
  CASE child = "running" -> <<"started">>
    [] child = "killed" -> <<"signal">>
    [] child = "exited" /\ fate = "run" -> <<"exit", code>>
    [] OTHER -> <<"none">>
answerBar ==
  CASE pc = "idle" -> <<"idle">>
    [] pc = "returned" /\ ret.failure # "NONE" -> <<"failed">>
    [] pc = "returned" /\ ret.failure = "NONE" /\ ret.timeout -> <<"timeout">>
    [] pc = "returned" /\ ret.failure = "NONE" /\ ~ret.timeout ->
         IF ret.normal = TRUE THEN <<"exit", ret.ret>> ELSE <<"signal">>
    [] OTHER -> <<"running">>

(* The parent, the child, the pipe and the alarm together run a program as a
   caller expects: an answer that is neither a failure nor a timeout is how the
   program that was executed has ended, however the alarm, the reports and the
   end of the child interleave. *)
Abs == INSTANCE RunProgram WITH prog <- progBar, answer <- answerBar
RunsProgram == Abs!AbsSpec

(* A call that reports a timeout leaves no program running that has not been
   sent SIGTERM: the child has made its process group before it reports, so the
   handler reaches it. *)
TimeoutReaches ==
  pc = "returned" /\ ret.failure = "NONE" /\ ret.timeout => Dead \/ sigterm

(* A call with a time limit returns, even if the program never ends by itself,
   as long as it does not ignore SIGTERM. *)
LimitedReturns == (pc = "fork" /\ limited /\ ~ignores) ~> (pc = "returned")

(* An alarm that comes while the parent waits ends the wait, and the call
   returns even if the program ignores SIGTERM; an alarm that comes before
   waitpid is entered does not. *)
AlarmEndsWait == (pc = "wait" /\ alarm) ~> (pc = "returned")
=============================================================================
