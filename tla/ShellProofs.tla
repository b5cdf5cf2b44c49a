---------------------------- MODULE ShellProofs ----------------------------
(***************************************************************************)
(* os_portable_execute_shell for every set of exit codes and any number of *)
(* calls: type correctness, that a timeout reaches the program, and that   *)
(* the call implements RunProgram.  The argument is one inductive          *)
(* invariant, ShellInv, that ties where the parent is to where the child   *)
(* is, and both to what the pipe holds and to what the alarm has done.     *)
(***************************************************************************)
EXTENDS Shell, SequenceTheorems, TLAPS

Waiting == {"armed", "wait", "woken", "again"}   \* the parent has read "NONE"
Unready == {"forked", "ready"}                   \* the child has not reported

Booleans ==
  /\ limited \in BOOLEAN /\ ignores \in BOOLEAN /\ grouped \in BOOLEAN /\ writer \in BOOLEAN
  /\ reaped \in BOOLEAN /\ alarm \in BOOLEAN /\ shared_time_out \in BOOLEAN
  /\ sigterm \in BOOLEAN
Values ==
  /\ runs \in 0..MaxRuns /\ fate \in Fates /\ code \in Codes \cup {0, 1, 255}
  /\ pc \in {"fork", "read"} \cup Waiting \cup Idle
  /\ child \in {"none", "reported", "running", "exited", "killed"} \cup Unready
  /\ waited \in {"no", "child", "-1"} /\ pidfile \in {"none", "pid", "0"}

(* The parent and the child: which of their positions go together. *)
Positions ==
  /\ pc \in {"idle", "fork"} => child = "none"
  /\ child = "none" => pc \in {"idle", "fork", "returned"}
  /\ child \in Unready => pc = "read"
  /\ child # "none" => fate # "fork"
  /\ pc \in Waiting \/ child = "reported" => fate \in {"run", "exec"}
  /\ child = "running" => fate = "run"
  /\ writer <=> child \in Unready \cup {"reported"}
  /\ child = "exited" /\ fate = "run" => code \in Codes
  /\ grouped <=> limited /\ child \notin {"none", "forked"}

(* The pipe: the first report is in it until the parent reads it, and after it
   the report of a failed execvp. *)
FirstReport ==
  CASE pc # "read" -> <<>>
    [] pc = "read" /\ fate = "open" -> <<"PREIO">>
    [] pc = "read" /\ fate = "args" -> <<"ARG">>
    [] OTHER -> <<"NONE">>
Reports ==
  /\ child \in {"none"} \cup Unready => pipe = <<>>
  /\ child \in {"reported", "running", "killed"} =>
       fate \in {"run", "exec"} /\ pipe = FirstReport
  /\ child = "exited" =>
       pipe = IF fate # "exec" THEN FirstReport
              ELSE IF pc = "read" THEN <<"NONE", "EXEC">> ELSE <<"EXEC">>

(* The alarm: until it goes off nothing is sent to the child, and a call whose
   time has run out has a child that is dead or about to get SIGTERM. *)
Alarms ==
  /\ alarm => ~shared_time_out /\ limited /\ pc \in {"armed", "wait", "woken"}
  /\ sigterm => limited /\ pc \in Waiting \cup {"returned"}
  /\ pc \in Waiting /\ limited /\ shared_time_out => Dead \/ sigterm
  /\ pc \in {"fork", "read", "armed", "wait"} => waited = "no"
  /\ pc \in {"woken", "again"} => waited # "no"
  /\ waited = "child" => Dead
  /\ waited = "-1" => limited /\ shared_time_out /\ pc \in {"woken", "again", "returned"}

(* What was returned: never the failure of waitpid, which the alarm can only
   cause in a call that has a time limit. *)
Returned ==
  /\ ret.failure \in {"NONE", "PREIO", "FORK", "ARG", "EXEC"}
  /\ ret.timeout \in BOOLEAN
  /\ TimeoutReaches

ShellInv == Booleans /\ Values /\ Positions /\ Reports /\ Alarms /\ Returned

-----------------------------------------------------------------------------
(* The few sequences that go through the pipe. *)
LEMMA PipeFacts ==
  ASSUME NEW x, NEW y
  PROVE  /\ Append(<<>>, x) = <<x>> /\ Append(<<x>>, y) = <<x, y>>
         /\ Head(<<x>>) = x /\ Tail(<<x>>) = <<>>
         /\ Head(<<x, y>>) = x /\ Tail(<<x, y>>) = <<y>>
         /\ <<x>> # <<>> /\ <<x, y>> # <<>>
<1>1. Len(<<>>) = 0 /\ Len(<<x>>) = 1 /\ Len(<<x, y>>) = 2
  OBVIOUS
<1>2. Append(<<>>, x) = <<x>>
  OBVIOUS
<1>3. Append(<<x>>, y) = <<x, y>>
  <2>1. <<x>> \in Seq({x, y}) /\ <<x, y>> \in Seq({x, y})
    OBVIOUS
  <2>2. /\ Append(<<x>>, y) \in Seq({x, y}) /\ Len(Append(<<x>>, y)) = 2
        /\ Append(<<x>>, y)[1] = x /\ Append(<<x>>, y)[2] = y
    OBVIOUS
  <2>3. \A i \in 1..Len(Append(<<x>>, y)) : Append(<<x>>, y)[i] = <<x, y>>[i]
    OBVIOUS
  <2> QED
    BY <2>1, <2>2, <2>3, SeqEqual
<1>4. Tail(<<x>>) = <<>>
  OBVIOUS
<1>5. Tail(<<x, y>>) = <<y>>
  OBVIOUS
<1>6. Head(<<x>>) = x /\ Head(<<x, y>>) = x
  OBVIOUS
<1>7. <<x>> # <<>> /\ <<x, y>> # <<>>
  OBVIOUS
<1> QED
  BY <1>3

(* The parts of the invariant give the type invariant. *)
LEMMA ShellTypes == ShellInv => TypeOK
<1> SUFFICES ASSUME ShellInv PROVE TypeOK
  OBVIOUS
<1>1. {limited, ignores, grouped, writer, reaped, alarm, shared_time_out, sigterm} \subseteq BOOLEAN
  BY Zenon DEF ShellInv, Booleans
<1>2. pipe \in {<<>>, <<"PREIO">>, <<"ARG">>, <<"NONE">>, <<"EXEC">>, <<"NONE", "EXEC">>}
  BY DEF ShellInv, Values, Reports, FirstReport
<1>3. /\ runs \in 0..MaxRuns /\ fate \in Fates
      /\ pc \in {"fork", "read", "armed", "wait", "woken", "again"} \cup Idle
      /\ child \in {"none", "forked", "ready", "reported", "running", "exited", "killed"}
      /\ code \in Codes \cup {0, 1, 255}
      /\ waited \in {"no", "child", "-1"} /\ pidfile \in {"none", "pid", "0"}
      /\ ret.failure \in {"NONE", "PREIO", "FORK", "ARG", "EXEC", "WAIT"}
  BY DEF ShellInv, Values, Returned, Waiting, Unready
<1>4. /\ pc \in {"armed", "wait", "woken", "again"} => child \notin {"none", "forked", "ready"}
      /\ alarm => pc \in {"armed", "wait", "woken"} /\ limited
  BY DEF ShellInv, Positions, Alarms, Unready
<1> QED
  BY <1>1, <1>2, <1>3, <1>4 DEF TypeOK

LEMMA ShellInit == Init => ShellInv
<1> SUFFICES ASSUME Init PROVE ShellInv
  OBVIOUS
<1>1. Booleans
  BY DEF Init, Booleans
<1>2. Values
  BY CodesAssumption DEF Init, Values, Fates, Idle
<1>3. Positions /\ Alarms
  BY DEF Init, Positions, Alarms, Unready
<1>4. Reports
  BY DEF Init, Reports
<1>5. Returned
  BY DEF Init, Returned, TimeoutReaches, Result
<1> QED
  BY <1>1, <1>2, <1>3, <1>4, <1>5 DEF ShellInv

(* Every step keeps the invariant. *)
LEMMA ShellStep == ShellInv /\ [Next]_vars => ShellInv'
<1> SUFFICES ASSUME ShellInv, [Next]_vars PROVE ShellInv'
  OBVIOUS
<1>0. Booleans /\ Values /\ Positions /\ Reports /\ Alarms /\ Returned
  BY DEF ShellInv
<1>1. ASSUME NEW t \in BOOLEAN, NEW f \in Fates, NEW g \in BOOLEAN, Call(t, f, g)
      PROVE  ShellInv'
  <2>1. Booleans'
    BY <1>0, <1>1 DEF Call, Booleans
  <2>2. Values'
    BY <1>0, <1>1, CodesAssumption DEF Call, Values
  <2>3. Positions'
    BY <1>1 DEF Call, Positions, Waiting, Unready
  <2>4. Reports'
    BY <1>1 DEF Call, Reports
  <2>5. Alarms'
    BY <1>0, <1>1 DEF Call, Alarms, Waiting, Idle
  <2>6. Returned'
    BY <1>0, <1>1 DEF Call, Returned, TimeoutReaches
  <2> QED
    BY <2>1, <2>2, <2>3, <2>4, <2>5, <2>6 DEF ShellInv
<1>2. CASE Fork
  <2>1. Booleans'
    BY <1>0, <1>2 DEF Fork, signals, Booleans
  <2>2. Values'
    BY <1>0, <1>2 DEF Fork, Return, Values, Unready, Idle
  <2>3. Positions'
    BY <1>0, <1>2 DEF Fork, Return, Positions, Waiting, Unready
  <2>4. Reports'
    BY <1>0, <1>2 DEF Fork, Positions, Reports
  <2>5. Alarms'
    BY <1>0, <1>2 DEF Fork, signals, Return, Positions, Alarms, Waiting
  <2>6. Returned'
    <3>1. \/ ret' = ret /\ pc' = "read"
          \/ ret'.failure = "FORK" /\ ret'.timeout = FALSE
      BY <1>2 DEF Fork, Return, Result
    <3> QED
      BY <1>0, <3>1 DEF Returned, TimeoutReaches
  <2> QED
    BY <2>1, <2>2, <2>3, <2>4, <2>5, <2>6 DEF ShellInv
<1>3. CASE SetGroup
  <2>1. Booleans'
    BY <1>0, <1>3 DEF SetGroup, parent, signals, Booleans
  <2>2. Values'
    BY <1>0, <1>3 DEF SetGroup, parent, Values, Unready
  <2>3. Positions'
    BY <1>0, <1>3 DEF SetGroup, parent, Positions, Unready
  <2>4. Reports'
    BY <1>0, <1>3 DEF SetGroup, Values, Reports
  <2>5. Alarms'
    BY <1>0, <1>3 DEF SetGroup, parent, signals, Alarms, Dead
  <2>6. Returned'
    BY <1>0, <1>3 DEF SetGroup, parent, signals, Returned, TimeoutReaches, Dead
  <2> QED
    BY <2>1, <2>2, <2>3, <2>4, <2>5, <2>6 DEF ShellInv
<1>4. CASE Prepare
  <2>1. Booleans'
    BY <1>0, <1>4 DEF Prepare, Exits, parent, signals, Booleans
  <2>2. Values'
    BY <1>0, <1>4 DEF Prepare, Exits, parent, Values
  <2>3. Positions'
    BY <1>0, <1>4 DEF Prepare, Exits, parent, Values, Positions, Waiting, Unready, Fates
  <2>4. Reports'
    BY <1>0, <1>4, PipeFacts DEF Prepare, Exits, parent, signals, Values, Positions, Reports,
       FirstReport, Alarms, Dead, Waiting, Unready, Fates
  <2>5. Alarms'
    BY <1>0, <1>4 DEF Prepare, parent, signals, Alarms, Dead
  <2>6. Returned'
    BY <1>0, <1>4 DEF Prepare, parent, signals, Returned, TimeoutReaches, Dead
  <2> QED
    BY <2>1, <2>2, <2>3, <2>4, <2>5, <2>6 DEF ShellInv
<1>5. CASE Exec
  <2>1. Booleans'
    <3>1. CASE fate = "run"
      BY <1>0, <1>5, <3>1 DEF Exec, parent, signals, Booleans
    <3>2. CASE fate = "exec"
      <4>1. writer' = FALSE /\ UNCHANGED <<parent, signals, grouped>>
        BY <1>5 DEF Exec, Exits
      <4> QED
        BY <1>0, <4>1 DEF parent, signals, Booleans
    <3> QED
      BY <1>5, <3>1, <3>2 DEF Exec
  <2>2. Values'
    BY <1>0, <1>5 DEF Exec, Exits, parent, Values
  <2>3. Positions'
    BY <1>0, <1>5 DEF Exec, Exits, parent, Positions, Unready
  <2>4. Reports'
    <3>1. pc' = pc /\ fate' = fate /\ child = "reported" /\ FirstReport \in {<<>>, <<"NONE">>}
          /\ pipe = FirstReport /\ FirstReport' = FirstReport
      BY <1>0, <1>5 DEF Exec, parent, Reports, FirstReport
    <3>2. CASE fate = "run"
      BY <1>5, <3>1, <3>2 DEF Exec, Reports, Unready
    <3>3. CASE fate = "exec"
      <4>1. pipe = IF pc = "read" THEN <<"NONE">> ELSE <<>>
        BY <3>1 DEF FirstReport
      <4>2. pipe' = IF pc = "read" THEN <<"NONE", "EXEC">> ELSE <<"EXEC">>
        BY <1>5, <3>3, <4>1 DEF Exec
      <4> QED
        BY <1>5, <3>1, <4>2 DEF Exec, Exits, Reports, Unready
    <3> QED
      BY <1>5, <3>2, <3>3 DEF Exec
  <2>5. Alarms'
    BY <1>0, <1>5 DEF Exec, parent, signals, Alarms, Dead
  <2>6. Returned'
    BY <1>0, <1>5 DEF Exec, parent, signals, Returned, TimeoutReaches, Dead
  <2> QED
    BY <2>1, <2>2, <2>3, <2>4, <2>5, <2>6 DEF ShellInv
<1>6. ASSUME NEW c \in Codes, Exit(c)
      PROVE  ShellInv'
  <2>1. Booleans'
    BY <1>0, <1>6 DEF Exit, Exits, parent, signals, Booleans
  <2>2. Values'
    BY <1>0, <1>6 DEF Exit, Exits, parent, Values
  <2>3. Positions'
    BY <1>0, <1>6 DEF Exit, Exits, parent, Positions, Unready
  <2>4. Reports'
    BY <1>0, <1>6 DEF Exit, Exits, parent, Positions, Reports, FirstReport, Unready
  <2>5. Alarms'
    BY <1>0, <1>6 DEF Exit, parent, signals, Alarms, Dead
  <2>6. Returned'
    BY <1>0, <1>6 DEF Exit, Exits, parent, Returned, TimeoutReaches, Dead
  <2> QED
    BY <2>1, <2>2, <2>3, <2>4, <2>5, <2>6 DEF ShellInv
<1>7. CASE Crash
  <2>1. Booleans'
    BY <1>0, <1>7 DEF Crash, parent, signals, Booleans
  <2>2. Values'
    BY <1>0, <1>7 DEF Crash, parent, Values
  <2>3. Positions'
    BY <1>0, <1>7 DEF Crash, parent, Positions, Unready
  <2>4. Reports'
    BY <1>0, <1>7 DEF Crash, parent, Reports, FirstReport, Unready
  <2>5. Alarms'
    BY <1>0, <1>7 DEF Crash, parent, signals, Alarms, Dead
  <2>6. Returned'
    BY <1>0, <1>7 DEF Crash, parent, Returned, TimeoutReaches, Dead
  <2> QED
    BY <2>1, <2>2, <2>3, <2>4, <2>5, <2>6 DEF ShellInv
<1>8. CASE Terminate
  <2>1. Booleans'
    BY <1>0, <1>8 DEF Terminate, parent, Booleans
  <2>2. Values'
    BY <1>0, <1>8 DEF Terminate, parent, Values
  <2>3. Positions'
    BY <1>0, <1>8 DEF Terminate, parent, Positions, Unready
  <2>4. Reports'
    BY <1>0, <1>8 DEF Terminate, parent, Reports, FirstReport, Alarms, Waiting
  <2>5. Alarms'
    BY <1>0, <1>8 DEF Terminate, parent, Alarms, Dead
  <2>6. Returned'
    BY <1>0, <1>8 DEF Terminate, parent, Returned, TimeoutReaches, Dead
  <2> QED
    BY <2>1, <2>2, <2>3, <2>4, <2>5, <2>6 DEF ShellInv
<1>9. CASE ReadReport
  <2>0. /\ pc = "read" /\ pipe' = Tail(pipe)
        /\ \/ /\ fate \in {"run", "exec"} /\ Head(pipe) = "NONE" /\ pc' = "armed" /\ ret' = ret
              /\ child \notin {"none"} \cup Unready
              /\ Tail(pipe) = IF child = "exited" /\ fate = "exec" THEN <<"EXEC">> ELSE <<>>
           \/ /\ fate \in {"open", "args"} /\ Head(pipe) \in {"PREIO", "ARG"}
              /\ Tail(pipe) = <<>> /\ child = "exited" /\ pc' = "returned"
              /\ ret' = Result(Head(pipe), FALSE, Garbage, Garbage)
    <3>1. pc = "read" /\ pipe # <<>>
      BY <1>9 DEF ReadReport
    <3>2. /\ child \in {"reported", "running", "killed", "exited"}
          /\ fate \in {"run", "exec", "open", "args"}
      BY <1>0, <3>1 DEF Values, Positions, Reports, Fates
    <3>3. CASE fate \in {"run", "exec"}
      <4>1. pipe = IF child = "exited" /\ fate = "exec" THEN <<"NONE", "EXEC">> ELSE <<"NONE">>
        BY <1>0, <3>1, <3>2, <3>3 DEF Reports, FirstReport
      <4>2. /\ Head(pipe) = "NONE"
            /\ Tail(pipe) = IF child = "exited" /\ fate = "exec" THEN <<"EXEC">> ELSE <<>>
        BY <4>1
      <4> QED
        BY <1>9, <3>2, <3>3, <4>2 DEF ReadReport, Unready
    <3>4. CASE fate \in {"open", "args"}
      <4>1. child = "exited" /\ pipe = IF fate = "open" THEN <<"PREIO">> ELSE <<"ARG">>
        BY <1>0, <3>1, <3>2, <3>4 DEF Reports, FirstReport
      <4>2. Head(pipe) \in {"PREIO", "ARG"} /\ Tail(pipe) = <<>>
        BY <4>1
      <4> QED
        BY <1>9, <3>4, <4>1 DEF ReadReport, Return
    <3> QED
      BY <3>2, <3>3, <3>4
  <2>1. Booleans'
    BY <1>0, <1>9 DEF ReadReport, Booleans
  <2>2. Values'
    BY <1>0, <1>9 DEF ReadReport, Return, Values, Waiting, Idle
  <2>3. Positions'
    BY <1>0, <1>9, <2>0 DEF ReadReport, Positions, Waiting, Unready
  <2>4. Reports'
    BY <1>9, <2>0 DEF ReadReport, Reports, FirstReport
  <2>5. Alarms'
    BY <1>0, <1>9, <2>0 DEF ReadReport, Positions, Alarms, Waiting
  <2>6. Returned'
    <3>1. \/ ret' = ret /\ pc' = "armed"
          \/ ret'.failure \in {"PREIO", "ARG"} /\ ret'.timeout = FALSE
      BY <2>0 DEF Result
    <3> QED
      BY <1>0, <3>1 DEF Returned, TimeoutReaches
  <2> QED
    BY <2>1, <2>2, <2>3, <2>4, <2>5, <2>6 DEF ShellInv
<1>10. CASE EnterWait
  <2>1. Booleans'
    BY <1>0, <1>10 DEF EnterWait, signals, kid, Booleans
  <2>2. Values'
    BY <1>0, <1>10 DEF EnterWait, kid, Values, Waiting
  <2>3. Positions'
    BY <1>0, <1>10 DEF EnterWait, kid, Positions, Waiting
  <2>4. Reports'
    BY <1>0, <1>10 DEF EnterWait, kid, Reports, FirstReport
  <2>5. Alarms'
    BY <1>0, <1>10 DEF EnterWait, signals, kid, Alarms, Dead, Waiting
  <2>6. Returned'
    BY <1>0, <1>10 DEF EnterWait, Returned, TimeoutReaches
  <2> QED
    BY <2>1, <2>2, <2>3, <2>4, <2>5, <2>6 DEF ShellInv
<1>11. CASE Reap
  <2>1. Booleans'
    BY <1>0, <1>11 DEF Reap, signals, kid, Booleans
  <2>2. Values'
    BY <1>0, <1>11 DEF Reap, kid, Values, Waiting
  <2>3. Positions'
    BY <1>0, <1>11 DEF Reap, kid, Positions, Waiting
  <2>4. Reports'
    BY <1>0, <1>11 DEF Reap, kid, Reports, FirstReport
  <2>5. Alarms'
    BY <1>0, <1>11 DEF Reap, signals, kid, Alarms, Dead, Waiting
  <2>6. Returned'
    BY <1>0, <1>11 DEF Reap, Returned, TimeoutReaches
  <2> QED
    BY <2>1, <2>2, <2>3, <2>4, <2>5, <2>6 DEF ShellInv
<1>12. CASE AlarmHandler
  <2>1. Booleans'
    BY <1>0, <1>12 DEF AlarmHandler, kid, Booleans
  <2>2. Values'
    BY <1>0, <1>12 DEF AlarmHandler, kid, Values, Waiting
  <2>3. Positions'
    BY <1>0, <1>12 DEF AlarmHandler, kid, Positions, Waiting
  <2>4. Reports'
    BY <1>0, <1>12 DEF AlarmHandler, kid, Reports, FirstReport
  <2>5. Alarms'
    BY <1>0, <1>12 DEF AlarmHandler, kid, Values, Positions, Alarms, Dead, Waiting
  <2>6. Returned'
    BY <1>0, <1>12 DEF AlarmHandler, Alarms, Returned, TimeoutReaches
  <2> QED
    BY <2>1, <2>2, <2>3, <2>4, <2>5, <2>6 DEF ShellInv
<1>13. CASE Cancel
  <2>1. Booleans'
    BY <1>0, <1>13 DEF Cancel, kid, Booleans
  <2>2. Values'
    BY <1>0, <1>13 DEF Cancel, Return, kid, Values, Waiting, Idle
  <2>3. Positions'
    BY <1>0, <1>13 DEF Cancel, Return, kid, Positions, Waiting
  <2>4. Reports'
    BY <1>0, <1>13 DEF Cancel, Return, kid, Reports, FirstReport
  <2>5. Alarms'
    BY <1>0, <1>13 DEF Cancel, kid, Alarms, Dead, Waiting
  <2>6. Returned'
    BY <1>0, <1>13 DEF Cancel, Alarms, Returned, TimeoutReaches
  <2> QED
    BY <2>1, <2>2, <2>3, <2>4, <2>5, <2>6 DEF ShellInv
<1>14. CASE ReadAgain
  <2>1. Booleans'
    BY <1>0, <1>14 DEF ReadAgain, signals, kid, Booleans
  <2>2. Values'
    BY <1>0, <1>14 DEF ReadAgain, Return, kid, Values, Idle
  <2>3. Positions'
    <3>1. pc = "again" /\ pc' = "returned"
      BY <1>14 DEF ReadAgain, Return
    <3> QED
      BY <1>0, <1>14, <3>1 DEF ReadAgain, kid, Positions, Waiting
  <2>4. Reports'
    BY <1>0, <1>14 DEF ReadAgain, Return, kid, Reports, FirstReport
  <2>5. Alarms'
    BY <1>0, <1>14 DEF ReadAgain, Return, signals, kid, Alarms, Dead, Waiting
  <2>6. Returned'
    <3>1. pc = "again"
      BY <1>14 DEF ReadAgain
    <3>2. \/ ret'.failure = "EXEC" /\ ret'.timeout = FALSE
          \/ ret'.failure = "NONE" /\ ret'.timeout = (limited /\ shared_time_out)
      BY <1>14 DEF ReadAgain, Return, Result
    <3>3. ret'.timeout \in BOOLEAN
      BY <3>2
    <3>4. ret'.failure = "NONE" /\ ret'.timeout => Dead \/ sigterm
      BY <1>0, <3>1, <3>2 DEF Alarms, Waiting
    <3> QED
      BY <1>14, <3>2, <3>4 DEF ReadAgain, Returned, TimeoutReaches, signals, kid, Dead
  <2> QED
    BY <2>1, <2>2, <2>3, <2>4, <2>5, <2>6 DEF ShellInv
<1>15. CASE UNCHANGED vars
  BY <1>15 DEF vars, parent, signals, kid, ShellInv, Booleans, Values, Positions, Reports,
     FirstReport, Alarms, Returned, TimeoutReaches, Dead
<1> QED
  BY <1>1, <1>2, <1>3, <1>4, <1>5, <1>6, <1>7, <1>8, <1>9, <1>10, <1>11, <1>12, <1>13, <1>14,
     <1>15 DEF Next

(* The invariant, for every set of exit codes and any number of calls. *)
LEMMA ShellInvariant == Spec => []ShellInv
<1> QED
  BY ShellInit, ShellStep, PTL DEF Spec

-----------------------------------------------------------------------------
(* Type correctness, and the positions of the processes with respect to each
   other: a parent that waits has a child that has reported, an alarm is
   pending only in a call with a limit, after the report, and the pipe never
   holds more than the two reports in their order. *)
THEOREM ShellTypeCorrect == Spec => []TypeOK
<1> QED
  BY ShellInvariant, ShellTypes, PTL

(* A call that reports a timeout leaves a program that is dead or has SIGTERM
   pending, whatever the alarm interrupted. *)
THEOREM ShellTimeoutReaches == Spec => []TimeoutReaches
<1>1. ShellInv => TimeoutReaches
  BY DEF ShellInv, Returned
<1> QED
  BY ShellInvariant, <1>1, PTL

-----------------------------------------------------------------------------
(* The tuples that the abstract program and answer range over are different. *)
LEMMA TupleFacts ==
  ASSUME NEW c
  PROVE  /\ <<"none">> # <<"started">> /\ <<"signal">> \notin {<<"none">>, <<"started">>}
         /\ <<"exit", c>> \notin {<<"idle">>, <<"running">>, <<"failed">>, <<"timeout">>}
         /\ <<"exit", c>> \notin {<<"none">>, <<"started">>}
         /\ <<"signal">> \notin {<<"idle">>, <<"running">>, <<"failed">>, <<"timeout">>}
         /\ <<"idle">> # <<"running">>
         /\ <<"failed">> \notin {<<"idle">>, <<"running">>, <<"timeout">>, <<"signal">>}
         /\ <<"timeout">> \notin {<<"idle">>, <<"running">>, <<"failed">>, <<"signal">>}
<1>1. Len(<<"exit", c>>) = 2
  OBVIOUS
<1>2. \A x : Len(<<x>>) = 1
  OBVIOUS
<1>3. \A x, y : <<x>> = <<y>> => x = y
  OBVIOUS
<1> QED
  OBVIOUS

(* Every step of the processes is a step of the program that a caller sees, or
   changes nothing that the caller sees. *)
LEMMA ShellRefines == ShellInv /\ ShellInv' /\ [Next]_vars => [Abs!AbsNext]_(Abs!absVars)
<1> SUFFICES ASSUME ShellInv, ShellInv', [Next]_vars PROVE [Abs!AbsNext]_(Abs!absVars)
  OBVIOUS
<1>0. Booleans /\ Values /\ Positions /\ Reports /\ Alarms /\ Returned
  BY DEF ShellInv
<1>1. /\ child = "running" => progBar = <<"started">>
      /\ child = "killed" => progBar = <<"signal">>
      /\ child = "exited" /\ fate = "run" => progBar = <<"exit", code>>
      /\ child \in {"none", "reported"} \cup Unready => progBar = <<"none">>
      /\ child = "exited" /\ fate # "run" => progBar = <<"none">>
  BY DEF progBar, Unready
<1>2. /\ child' = "running" => progBar' = <<"started">>
      /\ child' = "killed" => progBar' = <<"signal">>
      /\ child' = "exited" /\ fate' = "run" => progBar' = <<"exit", code'>>
      /\ child' \in {"none", "reported"} \cup Unready => progBar' = <<"none">>
      /\ child' = "exited" /\ fate' # "run" => progBar' = <<"none">>
  BY DEF progBar, Unready
<1>3. /\ pc = "idle" => answerBar = <<"idle">>
      /\ pc \in {"fork", "read"} \cup Waiting => answerBar = <<"running">>
      /\ pc = "returned" /\ ret.failure # "NONE" => answerBar = <<"failed">>
      /\ pc = "returned" /\ ret.failure = "NONE" /\ ret.timeout => answerBar = <<"timeout">>
      /\ pc = "returned" /\ ret.failure = "NONE" /\ ~ret.timeout =>
           answerBar = IF ret.normal = TRUE THEN <<"exit", ret.ret>> ELSE <<"signal">>
  BY DEF answerBar, Waiting
<1>4. /\ pc' = "idle" => answerBar' = <<"idle">>
      /\ pc' \in {"fork", "read"} \cup Waiting => answerBar' = <<"running">>
      /\ pc' = "returned" /\ ret'.failure # "NONE" => answerBar' = <<"failed">>
      /\ pc' = "returned" /\ ret'.failure = "NONE" /\ ret'.timeout => answerBar' = <<"timeout">>
      /\ pc' = "returned" /\ ret'.failure = "NONE" /\ ~ret'.timeout =>
           answerBar' = IF ret'.normal = TRUE THEN <<"exit", ret'.ret>> ELSE <<"signal">>
  BY DEF answerBar, Waiting
<1>5. ASSUME NEW t \in BOOLEAN, NEW f \in Fates, NEW g \in BOOLEAN, Call(t, f, g)
      PROVE  Abs!AbsNext
  <2>1. limited' = t /\ progBar' = <<"none">> /\ answerBar' = <<"running">>
    BY <1>2, <1>4, <1>5 DEF Call
  <2>2. answerBar # <<"running">>
    BY <1>3, <1>5 DEF Call, Idle
  <2>3. Abs!Begin(t)
    BY <2>1, <2>2 DEF Abs!Begin
  <2> QED
    BY <2>3 DEF Abs!AbsNext
<1>6. ASSUME pc' = pc, ret' = ret PROVE answerBar' = answerBar
  BY <1>6 DEF answerBar
<1>7. ASSUME child' = child, fate' = fate, code' = code PROVE progBar' = progBar
  BY <1>7 DEF progBar
<1>8. ASSUME pc \in {"fork", "read"} \cup Waiting, pc' \in {"read"} \cup Waiting
      PROVE  answerBar' = answerBar
  BY <1>3, <1>4, <1>8
<1>9. ASSUME UNCHANGED <<limited, progBar, answerBar>> PROVE UNCHANGED Abs!absVars
  BY <1>9 DEF Abs!absVars
<1>10. ASSUME pc \in {"fork", "read"} \cup Waiting, pc' = "returned", ret'.failure # "NONE",
              limited' = limited, progBar' = progBar, progBar # <<"started">>
       PROVE  Abs!AbsNext
  <2>1. Abs!Answer(<<"failed">>)
    BY <1>3, <1>4, <1>10 DEF Abs!Answer, Abs!Ended
  <2> QED
    BY <2>1 DEF Abs!AbsNext, Abs!Answers
<1>11. CASE Fork
  <2>1. limited' = limited /\ child = "none" /\ pc = "fork" /\ fate' = fate
    BY <1>0, <1>11 DEF Fork, Positions
  <2>2. child' \in {"none", "forked"} /\ progBar = <<"none">> /\ progBar' = <<"none">>
    BY <1>1, <1>2, <1>11, <2>1 DEF Fork, Unready
  <2>3. \/ pc' = "read"
        \/ pc' = "returned" /\ ret'.failure # "NONE"
    BY <1>11 DEF Fork, Return, Result
  <2> QED
    BY <1>8, <1>9, <1>10, <2>1, <2>2, <2>3
<1>12. CASE SetGroup \/ Prepare
  <2>1. UNCHANGED <<limited, fate, pc, ret>> /\ child \in Unready
    BY <1>12 DEF SetGroup, Prepare, parent, Unready
  <2>2. child' \in {"ready", "reported"} \/ (child' = "exited" /\ fate # "run")
    <3>1. CASE SetGroup
      BY <3>1 DEF SetGroup
    <3>2. CASE Prepare
      BY <3>2 DEF Prepare, Exits
    <3> QED
      BY <1>12, <3>1, <3>2
  <2>3. progBar = <<"none">> /\ progBar' = <<"none">>
    BY <1>1, <1>2, <2>1, <2>2 DEF Unready
  <2> QED
    BY <1>6, <1>9, <2>1, <2>3
<1>13. CASE Exec
  <2>1. UNCHANGED <<limited, fate, pc, ret>> /\ child = "reported" /\ progBar = <<"none">>
    BY <1>1, <1>13 DEF Exec, parent
  <2>2. CASE fate = "run"
    <3>1. Abs!Start
      BY <1>2, <1>6, <1>13, <2>1, <2>2 DEF Exec, Abs!Start
    <3> QED
      BY <3>1 DEF Abs!AbsNext
  <2>3. CASE fate = "exec"
    BY <1>2, <1>6, <1>9, <1>13, <2>1, <2>3 DEF Exec, Exits
  <2> QED
    BY <1>13, <2>2, <2>3 DEF Exec
<1>14. ASSUME NEW c \in Codes, Exit(c) PROVE Abs!AbsNext
  <2>1. UNCHANGED <<limited, fate, pc, ret>> /\ child = "running" /\ child' = "exited" /\ code' = c
    BY <1>14 DEF Exit, Exits, parent
  <2>2. progBar = <<"started">> /\ progBar' = <<"exit", c>>
    BY <1>0, <1>1, <1>2, <2>1 DEF Positions
  <2>3. Abs!End(<<"exit", c>>)
    BY <1>6, <2>1, <2>2 DEF Abs!End
  <2> QED
    BY <2>3 DEF Abs!AbsNext, Abs!Ended
<1>15. CASE Crash \/ Terminate
  <2>1. UNCHANGED <<limited, fate, pc, ret>> /\ child \in {"reported", "running"}
        /\ child' = "killed"
    BY <1>15 DEF Crash, Terminate, parent
  <2>2. progBar \in {<<"none">>, <<"started">>} /\ progBar' = <<"signal">>
    BY <1>1, <1>2, <2>1
  <2>3. Abs!End(<<"signal">>)
    BY <1>6, <2>1, <2>2 DEF Abs!End
  <2> QED
    BY <2>3 DEF Abs!AbsNext, Abs!Ended
<1>16. CASE ReadReport
  <2>1. UNCHANGED <<limited, child, fate, code>> /\ pc = "read" /\ progBar' = progBar
    BY <1>7, <1>16 DEF ReadReport
  <2>2. CASE pc' = "armed"
    BY <1>8, <1>9, <2>1, <2>2 DEF Waiting
  <2>3. CASE Head(pipe) # "NONE"
    <3>1. child = "exited" /\ fate \in {"open", "args"}
      BY <1>0, <1>16, <2>3 DEF ReadReport, Values, Reports, FirstReport
    <3>2. pc' = "returned" /\ ret'.failure # "NONE"
      BY <1>16, <2>3 DEF ReadReport, Return, Result
    <3> QED
      BY <1>1, <1>10, <2>1, <3>1, <3>2
  <2> QED
    BY <1>16, <2>2, <2>3 DEF ReadReport
<1>17. CASE EnterWait \/ Reap
  BY <1>7, <1>8, <1>9, <1>17 DEF EnterWait, Reap, kid, Waiting
<1>18. CASE AlarmHandler
  <2>1. CASE pc' = pc
    BY <1>6, <1>7, <1>9, <1>18, <2>1 DEF AlarmHandler, kid
  <2>2. CASE pc = "wait" /\ pc' = "woken"
    BY <1>7, <1>8, <1>9, <1>18, <2>2 DEF AlarmHandler, kid, Waiting
  <2> QED
    BY <1>18, <2>1, <2>2 DEF AlarmHandler
<1>19. CASE Cancel
  <2>1. pc = "woken" /\ pc' = "again"
    BY <1>0, <1>19 DEF Cancel, Alarms
  <2> QED
    BY <1>7, <1>8, <1>9, <1>19, <2>1 DEF Cancel, kid, Waiting
<1>20. CASE ReadAgain
  <2>1. /\ pc = "again" /\ pc' = "returned" /\ progBar' = progBar /\ limited' = limited
        /\ answerBar = <<"running">>
    BY <1>3, <1>7, <1>20 DEF ReadAgain, Return, kid, Waiting
  <2>2. CASE pipe # <<>>
    <3>1. child = "exited" /\ fate = "exec"
      BY <1>0, <2>1, <2>2 DEF Values, Reports, FirstReport
    <3>2. ret'.failure # "NONE"
      BY <1>20, <2>2 DEF ReadAgain, Return, Result
    <3> QED
      BY <1>1, <1>10, <2>1, <3>1, <3>2 DEF Waiting
  <2>3. CASE pipe = <<>> /\ limited /\ shared_time_out
    <3>1. ret'.failure = "NONE" /\ ret'.timeout
      <4>1. ret' = Result("NONE", limited /\ shared_time_out, Status, Normal)
        BY <1>20, <2>3 DEF ReadAgain, Return
      <4>2. ret'.failure = "NONE" /\ ret'.timeout = (limited /\ shared_time_out)
        BY <4>1 DEF Result
      <4> QED
        BY <2>3, <4>2
    <3>2. Abs!Answer(<<"timeout">>)
      BY <1>4, <2>1, <2>3, <3>1 DEF Abs!Answer, Abs!Ended
    <3> QED
      BY <3>2 DEF Abs!AbsNext, Abs!Answers
  <2>4. CASE pipe = <<>> /\ ~(limited /\ shared_time_out)
    <3>1. waited = "child" /\ Dead
      BY <1>0, <2>1, <2>4 DEF Alarms, Values
    <3>2. /\ ret'.failure = "NONE" /\ ~ret'.timeout /\ ret'.ret = code
          /\ ret'.normal = (child = "exited")
      <4>1. ret' = Result("NONE", limited /\ shared_time_out, Status, Normal)
        BY <1>20, <2>4 DEF ReadAgain, Return
      <4>2. /\ ret'.failure = "NONE" /\ ret'.timeout = (limited /\ shared_time_out)
            /\ ret'.ret = Status /\ ret'.normal = Normal
        BY <4>1 DEF Result
      <4> QED
        BY <2>4, <3>1, <4>2 DEF Status, Normal
    <3>3. progBar \in Abs!Ended /\ answerBar' = progBar
      <4>1. CASE child = "exited"
        <5>1. fate = "run" /\ code \in Codes
          BY <1>0, <2>1, <2>4, <4>1 DEF Positions, Reports, Waiting
        <5> QED
          BY <1>1, <1>4, <2>1, <3>2, <4>1, <5>1 DEF Abs!Ended
      <4>2. CASE child = "killed"
        BY <1>1, <1>4, <2>1, <3>2, <4>2 DEF Abs!Ended
      <4> QED
        BY <3>1, <4>1, <4>2 DEF Dead
    <3>4. Abs!Answer(progBar)
      BY <2>1, <3>3 DEF Abs!Answer, Abs!Ended
    <3> QED
      BY <3>3, <3>4 DEF Abs!AbsNext, Abs!Answers, Abs!Ended
  <2> QED
    BY <2>2, <2>3, <2>4
<1>21. CASE UNCHANGED vars
  BY <1>6, <1>7, <1>9, <1>21 DEF vars, parent, kid
<1> QED
  BY <1>5, <1>11, <1>12, <1>13, <1>14, <1>15, <1>16, <1>17, <1>18, <1>19, <1>20, <1>21 DEF Next

(* Refinement: the parent, the child, the pipe and the alarm run a program as a
   caller expects, for every set of exit codes and any number of calls. *)
THEOREM ShellRunsProgram == Spec => RunsProgram
<1>1. Init => Abs!AbsInit
  BY DEF Init, Abs!AbsInit, progBar, answerBar
<1> QED
  BY <1>1, ShellInvariant, ShellRefines, PTL DEF Spec, RunsProgram, Abs!AbsSpec
=============================================================================
