----------------------------- MODULE RunProgram -----------------------------
(***************************************************************************)
(* What a caller of os_portable_execute_shell relies on: the program is    *)
(* started at most once, and the call returns either that it could not be  *)
(* started, or how the program ended, or, if a time limit was given, that  *)
(* the limit has passed.                                                   *)
(***************************************************************************)
CONSTANTS Codes    \* exit codes of programs

VARIABLES limited,  \* a time limit was given
          prog,     \* how far the program is
          answer    \* what the call has returned, or that it is under way

absVars == <<limited, prog, answer>>

Ended == {<<"exit", c>> : c \in Codes} \cup {<<"signal">>}
Answers == {<<"idle">>, <<"running">>, <<"failed">>, <<"timeout">>} \cup Ended

AbsInit == limited = FALSE /\ prog = <<"none">> /\ answer = <<"idle">>

Begin(t) ==
  /\ answer # <<"running">>
  /\ limited' = t /\ prog' = <<"none">> /\ answer' = <<"running">>
Start == prog = <<"none">> /\ prog' = <<"started">> /\ UNCHANGED <<limited, answer>>
End(e) ==
  /\ prog \in {<<"none">>, <<"started">>}   \* a signal may come before the start
  /\ prog' = e /\ UNCHANGED <<limited, answer>>
Answer(a) ==
  /\ answer = <<"running">>
  /\ a = <<"timeout">> => limited
  /\ a = <<"failed">> => prog # <<"started">>
  /\ a \in Ended => a = prog
  /\ answer' = a /\ UNCHANGED <<limited, prog>>

AbsNext ==
  \/ \E t \in BOOLEAN : Begin(t)
  \/ Start
  \/ \E e \in Ended : End(e)
  \/ \E a \in Answers \ {<<"idle">>, <<"running">>} : Answer(a)

AbsSpec == AbsInit /\ [][AbsNext]_absVars
=============================================================================
