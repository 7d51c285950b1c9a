------------------------------ MODULE ChildQueue ------------------------------
(***************************************************************************)
(* What the child task manager of the framework promises to the objects of *)
(* an app, without indices, counts and semaphores: commands handed to the  *)
(* child task are run one at a time, in the order they were accepted, each *)
(* of them once.  It does not promise that the child task goes on.         *)
(***************************************************************************)
EXTENDS Sequences, Naturals

CONSTANTS Msgs,     \* commands for the child task
          Entries,  \* how many of them may wait
          NoMsg     \* no command is running

VARIABLES pending,  \* accepted commands that wait
          running   \* the command whose handler is running, or NoMsg

queueVars == <<pending, running>>

QueueInit == pending = <<>> /\ running = NoMsg

\* The parent hands a command over; a full queue takes none.
Accept(m) ==
  /\ Len(pending) + (IF running = NoMsg THEN 0 ELSE 1) < Entries
  /\ pending' = Append(pending, m)
  /\ UNCHANGED running

\* The child task begins with the oldest command ...
Begin ==
  /\ running = NoMsg /\ pending # <<>>
  /\ running' = Head(pending) /\ pending' = Tail(pending)

\* ... and returns from its handler.
End == running # NoMsg /\ running' = NoMsg /\ UNCHANGED pending

QueueNext == (\E m \in Msgs : Accept(m)) \/ Begin \/ End

QueueSpec == QueueInit /\ [][QueueNext]_queueVars
=============================================================================
