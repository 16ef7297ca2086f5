---------------------------- MODULE ZemPrograms ----------------------------
(***************************************************************************)
(* The two programs that use zemaphores: zemaphore_exercise.c, where three *)
(* threads print in turn, and test-zem.c, where the main thread (0) and    *)
(* two children (1 and 2) hand each other the turn.  A thread is a         *)
(* sequence of instructions: the zem_down and zem_up calls, in the order   *)
(* the C function makes them, and the lines it prints.                     *)
(***************************************************************************)
EXTENDS Zemaphore, Sequences

CONSTANT NUM_ITER

ASSUME ProgramAssumption == NUM_ITER \in Nat

VARIABLES
  program,  \* the program that runs
  ip,       \* per thread: the instruction it executes
  output    \* the threads that printed, in the order of the lines

programVars == <<program, ip, output>>

-----------------------------------------------------------------------------
down(z) == [op |-> "down", zem |-> z]
up(z) == [op |-> "up", zem |-> z]
printf == [op |-> "printf"]

(* justprint of zemaphore_exercise.c for thread_id t: one iteration of the *)
(* loop, and the loop.                                                     *)
Turn == [t \in {0, 1, 2} |-> CASE t = 0 -> "zero" [] t = 1 -> "first" [] t = 2 -> "second"]
NextTurnSelf(t) == Turn[t]
NextTurn(t) == Turn[(t + 1) % 3]
Iteration(t) == <<down(Turn[t]), printf, up(NextTurn(t))>>
ExerciseThread(t) ==
  [k \in 1 .. 3 * NUM_ITER |-> Iteration(t)[1 + ((k - 1) % 3)]]
Exercise == [t \in {0, 1, 2} |-> ExerciseThread(t)]

(* test-zem.c: justprint, and main. *)
TestChild == <<down("child"), printf, up("parent")>>
TestMain ==
  <<printf, up("child"), down("parent"), printf, up("child"), down("parent"), printf>>
Test == [t \in {0, 1, 2} |-> IF t = 0 THEN TestMain ELSE TestChild]

(* The values zem_init is called with. *)
InitialZems == [z \in {"zero", "first", "second", "child", "parent"} |->
  IF z = "zero" THEN 1 ELSE 0]

Instructions(t) == IF program = "exercise" THEN Exercise[t] ELSE Test[t]

-----------------------------------------------------------------------------
ProgramInit ==
  /\ Init
  /\ program \in {"exercise", "test"}
  /\ ip = [t \in Threads |-> 1]
  /\ output = <<>>

Finished(t) == ip[t] > Len(Instructions(t))
At(t, op) == ~Finished(t) /\ Instructions(t)[ip[t]].op = op

Advance(t) == ip' = [ip EXCEPT ![t] = @ + 1]

PrintLine(t) ==
  /\ At(t, "printf")
  /\ output' = Append(output, t)
  /\ Advance(t)
  /\ UNCHANGED <<vars, program>>

StartCall(t) ==
  /\ \/ At(t, "down") /\ DownLock(t, Instructions(t)[ip[t]].zem)
     \/ At(t, "up") /\ UpLock(t, Instructions(t)[ip[t]].zem)
  /\ UNCHANGED programVars

(* A step of the call; the thread goes on when the call returns. *)
ContinueCall(t) ==
  /\ InCall(t)
  /\ IF pc'[t] = "idle" THEN Advance(t) ELSE UNCHANGED ip
  /\ UNCHANGED <<program, output>>

Step(t) == PrintLine(t) \/ StartCall(t) \/ ContinueCall(t)
Wakeup(t) == SpuriousWakeup(t) /\ UNCHANGED programVars

ProgramNext == \E t \in Threads : Step(t) \/ Wakeup(t)

(* Every runnable thread is scheduled eventually and spurious wake-ups are *)
(* not endless.                                                            *)
allVars == <<vars, programVars>>
FairProgram ==
  /\ ProgramInit /\ [][ProgramNext]_allVars
  /\ \A t \in Threads : WF_allVars(Step(t))
  /\ <>[][\A t \in Threads : ~Wakeup(t)]_allVars

-----------------------------------------------------------------------------
(* "Goal is to print 0,1,2,0,1,2" (zemaphore_exercise.c:14): whatever the  *)
(* scheduler does, the lines printed so far come in that order.            *)
RoundRobin ==
  program = "exercise" => \A k \in 1 .. Len(output) : output[k] = (k - 1) % 3

(* In test-zem.c main's line "This should print first" is the first one    *)
(* (line 39: "in spite of sleep, this should print first"), and when main  *)
(* says that one thread or the second thread has printed, exactly one or   *)
(* both have.                                                              *)
MainPrintsInTurn ==
  program = "test" => \A k \in 1 .. Len(output) : output[k] = 0 <=> k \in {1, 3, 5}

(* Both programs print in the order of their turns.                        *)
PrintsInTurn == RoundRobin /\ MainPrintsInTurn

(* Every thread reaches its end, so that the joins of main return. *)
AllThreadsFinish == <>(\A t \in Threads : Finished(t))
=============================================================================
