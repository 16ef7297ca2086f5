------------------------------- MODULE Shell --------------------------------
(***************************************************************************)
(* my_shell.c: the loop that reads a line, runs its commands, and reaps    *)
(* the background processes that ended.  Children start and end on their   *)
(* own, also between two iterations of the shell's loops, and the kernel   *)
(* may give the number of a reaped process to the next one.                *)
(*                                                                         *)
(* A line is its commands and the operators between them; of a command     *)
(* only the kind matters.  A child whose execvp fails stays alive as a     *)
(* second shell: to this shell it is a program like any other.  fork does  *)
(* not fail.                                                               *)
(***************************************************************************)
EXTENDS Integers, Sequences, FiniteSets, FiniteSetsExt

CONSTANTS
  Pids,        \* the process numbers of children
  BG_CHUNK,    \* how many numbers fit into the memory bg_procs points to
  Lines        \* what the user types

Kinds == {"program", "cd", "exit", "nothing"}

ASSUME ShellAssumption ==
  /\ IsFiniteSet(Pids) /\ Pids \subseteq Nat \ {0}
  /\ BG_CHUNK \in Nat \ {0}
  /\ \A l \in Lines :
       /\ l.words \in Seq(Kinds) /\ l.ops \in Seq({"&", "&&", "&&&"})
       /\ Len(l.words) = Len(l.ops) + 1

Junk == 0      \* a number of bg_procs that nobody wrote

VARIABLES
  shell,                  \* where the shell is, or how it stopped
  cmds,                   \* the commands of the line still to run
  is_background, is_exited,
  i,                      \* the variable of the loop that runs
  bg_procs, bg_procs_idx,
  status,                 \* what each child is doing
  background,             \* the children started in the background
  crowded                 \* history: two of them were unreaped at a time

line == <<cmds, is_background, is_exited>>
table == <<bg_procs, bg_procs_idx>>
children == <<status, background, crowded>>
shellVars == <<shell, line, i, table, children>>

ShellInit ==
  /\ shell = "prompt"
  /\ cmds = <<>> /\ is_background = FALSE /\ is_exited = FALSE
  /\ i = 0
  /\ bg_procs = [k \in 0 .. BG_CHUNK |-> Junk] /\ bg_procs_idx = 0
  /\ status = [p \in Pids |-> "none"]
  /\ background = {}
  /\ crowded = FALSE

Alive == shell \in {"prompt", "execute", "wait", "kill", "reap"}
Children == {p \in Pids : status[p] # "none"}

-----------------------------------------------------------------------------
(* make_cmds starts a new array after "&&" and "&&&" but not after "&":    *)
(* commands joined by "&" share one array, which holds the last of them.   *)
(* The last operator decides about the whole line.                         *)
SharedArray(l, k) ==
  Min({n \in k .. Len(l.words) : n = Len(l.words) \/ l.ops[n] # "&"})
make_cmds(l) == [k \in DOMAIN l.words |-> l.words[SharedArray(l, k)]]
InBackground(l) == l.ops # <<>> /\ l.ops[Len(l.ops)] # "&&"

ReadLine(l) ==
  /\ shell = "prompt"
  /\ shell' = "execute"
  /\ cmds' = make_cmds(l)
  /\ is_background' = InBackground(l)
  /\ UNCHANGED <<is_exited, i, table, children>>

Executes(kind) == shell = "execute" /\ cmds # <<>> /\ Head(cmds) = kind

(* strcmp gets a null pointer. *)
ExecuteNothing ==
  /\ Executes("nothing")
  /\ shell' = "crashed"
  /\ UNCHANGED <<line, i, table, children>>

ExecuteCd ==
  /\ Executes("cd")
  /\ cmds' = Tail(cmds)
  /\ UNCHANGED <<shell, is_background, is_exited, i, table, children>>

(* fork; the parent waits for a foreground child ... *)
ExecuteForeground(p) ==
  /\ Executes("program") /\ ~is_background
  /\ status[p] = "none"
  /\ status' = [status EXCEPT ![p] = "forked"]
  /\ background' = background \ {p}
  /\ cmds' = Tail(cmds)
  /\ shell' = "wait"
  /\ UNCHANGED <<is_background, is_exited, i, table, crowded>>

(* ... and writes the number of a background child into bg_procs, even     *)
(* past the memory it points to.                                           *)
add_bg_procs(p) ==
  IF bg_procs_idx = BG_CHUNK
    THEN shell' = "overflow" /\ UNCHANGED table
    ELSE /\ bg_procs' = [bg_procs EXCEPT ![bg_procs_idx] = p]
         /\ bg_procs_idx' = bg_procs_idx + 1
         /\ shell' = shell

ExecuteBackground(p) ==
  /\ Executes("program") /\ is_background
  /\ status[p] = "none"
  /\ status' = [status EXCEPT ![p] = "forked"]
  /\ background' = background \cup {p}
  /\ crowded' = (crowded \/ background \cap Children # {})
  /\ add_bg_procs(p)
  /\ cmds' = Tail(cmds)
  /\ UNCHANGED <<is_background, is_exited, i>>

WaitForegroundAny == {p \in Children : status[p] = "zombie"}
WaitForeground == {p \in Children \ background : status[p] = "zombie"}

EndWait ==
  /\ shell = "wait"
  /\ \E p \in WaitForeground : status' = [status EXCEPT ![p] = "none"]
  /\ shell' = "execute"
  /\ UNCHANGED <<line, i, table, background, crowded>>

(* exit kills and reaps the processes of the table, one after the other;   *)
(* number 0 stands for the whole group of the shell.                       *)
ExecuteExit ==
  /\ Executes("exit")
  /\ shell' = "kill"
  /\ i' = 0
  /\ UNCHANGED <<line, table, children>>

InGroup == {p \in Children : p \notin background \/ status[p] = "forked"}
KillGroup(how) ==
  /\ shell' = how
  /\ status' = [p \in Pids |-> IF p \in InGroup THEN "none" ELSE status[p]]
  /\ UNCHANGED <<line, i, table, background, crowded>>

KillMoreOneShort == i + 1 < bg_procs_idx
KillMore == i < bg_procs_idx

KillNext ==
  /\ shell = "kill" /\ KillMore
  /\ IF bg_procs[i] = Junk THEN KillGroup("killed")
     ELSE /\ status' = [status EXCEPT ![bg_procs[i]] = "none"]
          /\ i' = i + 1
          /\ UNCHANGED <<shell, line, table, background, crowded>>

KillDone ==
  /\ shell = "kill" /\ ~KillMore
  /\ is_exited' = TRUE
  /\ shell' = "execute"
  /\ cmds' = Tail(cmds)
  /\ UNCHANGED <<is_background, i, table, children>>

(* The end of the line: leave the loop, or reap_bg_procs.                  *)
EndLine ==
  /\ shell = "execute" /\ cmds = <<>>
  /\ shell' = IF is_exited THEN "exited" ELSE "reap"
  /\ i' = 0
  /\ UNCHANGED <<line, table, children>>

(* waitpid with WNOHANG.  The last entry is looked for one cell too far.   *)
Reapable == bg_procs[i] \in Children /\ status[bg_procs[i]] = "zombie"

ReapMoreOneShort == i + 1 < bg_procs_idx
ReapMore == i <= bg_procs_idx

ReapNext ==
  /\ shell = "reap" /\ ReapMore
  /\ i' = i + 1
  /\ IF Reapable
       THEN /\ status' = [status EXCEPT ![bg_procs[i]] = "none"]
            /\ bg_procs' = [bg_procs EXCEPT ![i] = bg_procs[bg_procs_idx]]
            /\ bg_procs_idx' = bg_procs_idx - 1
       ELSE UNCHANGED <<status, table>>
  /\ UNCHANGED <<shell, line, background, crowded>>

ReapDone ==
  /\ shell = "reap" /\ ~ReapMore
  /\ shell' = "prompt"
  /\ UNCHANGED <<line, i, table, children>>

(* Ctrl-C reaches the shell's group: a background child leaves it between  *)
(* its fork and its start.                                                 *)
Interrupt == Alive /\ KillGroup("interrupted")

ChildStep(p, from, to) ==
  /\ Alive /\ status[p] = from
  /\ status' = [status EXCEPT ![p] = to]
  /\ UNCHANGED <<shell, line, i, table, background, crowded>>

ChildStarts(p) == ChildStep(p, "forked", "running")
ChildEnds(p) == ChildStep(p, "running", "zombie")

-----------------------------------------------------------------------------
ShellStep ==
  \/ ExecuteNothing \/ ExecuteCd \/ ExecuteExit
  \/ \E p \in Pids : ExecuteForeground(p) \/ ExecuteBackground(p)
  \/ EndWait \/ KillNext \/ KillDone \/ EndLine \/ ReapNext \/ ReapDone
User == \E l \in Lines : ReadLine(l)
Child(p) == ChildStarts(p) \/ ChildEnds(p)

ShellNext == ShellStep \/ User \/ Interrupt \/ \E p \in Pids : Child(p)
ShellSpec == ShellInit /\ [][ShellNext]_shellVars

(* The user goes on typing, and every child ends.                          *)
FairShellSpec == ShellSpec /\ WF_shellVars(ShellStep) /\ WF_shellVars(User) /\ \A p \in Pids : WF_shellVars(Child(p))

-----------------------------------------------------------------------------
ShellTypeOK ==
  /\ shell \in {"prompt", "execute", "wait", "kill", "reap", "crashed", "overflow",
                "killed", "exited", "interrupted"}
  /\ cmds \in Seq(Kinds) /\ is_background \in BOOLEAN /\ is_exited \in BOOLEAN
  /\ i \in Nat
  /\ bg_procs \in [0 .. BG_CHUNK -> Pids \cup {Junk}]
  /\ bg_procs_idx \in 0 .. BG_CHUNK
  /\ status \in [Pids -> {"none", "forked", "running", "zombie"}]
  /\ background \subseteq Pids /\ crowded \in BOOLEAN

BackgroundChildren == background \cap Children
Settled == Alive /\ shell # "kill" /\ ~is_exited

(* bg_procs_idx counts the background children that are not reaped, though *)
(* reaping moves the wrong entry: it never becomes negative, and the table *)
(* overflows only when so many of them really exist.                       *)
TableCounts == Settled => bg_procs_idx = Cardinality(BackgroundChildren)

(* "they need to be reaped otherwise they will stay as zombie process"     *)
(* (my_shell.c:26): while there is at most one background process at a     *)
(* time the table is exact ...                                             *)
TableHoldsChildren == Settled /\ ~crowded =>
  {bg_procs[k] : k \in 0 .. bg_procs_idx - 1} = BackgroundChildren
TableInv == ShellTypeOK /\ TableCounts /\ TableHoldsChildren

(* ... every one that ends is reaped, unless the shell stops ... *)
FinishedReaped == \A p \in Pids :
  p \in background /\ status[p] = "zombie"
    ~> status[p] # "zombie" \/ ~Alive \/ crowded

(* ... and exit leaves none behind. *)
ExitKillsAll == [][KillDone /\ ~crowded => BackgroundChildren' = {}]_shellVars
=============================================================================
