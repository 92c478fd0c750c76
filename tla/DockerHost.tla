----------------------------- MODULE DockerHost -----------------------------
(***************************************************************************)
(* comnetsemu/node.py, class DockerHost, and waitForNode of                *)
(* comnetsemu/cli.py: a host is a container and, in it, an interactive     *)
(* shell behind a pseudo terminal of the emulator.  Commands are typed     *)
(* into the shell and end with its prompt, chr(127).  The container, the   *)
(* shell and the user are not under the emulator's control: both may end   *)
(* at any time, and the user may interrupt a command in the CLI.           *)
(* The container is created with auto_remove: once it stops it is gone.    *)
(***************************************************************************)
EXTENDS Integers, Sequences, FiniteSets

CONSTANTS
  MaxShells,  \* bound: shells started for the host
  WaitExited  \* the attribute of Mininet's Node that cleanup reads

ASSUME DockerHostAssumption ==
  /\ MaxShells \in Nat \ {0}
  /\ WaitExited \in BOOLEAN

VARIABLES
  container,  \* "none" (not created yet), "created", "running" or "gone"
  refused,    \* history: docker has refused to remove the container
  shell,      \* self.shell: the number of a shell, 0 for None
  opened,     \* pseudo terminals opened so far; the last one is self.master, self.slave
  slaves,     \* those whose slave end the emulator still holds open
  procs,      \* shells whose process (docker exec) runs
  starting,   \* shells that have not printed their first prompt
  busy,       \* shells that execute a command
  unread,     \* prompts printed to each pseudo terminal and not read
  waiting,    \* self.waiting
  pc,         \* where the thread of the script or of the CLI is
  stack       \* commands being sent, innermost first: "setup", "cmd", "line"

vars == <<container, refused, shell, opened, slaves, procs, starting, busy, unread, waiting, pc, stack>>
docker == <<container, refused, procs, starting, busy>>
terminal == <<shell, opened, slaves>>

Shells == 1 .. MaxShells
Working == {"create", "boot", "check", "poll", "prompt", "send", "output", "node", "remove", "reap"}
Init ==
  /\ container = "none" /\ refused = FALSE /\ shell = 0 /\ opened = 0 /\ slaves = {}
  /\ procs = {} /\ starting = {} /\ busy = {} /\ unread = [s \in Shells |-> 0]
  /\ waiting = FALSE /\ pc = "create" /\ stack = <<>>

----------------------------------------------------------------------------
(* The constructor.                                                        *)

\* containers.run: it raises when the daemon refuses the container.
Create ==
  /\ pc = "create"
  /\ \/ container' = "created" /\ pc' = "boot"
     \/ container' = container /\ pc' = "raised"
  /\ UNCHANGED <<refused, terminal, procs, starting, busy, unread, waiting, stack>>

\* startShell up to the wait for the prompt: a new pseudo terminal, a new docker exec.  The
\* slave of the terminal before is not closed.
StartShell ==
  /\ opened < MaxShells
  /\ opened' = opened + 1
  /\ shell' = opened + 1
  /\ slaves' = slaves \cup {opened + 1}
  /\ procs' = procs \cup {opened + 1}
  /\ starting' = starting \cup {opened + 1}
  /\ pc' = "prompt"

\* while not State.Running: reload(), which raises when the container is gone.
Boot ==
  /\ pc = "boot"
  /\ \/ container = "running" /\ StartShell
     \/ container = "gone" /\ pc' = "raised" /\ UNCHANGED <<terminal, procs, starting>>
  /\ UNCHANGED <<container, refused, busy, unread, waiting, stack>>

----------------------------------------------------------------------------
(* Commands.                                                               *)

\* The end of startShell: the first prompt, then a command that sets the shell up.  The
\* emulator holds the slave, so a shell that ends without a prompt does not end the read.
ReadPrompt ==
  /\ pc = "prompt" /\ unread[opened] > 0
  /\ unread' = [unread EXCEPT ![opened] = 0]
  /\ waiting' = FALSE
  /\ stack' = <<"setup">> \o stack
  /\ pc' = "check"
  /\ UNCHANGED <<docker, terminal>>

\* cmd(), called by a script, or a line of the CLI that starts with the name of the host.
Call ==
  /\ pc = "idle"
  /\ stack' \in {<<"cmd">>, <<"line">>}
  /\ pc' = "check"
  /\ UNCHANGED <<docker, terminal, unread, waiting>>

\* What the caller does once sendCmd is back: waitOutput, or waitForNode of the CLI.
Await == IF Head(stack) = "line" THEN "node" ELSE "output"

\* _check_shell, first: is the container running?  If not the shell is forgotten and nothing
\* is sent.
CheckContainer ==
  /\ pc = "check"
  /\ \/ container = "running" /\ pc' = "poll" /\ UNCHANGED shell
     \/ container = "gone" /\ pc' = Await /\ shell' = 0
  /\ UNCHANGED <<docker, opened, slaves, unread, waiting, stack>>

\* _check_shell, second: a shell that has ended is replaced.
PollShell ==
  /\ pc = "poll"
  /\ \/ shell \in procs /\ pc' = "send" /\ UNCHANGED <<terminal, procs, starting>>
     \/ shell \notin procs /\ StartShell
  /\ UNCHANGED <<container, refused, busy, unread, waiting, stack>>

\* Faulty variant: without the assertion.
SendUnchecked ==
  /\ pc = "send"
  /\ IF shell = 0 THEN pc' = Await /\ UNCHANGED <<busy, waiting>>
     ELSE /\ pc' = Await /\ waiting' = TRUE
          /\ busy' = IF shell \in procs THEN busy \cup {shell} ELSE busy
  /\ UNCHANGED <<container, refused, procs, starting, terminal, unread, stack>>

\* sendCmd: nothing without a shell; Mininet asserts that no command is under way.
Send ==
  /\ pc = "send"
  /\ IF shell = 0 THEN pc' = Await /\ UNCHANGED <<busy, waiting>>
     ELSE IF waiting THEN pc' = "raised" /\ UNCHANGED <<busy, waiting>>
     ELSE /\ pc' = Await /\ waiting' = TRUE
          /\ busy' = IF shell \in procs THEN busy \cup {shell} ELSE busy
  /\ UNCHANGED <<container, refused, procs, starting, terminal, unread, stack>>

\* A command is back: below a "setup" is the command _check_shell was called for.
Return ==
  /\ stack' = Tail(stack)
  /\ pc' = IF Len(stack) = 1 THEN "idle" ELSE "send"

\* monitor(): what was printed is read, and the flag falls if a prompt is in it.
Monitor ==
  /\ opened > 0 /\ unread[opened] > 0
  /\ unread' = [unread EXCEPT ![opened] = 0]
  /\ waiting' = FALSE

\* Node.waitOutput: reads until a prompt, unless no command is under way.
WaitOutput ==
  /\ pc = "output"
  /\ IF waiting THEN Monitor ELSE UNCHANGED <<unread, waiting>>
  /\ Return
  /\ UNCHANGED <<docker, terminal>>

\* waitForNode: blocks until the host prints or a key is pressed, and only then looks at the
\* flag.
WaitForNode ==
  /\ pc = "node"
  /\ \/ Monitor
     \/ ~waiting /\ UNCHANGED <<unread, waiting>>
  /\ Return
  /\ UNCHANGED <<docker, terminal>>

\* Faulty variant: the flag falls, as if the command were terminated.
InterruptResets ==
  /\ pc = "node"
  /\ unread' = IF shell \in procs \ busy THEN [unread EXCEPT ![shell] = @ + 1] ELSE unread
  /\ waiting' = FALSE
  /\ Return
  /\ UNCHANGED <<docker, terminal>>

\* ^C in waitForNode is typed into the shell, which prints its prompt again if it is idle;
\* the command may ignore it.  The flag is left as it is.
Interrupt ==
  /\ pc = "node"
  /\ unread' = IF shell \in procs \ busy THEN [unread EXCEPT ![shell] = @ + 1] ELSE unread
  /\ Return
  /\ UNCHANGED <<docker, terminal, waiting>>

----------------------------------------------------------------------------
(* The end of the host.                                                    *)

\* terminate() does nothing for a container that is gone.
Terminate ==
  /\ pc = "idle"
  /\ pc' = IF container = "running" THEN "remove" ELSE "closed"
  /\ UNCHANGED <<docker, terminal, unread, waiting, stack>>

\* remove(force=True): an error of the daemon is only printed, and then the container is where
\* it was, running or by now gone.
TryRemove ==
  \/ container' = "gone" /\ UNCHANGED refused
  \/ refused' = TRUE /\ UNCHANGED container

\* Faulty variant: the terminal is closed and the shell waited for before the removal.
RemoveLast ==
  /\ pc = "remove"
  /\ slaves' = IF shell = 0 THEN slaves ELSE slaves \ {opened}
  /\ IF shell # 0 /\ WaitExited
     THEN pc' = "reap" /\ UNCHANGED shell
     ELSE pc' = "closed" /\ shell' = 0
  /\ UNCHANGED <<docker, opened, unread, waiting, stack>>

\* Faulty variant: the shell is not waited for.
RemoveNoWait ==
  /\ pc = "remove"
  /\ TryRemove
  /\ slaves' = IF shell = 0 THEN slaves ELSE slaves \ {opened}
  /\ pc' = "closed" /\ shell' = 0
  /\ UNCHANGED <<procs, starting, busy, opened, unread, waiting, stack>>

\* terminate, then cleanup(): whether or not the container went, the terminal is closed and
\* the shell waited for.
RemoveHost ==
  /\ pc = "remove"
  /\ TryRemove
  /\ slaves' = IF shell = 0 THEN slaves ELSE slaves \ {opened}
  /\ IF shell # 0 /\ WaitExited
     THEN pc' = "reap" /\ UNCHANGED shell
     ELSE pc' = "closed" /\ shell' = 0
  /\ UNCHANGED <<procs, starting, busy, opened, unread, waiting, stack>>

\* shell.wait()
Reap ==
  /\ pc = "reap" /\ shell \notin procs
  /\ shell' = 0
  /\ pc' = "closed"
  /\ UNCHANGED <<docker, opened, slaves, unread, waiting, stack>>

----------------------------------------------------------------------------
(* The container and the shells.                                           *)

ContainerStarts ==
  /\ container = "created"
  /\ container' = "running"
  /\ UNCHANGED <<refused, procs, starting, busy, terminal, unread, waiting, pc, stack>>

\* Its command ends, or a user removes it: auto_remove deletes it.
ContainerEnds ==
  /\ container \in {"created", "running"}
  /\ container' = "gone"
  /\ UNCHANGED <<refused, procs, starting, busy, terminal, unread, waiting, pc, stack>>

\* docker exec ends: the shell exits, is killed, or has no container.
ShellEnds(s) ==
  /\ s \in procs
  /\ procs' = procs \ {s} /\ starting' = starting \ {s} /\ busy' = busy \ {s}
  /\ UNCHANGED <<container, refused, terminal, unread, waiting, pc, stack>>

\* The first prompt, or the one that follows a command.
Prompt(s) ==
  /\ s \in starting \cup busy /\ container = "running"
  /\ unread' = [unread EXCEPT ![s] = @ + 1]
  /\ starting' = starting \ {s} /\ busy' = busy \ {s}
  /\ UNCHANGED <<container, refused, procs, terminal, waiting, pc, stack>>

Script ==
  Create \/ Boot \/ ReadPrompt \/ CheckContainer \/ PollShell \/ Send \/ WaitOutput
    \/ WaitForNode \/ RemoveHost \/ Reap

Daemon == ContainerStarts \/ \E s \in Shells : Prompt(s) \/ (container = "gone" /\ ShellEnds(s))

Next ==
  \/ Script \/ Daemon
  \/ Call \/ Interrupt \/ Terminate
  \/ ContainerEnds \/ \E s \in Shells : ShellEnds(s)

\* The thread goes on when it can; docker starts containers, ends what ran in one that is
\* gone, and the commands typed end, as the warning of CLI.default asks of them.  The user
\* presses a key in the end.
Fairness ==
  /\ WF_vars(Script)
  /\ WF_vars(ContainerStarts)
  /\ \A s \in Shells : WF_vars(Prompt(s)) /\ WF_vars(container = "gone" /\ ShellEnds(s))

Spec == Init /\ [][Next]_vars /\ Fairness

----------------------------------------------------------------------------
\* What a call waits for is the prompt of its own command: while it waits and the shell lives,
\* exactly one prompt is still to be printed or to be read, also after interrupts and after
\* shells were replaced (sendCmd, waitOutput, _check_shell).
OutputIsOwn ==
  pc = "output" /\ waiting /\ shell \in procs =>
    unread[shell] + (IF shell \in busy THEN 1 ELSE 0) = 1

\* A host at rest has read all its shell has printed and no command runs in it, so the next
\* command cannot end on the prompt of an earlier one (sendCmd, monitor, waitForNode).
QuietAtRest ==
  pc = "idle" /\ ~waiting /\ shell # 0 => unread[shell] = 0 /\ shell \notin busy \cup starting

\* A shell is given up only when its process has ended; the terminals never closed are those
\* of such shells (_check_shell).
GivenUpHasEnded == \A s \in procs : s = opened /\ (s \in slaves \/ pc \in {"reap", "closed"})

\* Once terminate has closed the terminal of the host, having waited for its shell, no docker
\* exec of the host runs, those of replaced shells included (terminate, cleanup).
ReleasedHasEnded == pc = "closed" /\ opened \notin slaves /\ WaitExited => procs = {}

\* No docker exec of the host goes on behind a terminal that nobody holds (_check_shell, terminate).
ShellsAreEnded == GivenUpHasEnded /\ ReleasedHasEnded

\* The thread waits for what never comes: for output of a shell that ended, or was forgotten,
\* with nothing left to read, or for the end of a shell whose container docker did not remove.
Hangs ==
  \/ pc \in {"prompt", "output", "node"} /\ shell \notin procs /\ unread[opened] = 0
  \/ pc = "reap" /\ shell \in procs /\ refused /\ container = "running"

\* No shell is left to replace the one that ended with: an artefact of the bound.
NoShellLeft == pc = "poll" /\ shell \notin procs /\ opened = MaxShells

\* Every call comes back, and Hangs has the only ways in which one does not: the reads have no
\* timeout and no end of file, and cleanup waits for the shell also when remove failed
\* (startShell, cmd, waitForNode, terminate, cleanup).
CallsReturn == []<>(pc \notin Working) \/ <>[](Hangs \/ NoShellLeft)
=============================================================================
