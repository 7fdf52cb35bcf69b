--------------------------- MODULE CommandExecutor ---------------------------
(***************************************************************************)
(* The runbook executor: commands run one after the other, each as a       *)
(* process group of its own that is signalled when it exceeds its timeout. *)
(*                                                                         *)
(* The processes are external.  A command's leader may spawn children; a   *)
(* process may ignore SIGTERM, as may everything it spawns, and it may     *)
(* hold on to the pipe of the command's output after the leader is gone.   *)
(***************************************************************************)
EXTENDS Integers, Sequences

CONSTANTS
    NumCommands,  \* commands to run: diagnostics, then actions
    Locked,       \* those that require an explicit unlock
    Child         \* processes a leader may spawn, at most

ASSUME ExecutorAssumption ==
    /\ NumCommands \in Nat \ {0}
    /\ Locked \subseteq 1..NumCommands
    /\ "leader" \notin Child

Command == 1..NumCommands
Leader  == "leader"
Process == {Leader} \cup Child

VARIABLES
    cmd,      \* the command in hand
    pc,       \* "start", "communicate", "term", "wait", "kill", "reap" or "over"
    proc,     \* proc[c][p]: "none", "running" or "ended"
    ignores,  \* ignores[c]: its processes that ignore SIGTERM
    pipe,     \* pipe[c]: its processes that hold the output pipe
    doomed,   \* doomed[c]: its processes a signal is about to end
    exit,     \* exit[c]: the leader's exit status, "zero" or "nonzero"
    results   \* the results returned: "success", "failure", "timeout", "blocked"

osVars == <<proc, ignores, pipe, doomed, exit>>
vars   == <<cmd, pc, osVars, results>>

Init ==
    /\ cmd = 1
    /\ pc = "start"
    /\ proc = [c \in Command |-> [p \in Process |-> "none"]]
    /\ ignores = [c \in Command |-> {}]
    /\ pipe = [c \in Command |-> {}]
    /\ doomed = [c \in Command |-> {}]
    /\ exit = [c \in Command |-> "none"]
    /\ results = <<>>

Running(c) == {p \in Process : proc[c][p] = "running"}

-----------------------------------------------------------------------------
(* The processes.                                                          *)

Ends(c, p, status) ==
    /\ proc' = [proc EXCEPT ![c][p] = "ended"]
    /\ pipe' = [pipe EXCEPT ![c] = @ \ {p}]
    /\ exit' = IF p = Leader THEN [exit EXCEPT ![c] = status] ELSE exit
    /\ UNCHANGED <<cmd, pc, ignores, doomed, results>>

\* A process ends by itself.
Exit(c, p, status) ==
    /\ p \in Running(c) \ doomed[c]
    /\ Ends(c, p, status)

\* A signal ends it.
Die(c, p) ==
    /\ p \in Running(c) \cap doomed[c]
    /\ Ends(c, p, "nonzero")

\* A process spawns a child, which inherits the disposition of SIGTERM.
Spawn(c, parent, p, ignoring, holding) ==
    /\ parent \in Running(c) \ doomed[c]
    /\ proc[c][p] = "none"
    /\ parent \in ignores[c] => ignoring
    /\ proc' = [proc EXCEPT ![c][p] = "running"]
    /\ ignores' = [ignores EXCEPT ![c] = IF ignoring THEN @ \cup {p} ELSE @]
    /\ pipe' = [pipe EXCEPT ![c] = IF holding /\ parent \in @ THEN @ \cup {p} ELSE @]
    /\ UNCHANGED <<cmd, pc, doomed, exit, results>>

-----------------------------------------------------------------------------
(* execute_command.                                                        *)

\* The result is appended, and the next command is started, if there is one.
Return(result) ==
    /\ results' = Append(results, result)
    /\ IF cmd < NumCommands THEN cmd' = cmd + 1 /\ pc' = "start"
                            ELSE cmd' = cmd /\ pc' = "over"
    /\ UNCHANGED osVars

\* Faulty variant: the refusal is reported, but the call goes on.
BlockAndRun ==
    /\ pc = "start"
    /\ cmd \in Locked
    /\ results' = Append(results, "blocked")
    /\ proc' = [proc EXCEPT ![cmd][Leader] = "running"]
    /\ pipe' = [pipe EXCEPT ![cmd] = {Leader}]
    /\ pc' = "communicate"
    /\ UNCHANGED <<cmd, ignores, doomed, exit>>

\* execute_action refuses a privileged action.
Block ==
    /\ pc = "start"
    /\ cmd \in Locked
    /\ Return("blocked")

\* Popen raises: no such program, unbalanced quotes.
CannotStart ==
    /\ pc = "start"
    /\ cmd \notin Locked
    /\ Return("failure")

Start(ignoring) ==
    /\ pc = "start"
    /\ cmd \notin Locked
    /\ proc' = [proc EXCEPT ![cmd][Leader] = "running"]
    /\ ignores' = [ignores EXCEPT ![cmd] = IF ignoring THEN {Leader} ELSE {}]
    /\ pipe' = [pipe EXCEPT ![cmd] = {Leader}]
    /\ pc' = "communicate"
    /\ UNCHANGED <<cmd, doomed, exit, results>>

\* communicate() reads to the end of the pipe and reaps the leader.
OutputEnded == pipe[cmd] = {} /\ proc[cmd][Leader] = "ended"

\* Faulty variant: the leader's exit is enough.
CommunicateLeader ==
    /\ pc = "communicate"
    /\ proc[cmd][Leader] = "ended"
    /\ Return(IF exit[cmd] = "zero" THEN "success" ELSE "failure")

Communicate ==
    /\ pc = "communicate"
    /\ OutputEnded
    /\ Return(IF exit[cmd] = "zero" THEN "success" ELSE "failure")

TimedOut ==
    /\ pc = "communicate"
    /\ ~OutputEnded
    /\ pc' = "term"
    /\ UNCHANGED <<cmd, osVars, results>>

\* Faulty variant: only the leader is signalled.
TerminateLeader ==
    /\ pc = "term"
    /\ doomed' = [doomed EXCEPT ![cmd] = ({Leader} \cap Running(cmd)) \ ignores[cmd]]
    /\ pc' = "wait"
    /\ UNCHANGED <<cmd, proc, ignores, pipe, exit, results>>

\* killpg(SIGTERM).  The leader has not been reaped: its group exists.
Terminate ==
    /\ pc = "term"
    /\ doomed' = [doomed EXCEPT ![cmd] = Running(cmd) \ ignores[cmd]]
    /\ pc' = "wait"
    /\ UNCHANGED <<cmd, proc, ignores, pipe, exit, results>>

\* wait(5) returns: the leader has ended.
GraceEnded ==
    /\ pc = "wait"
    /\ proc[cmd][Leader] = "ended"
    /\ Return("timeout")

\* Faulty variant: after the grace period the call returns as it is.
GraceExpiredGivesUp ==
    /\ pc = "wait"
    /\ proc[cmd][Leader] # "ended"
    /\ Return("timeout")

\* wait(5) raises.
GraceExpired ==
    /\ pc = "wait"
    /\ proc[cmd][Leader] # "ended"
    /\ pc' = "kill"
    /\ UNCHANGED <<cmd, osVars, results>>

\* Faulty variant: SIGTERM once more.
KillAgain ==
    /\ pc = "kill"
    /\ doomed' = [doomed EXCEPT ![cmd] = Running(cmd) \ ignores[cmd]]
    /\ pc' = "reap"
    /\ UNCHANGED <<cmd, proc, ignores, pipe, exit, results>>

\* killpg(SIGKILL)
Kill ==
    /\ pc = "kill"
    /\ doomed' = [doomed EXCEPT ![cmd] = Running(cmd)]
    /\ pc' = "reap"
    /\ UNCHANGED <<cmd, proc, ignores, pipe, exit, results>>

\* wait() without a timeout.
Reap ==
    /\ pc = "reap"
    /\ proc[cmd][Leader] = "ended"
    /\ Return("timeout")

-----------------------------------------------------------------------------

Executor ==
    \/ Block \/ CannotStart
    \/ \E ignoring \in BOOLEAN : Start(ignoring)
    \/ Communicate \/ TimedOut
    \/ Terminate \/ GraceEnded \/ GraceExpired \/ Kill \/ Reap

Next ==
    \/ Executor
    \/ \E c \in Command, p \in Process :
           \/ \E status \in {"zero", "nonzero"} : Exit(c, p, status)
           \/ Die(c, p)
    \/ \E c \in Command, parent \in Process, p \in Child, ignoring, holding \in BOOLEAN :
           Spawn(c, parent, p, ignoring, holding)

Spec == Init /\ [][Next]_vars

\* The executor's thread and its clock go on, and a process that a signal ends
\* does end.  No command has to end by itself.
FairSpec ==
    /\ Spec
    /\ WF_vars(Executor)
    /\ \A c \in Command, p \in Process : WF_vars(Die(c, p))

-----------------------------------------------------------------------------
(* Properties.                                                             *)

TypeOK ==
    /\ cmd \in Command
    /\ pc \in {"start", "communicate", "term", "wait", "kill", "reap", "over"}
    /\ proc \in [Command -> [Process -> {"none", "running", "ended"}]]
    /\ ignores \in [Command -> SUBSET Process]
    /\ pipe \in [Command -> SUBSET Process]
    /\ doomed \in [Command -> SUBSET Process]
    /\ exit \in [Command -> {"none", "zero", "nonzero"}]
    /\ results \in Seq({"success", "failure", "timeout", "blocked"})
    /\ Len(results) = IF pc = "over" THEN cmd ELSE cmd - 1

\* No command's leader outlives the call that started it, however often and
\* wherever the call was interrupted by its timeouts.
LeaderReaped ==
    \A c \in Command : c <= Len(results) => proc[c][Leader] # "running"

\* A success is reported only when the leader ended with status zero and
\* nobody is left who could still write to the output.
SuccessIsComplete ==
    \A c \in DOMAIN results : results[c] = "success" =>
        exit[c] = "zero" /\ Running(c) \cap pipe[c] = {}

\* All commands are run: a command that never ends, and ignores SIGTERM,
\* holds up the ones behind it for a while, not for ever.
AllCommandsRun == <>(pc = "over")

\* The timeout reaches the whole process group: what SIGTERM can end is ended.
TerminableEnd ==
    \A c \in Command, p \in Process :
        (Len(results) >= c /\ results[c] = "timeout" /\ p \notin ignores[c])
            ~> (proc[c][p] # "running")

\* What is left of a command that timed out, when its call returns, is about to
\* be ended by a signal or made itself immune to the first one: nobody else of
\* its process group survives the timeout.
SurvivorsIgnoreTerm ==
    \A c \in DOMAIN results : results[c] = "timeout" =>
        Running(c) \subseteq doomed[c] \cup ignores[c]
=============================================================================
