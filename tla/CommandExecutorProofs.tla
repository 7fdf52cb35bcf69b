------------------------ MODULE CommandExecutorProofs ------------------------
(***************************************************************************)
(* What holds of CommandExecutor for any number of commands and children:  *)
(* no leader outlives its call, a success is a complete one, and a timeout *)
(* leaves nobody but those that made themselves immune to SIGTERM.         *)
(***************************************************************************)
EXTENDS CommandExecutor, TLAPS

\* The executor and its processes keep their types.
THEOREM TypeCorrect == Spec => []TypeOK
<1> USE ExecutorAssumption DEF Command, Process, Leader, osVars
<1>1. Init => TypeOK
  BY DEF Init, TypeOK
<1>2. TypeOK /\ [Next]_vars => TypeOK'
  <2> SUFFICES ASSUME TypeOK, [Next]_vars PROVE TypeOK'
    OBVIOUS
  <2>1. ASSUME NEW r \in {"success", "failure", "timeout", "blocked"}, Return(r), pc # "over"
        PROVE  TypeOK'
    <3>1. results' \in Seq({"success", "failure", "timeout", "blocked"}) /\ Len(results') = cmd
      BY <2>1 DEF Return, TypeOK
    <3>2. /\ cmd' \in Command /\ pc' \in {"start", "over"}
          /\ Len(results') = IF pc' = "over" THEN cmd' ELSE cmd' - 1
      BY <2>1, <3>1 DEF Return, TypeOK
    <3> QED
      BY <2>1, <3>1, <3>2 DEF Return, TypeOK
  <2>2. CASE Executor
    <3>1. ASSUME NEW ignoring \in BOOLEAN, Start(ignoring) PROVE TypeOK'
      BY <3>1 DEF Start, TypeOK
    <3>2. CASE Block
      BY <2>1, <3>2 DEF Block
    <3>3. CASE CannotStart
      BY <2>1, <3>3 DEF CannotStart
    <3>4. CASE Communicate
      BY <2>1, <3>4 DEF Communicate
    <3>5. CASE TimedOut
      BY <3>5 DEF TimedOut, TypeOK
    <3>6. CASE Terminate
      BY <3>6 DEF Terminate, Running, TypeOK
    <3>7. CASE GraceEnded
      BY <2>1, <3>7 DEF GraceEnded
    <3>8. CASE GraceExpired
      BY <3>8 DEF GraceExpired, TypeOK
    <3>9. CASE Kill
      BY <3>9 DEF Kill, Running, TypeOK
    <3>10. CASE Reap
      BY <2>1, <3>10 DEF Reap
    <3> QED
      BY <2>2, <3>1, <3>2, <3>3, <3>4, <3>5, <3>6, <3>7, <3>8, <3>9, <3>10 DEF Executor
  <2>3. ASSUME NEW c \in Command, NEW p \in Process, NEW s \in {"zero", "nonzero"}, Ends(c, p, s)
        PROVE  TypeOK'
    BY <2>3 DEF Ends, TypeOK
  <2>4. ASSUME NEW c \in Command, NEW parent \in Process, NEW p \in Child,
               NEW ignoring \in BOOLEAN, NEW holding \in BOOLEAN,
               Spawn(c, parent, p, ignoring, holding)
        PROVE  TypeOK'
    BY <2>4 DEF Spawn, TypeOK
  <2>5. CASE UNCHANGED vars
    BY <2>5 DEF vars, TypeOK
  <2>6. CASE \E c \in Command, p \in Process :
                 (\E s \in {"zero", "nonzero"} : Exit(c, p, s)) \/ Die(c, p)
    BY <2>3, <2>6 DEF Exit, Die
  <2> QED
    BY <2>2, <2>4, <2>5, <2>6 DEF Next
<1> QED
  BY <1>1, <1>2, PTL DEF Spec

-----------------------------------------------------------------------------
(* The inductive invariant.  Commands that are still to be started have no *)
(* leader, which is why a refused or impossible start leaves none behind.  *)

NotStarted ==
    \A c \in Command : (c > cmd \/ (c = cmd /\ pc = "start")) => proc[c][Leader] = "none"

SuccessInv ==
    \A c \in Command : (c <= Len(results) /\ results[c] = "success") =>
        exit[c] = "zero" /\ proc[c][Leader] = "ended" /\ pipe[c] = {}

ExecutorInv == NotStarted /\ LeaderReaped /\ SuccessInv

\* Only the start of a command, and its end, concern a leader; a child gets
\* the pipe only from a parent that has it.
LEMMA ExecutorStep == TypeOK /\ ExecutorInv /\ [Next]_vars => ExecutorInv'
<1> SUFFICES ASSUME TypeOK, ExecutorInv, [Next]_vars PROVE ExecutorInv'
  OBVIOUS
<1> USE ExecutorAssumption
    DEF TypeOK, ExecutorInv, NotStarted, LeaderReaped, SuccessInv,
        Command, Process, Leader, osVars
<1>1. ASSUME NEW r \in {"success", "failure", "timeout", "blocked"}, Return(r), pc # "over",
             proc[cmd][Leader] # "running",
             r = "success" => exit[cmd] = "zero" /\ proc[cmd][Leader] = "ended" /\ pipe[cmd] = {}
      PROVE  ExecutorInv'
  <2>1. Len(results') = cmd /\ results'[cmd] = r
    BY <1>1 DEF Return
  <2>2. \A c \in Command : c < cmd => results'[c] = results[c] /\ c <= Len(results)
    BY <1>1 DEF Return
  <2>3. NotStarted'
    <3>1. CASE cmd < NumCommands
      BY <1>1, <3>1 DEF Return
    <3>2. CASE ~(cmd < NumCommands)
      BY <1>1, <3>2 DEF Return
    <3> QED
      BY <3>1, <3>2
  <2>4. LeaderReaped'
    BY <1>1, <2>1, <2>2 DEF Return
  <2>5. SuccessInv'
    BY <1>1, <2>1, <2>2 DEF Return
  <2> QED
    BY <2>3, <2>4, <2>5
<1>2. CASE Executor
  <2>1. ASSUME NEW ignoring \in BOOLEAN, Start(ignoring) PROVE ExecutorInv'
    BY <2>1 DEF Start
  <2>2. CASE Block
    BY <1>1, <2>2 DEF Block
  <2>3. CASE CannotStart
    BY <1>1, <2>3 DEF CannotStart
  <2>4. CASE Communicate
    BY <1>1, <2>4 DEF Communicate, OutputEnded
  <2>5. CASE TimedOut
    BY <2>5 DEF TimedOut
  <2>6. CASE Terminate
    BY <2>6 DEF Terminate
  <2>7. CASE GraceEnded
    BY <1>1, <2>7 DEF GraceEnded
  <2>8. CASE GraceExpired
    BY <2>8 DEF GraceExpired
  <2>9. CASE Kill
    BY <2>9 DEF Kill
  <2>10. CASE Reap
    BY <1>1, <2>10 DEF Reap
  <2> QED
    BY <1>2, <2>1, <2>2, <2>3, <2>4, <2>5, <2>6, <2>7, <2>8, <2>9, <2>10 DEF Executor
<1>3. ASSUME NEW c \in Command, NEW p \in Running(c), NEW s \in {"zero", "nonzero"}, Ends(c, p, s)
      PROVE  ExecutorInv'
  BY <1>3 DEF Ends, Running
<1>4. ASSUME NEW c \in Command, NEW parent \in Process, NEW p \in Child,
             NEW ignoring \in BOOLEAN, NEW holding \in BOOLEAN,
             Spawn(c, parent, p, ignoring, holding)
      PROVE  ExecutorInv'
  BY <1>4 DEF Spawn
<1>5. CASE UNCHANGED vars
  BY <1>5 DEF vars
<1> QED
  BY <1>2, <1>3, <1>4, <1>5 DEF Next, Exit, Die

\* The invariant holds of every behaviour.
LEMMA ExecutorAlways == Spec => []ExecutorInv
<1>1. Init => ExecutorInv
  BY ExecutorAssumption
     DEF Init, ExecutorInv, NotStarted, LeaderReaped, SuccessInv, Command, Process, Leader
<1> QED
  BY <1>1, TypeCorrect, ExecutorStep, PTL DEF Spec

\* Whatever a command and its children do with signals and pipes, when its
\* call has returned its leader is gone.
THEOREM LeaderIsReaped == Spec => []LeaderReaped
<1>1. ExecutorInv => LeaderReaped
  BY DEF ExecutorInv
<1> QED
  BY <1>1, ExecutorAlways, PTL

\* A reported success is a leader that ended with status zero and an output
\* nobody can add to, from then on.
THEOREM SuccessMeansComplete == Spec => []SuccessIsComplete
<1>1. TypeOK /\ ExecutorInv => SuccessIsComplete
  <2> SUFFICES ASSUME TypeOK, ExecutorInv, NEW c \in DOMAIN results, results[c] = "success"
               PROVE  exit[c] = "zero" /\ Running(c) \cap pipe[c] = {}
    BY DEF SuccessIsComplete
  <2>1. c \in Command /\ c <= Len(results)
    BY ExecutorAssumption DEF TypeOK, Command
  <2> QED
    BY <2>1 DEF ExecutorInv, SuccessInv
<1> QED
  BY <1>1, TypeCorrect, ExecutorAlways, PTL
-----------------------------------------------------------------------------
(* From the signal on, the group in hand consists of processes that it is  *)
(* about to end and of processes that ignore it: who could still spawn     *)
(* ignores it, and so does what it spawns.                                 *)

GroupSignalled ==
    pc \in {"wait", "kill", "reap"} => Running(cmd) \subseteq doomed[cmd] \cup ignores[cmd]

SurvivorInv ==
    /\ GroupSignalled
    /\ \A c \in Command : (c <= Len(results) /\ results[c] = "timeout") =>
           Running(c) \subseteq doomed[c] \cup ignores[c]

\* A signal dooms everybody it can end, and nobody who can end by it spawns on.
LEMMA SurvivorStep == TypeOK /\ SurvivorInv /\ [Next]_vars => SurvivorInv'
<1> SUFFICES ASSUME TypeOK, SurvivorInv, [Next]_vars PROVE SurvivorInv'
  OBVIOUS
<1> USE ExecutorAssumption
    DEF TypeOK, SurvivorInv, GroupSignalled, Running, Command, Process, Leader, osVars
<1>1. ASSUME NEW r \in {"success", "failure", "timeout", "blocked"}, Return(r), pc # "over",
             r = "timeout" => pc \in {"wait", "reap"}
      PROVE  SurvivorInv'
  <2>1. Len(results') = cmd /\ results'[cmd] = r
    BY <1>1 DEF Return
  <2>2. \A c \in Command : c < cmd => results'[c] = results[c] /\ c <= Len(results)
    BY <1>1 DEF Return
  <2>3. GroupSignalled'
    BY <1>1 DEF Return
  <2>4. ASSUME NEW c \in Command, c <= Len(results'), results'[c] = "timeout"
        PROVE  Running(c) \subseteq doomed[c] \cup ignores[c]
    <3>1. CASE c = cmd
      BY <1>1, <2>1, <2>4, <3>1
    <3>2. CASE c # cmd
      BY <2>1, <2>2, <2>4, <3>2
    <3> QED
      BY <3>1, <3>2
  <2>5. UNCHANGED <<proc, doomed, ignores>>
    BY <1>1 DEF Return
  <2> QED
    BY <2>3, <2>4, <2>5
<1>2. CASE Executor
  <2>1. ASSUME NEW ignoring \in BOOLEAN, Start(ignoring) PROVE SurvivorInv'
    BY <2>1 DEF Start
  <2>2. CASE Block
    BY <1>1, <2>2 DEF Block
  <2>3. CASE CannotStart
    BY <1>1, <2>3 DEF CannotStart
  <2>4. CASE Communicate
    BY <1>1, <2>4 DEF Communicate
  <2>5. CASE TimedOut
    BY <2>5 DEF TimedOut
  <2>6. CASE Terminate
    BY <2>6 DEF Terminate
  <2>7. CASE GraceEnded
    BY <1>1, <2>7 DEF GraceEnded
  <2>8. CASE GraceExpired
    BY <2>8 DEF GraceExpired
  <2>9. CASE Kill
    BY <2>9 DEF Kill
  <2>10. CASE Reap
    BY <1>1, <2>10 DEF Reap
  <2> QED
    BY <1>2, <2>1, <2>2, <2>3, <2>4, <2>5, <2>6, <2>7, <2>8, <2>9, <2>10 DEF Executor
<1>3. ASSUME NEW c \in Command, NEW p \in Process, NEW s \in {"zero", "nonzero"}, Ends(c, p, s)
      PROVE  SurvivorInv'
  BY <1>3 DEF Ends
<1>4. ASSUME NEW c \in Command, NEW parent \in Process, NEW p \in Child,
             NEW ignoring \in BOOLEAN, NEW holding \in BOOLEAN,
             Spawn(c, parent, p, ignoring, holding)
      PROVE  SurvivorInv'
  <2>1. ASSUME NEW d \in Command, Running(d) \subseteq doomed[d] \cup ignores[d]
        PROVE  Running(d)' \subseteq doomed'[d] \cup ignores'[d]
    <3>1. CASE d = c
      BY <1>4, <2>1, <3>1 DEF Spawn
    <3>2. CASE d # c
      BY <1>4, <2>1, <3>2 DEF Spawn
    <3> QED
      BY <3>1, <3>2
  <2>2. UNCHANGED <<cmd, pc, results>>
    BY <1>4 DEF Spawn
  <2> QED
    BY <2>1, <2>2
<1>5. CASE UNCHANGED vars
  BY <1>5 DEF vars
<1> QED
  BY <1>2, <1>3, <1>4, <1>5 DEF Next, Exit, Die

\* However processes fork, exit and ignore signals while their group is being
\* signalled, a call that timed out leaves behind only what SIGTERM cannot end.
THEOREM TimeoutEndsTheGroup == Spec => []SurvivorsIgnoreTerm
<1>1. Init => SurvivorInv
  BY ExecutorAssumption
     DEF Init, SurvivorInv, GroupSignalled, Running, Command, Process, Leader
<1>2. TypeOK /\ SurvivorInv => SurvivorsIgnoreTerm
  <2> SUFFICES ASSUME TypeOK, SurvivorInv, NEW c \in DOMAIN results, results[c] = "timeout"
               PROVE  Running(c) \subseteq doomed[c] \cup ignores[c]
    BY DEF SurvivorsIgnoreTerm
  <2>1. c \in Command /\ c <= Len(results)
    BY ExecutorAssumption DEF TypeOK, Command
  <2> QED
    BY <2>1 DEF SurvivorInv
<1> QED
  BY <1>1, <1>2, TypeCorrect, SurvivorStep, PTL DEF Spec
=============================================================================
