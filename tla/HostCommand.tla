---------------------------- MODULE HostCommand ----------------------------
(***************************************************************************)
(* The administrator's commands on one host.  They hold no common lock: a  *)
(* few of them run at a time, each at a step pc[p] of its program, and     *)
(* another administrator changes the host while they run.                  *)
(***************************************************************************)
EXTENDS HostContract, Sequences

CONSTANTS
  Proc,          \* the shells that commands are run from
  MaxRuns,       \* commands that are run
  MaxFaults      \* kills, signals, reboots and changes of the host by others

ASSUME BoundsAssumption == MaxRuns \in Nat /\ MaxFaults \in Nat
ASSUME ProcAssumption == "none" \notin Proc

VARIABLES
  pc,      \* where each command stands, "idle" before the first, and how the last one ended
  job,     \* what each command has read and done
  off,     \* how the host deviates from what the commands expect
  spent    \* the runs and faults so far

commandVars == <<pc, job, off, spent>>

Ended == {"idle", "ok", "refused", "killed"}

\* doc: flaws of the documents it read; flag: an option of the command line; stood: the
\* deviations it started on; found: those its verification started on; changed: it changed
\* the host; counted: it did so since the account was prepared; i: the place in a loop;
\* copied: staged secret files.
NoJob == [cmd |-> "none", doc |-> {}, flag |-> FALSE, stood |-> {}, found |-> {}, changed |-> FALSE,
          counted |-> FALSE, legacy |-> FALSE, i |-> 1, copied |-> <<>>]

Step(p, from) == pc[p] = from
Goto(p, to) == pc' = [pc EXCEPT ![p] = to]
Read(p, from, to, admitted) == Step(p, from) /\ Goto(p, IF admitted THEN to ELSE "refused")
Did(p) == job' = [job EXCEPT ![p].changed = TRUE, ![p].counted = TRUE]

Running == {p \in Proc : pc[p] \notin Ended}

\* main(): the documents are read and admitted before anything else.
Start(p, cmd, doc, flag, admitted, to, standing) ==
  /\ pc[p] \in Ended /\ spent.runs < MaxRuns /\ (off = {} \/ Running = {})
  /\ spent' = [spent EXCEPT !.runs = @ + 1]
  /\ pc' = [pc EXCEPT ![p] = IF admitted THEN to ELSE "refused"]
  /\ job' = [job EXCEPT ![p] = [NoJob EXCEPT !.cmd = cmd, !.doc = IF admitted THEN doc ELSE {},
                                             !.flag = flag, !.stood = standing, !.found = standing]]
  /\ UNCHANGED off

Fault == spent.faults < MaxFaults /\ spent' = [spent EXCEPT !.faults = @ + 1]
\* Someone or something else changes the host; such a change meets one running command at
\* a time.
Deviate(flaws) ==
  /\ Fault /\ Cardinality(Running) <= 1
  /\ \E f \in flaws \ off : off' = off \cup {f}
  /\ UNCHANGED <<pc, job>>

CommandInit ==
  /\ pc = [p \in Proc |-> "idle"] /\ job = [p \in Proc |-> NoJob]
  /\ off = {} /\ spent = [runs |-> 0, faults |-> 0]
=============================================================================
