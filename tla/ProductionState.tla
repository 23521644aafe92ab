-------------------------- MODULE ProductionState --------------------------
(***************************************************************************)
(* scripts/production-state.py: the directories of the production state,   *)
(* the tree of secrets in /run and the marker that freezes the layout.     *)
(* Everything is created once and never repaired.  The secrets live on     *)
(* tmpfs.                                                                  *)
(***************************************************************************)
EXTENDS HostCommand

CONSTANTS Sources    \* what the secret authority may put into the source tree

\* What the source tree holds of each file, in the order of EXPECTED_SECRET_DELIVERY.
SecretFile == <<"app-key", "app-previous-keys", "runtime user", "migration user">>

ASSUME SourcesAssumption == \A s \in Sources : DOMAIN s = DOMAIN SecretFile

VARIABLES
  dirs,      \* the directories
  secrets,   \* the tree at /run/secpal/secrets
  source,    \* the tree that --initial-secret-source names
  marker,    \* deployment-state/state-layout-v1
  temp       \* deployment-state/.state-layout-v1.new

stateVars == <<dirs, secrets, source, marker, temp>>

NoTree == <<>>
NoFile == [by |-> "none", whole |-> FALSE, owned |-> FALSE]

\* EXPECTED_STATE_LAYOUT below the two roots; the roots come first.  Only the root in /srv
\* has the owner that mkdir() already gives it.
StateDir == <<"srv", "run", "private_application_storage", "deployment_state">>
Layout == {"private_application_storage", "deployment_state"}
PlainDir == {"srv"}
DirName == {StateDir[i] : i \in DOMAIN StateDir}

StateInit ==
  /\ dirs = [d \in DirName |-> "absent"] /\ secrets = NoTree /\ source \in Sources
  /\ marker = NoFile /\ temp = NoFile

-----------------------------------------------------------------------------
(* Checks.                                                                 *)

\* load_contract(): the document is the reviewed one, to the digest of its matrix.
ContractFlaw ==
  {"shape", "version", "provenance", "matrix", "mapping", "log policy", "state policy",
   "secret policy", "secret delivery", "layout", "reserved layout"}
Contract(doc) == Clean("contract", ContractFlaw, doc)
\* main() and the operator's authority: only initialization is acknowledged, and a mere
\* validation does not demand to be root.
CommandFlaw == {"not root", "acknowledgement", "two operations"}
Unprivileged(cmd) == cmd \in {"validate", "namespace"}
AdmitStateCommand(cmd, doc) ==
  Contract(doc) /\ Clean("command", CommandFlaw \ (IF Unprivileged(cmd) THEN {"not root"} ELSE {}), doc)

\* _reject_retired_storage()
RetiredStorage == ~Clean("state", {"retired storage", "redirected ancestry"}, off)
\* _validate_trusted_ancestors(), _assert_no_extended_acl()
TrustedAncestors == Clean("state", {"writable ancestor", "extended acl"}, off)

\* _assert_safe_component() and _assert_owner() of a directory
Exists(d) == dirs[d] # "absent" \/ <<"dir", d>> \in off
DirIsRight(d) == dirs[d] = "right" /\ <<"dir", d>> \notin off

\* _validate_secret() of one file; SecretFlaw are those of the tree in place.
SecretFlaw == {"partial", "extra", "malformed", "metadata", "same identity", "key repeated"}
ValidSecret(v) == v \notin {"malformed", "none read"}

\* The checks across files: two database identities, and the active key is not retired.
Separate(t) == t[3] # t[4] /\ t[1] # t[2]

\* _validate_secret_deliveries(): the user namespace sees metadata only.
SecretDeliveries(view, require) ==
  /\ secrets # NoTree
  /\ Clean("secrets", {"retired delivery", "root metadata"}, off)
  /\ require => /\ Clean("secrets", {"metadata"}, off)
                /\ view = "host" => /\ Clean("secrets", SecretFlaw, off)
                                    /\ \A i \in DOMAIN secrets : ValidSecret(secrets[i])
                                    /\ Separate(secrets)

\* The marker's mode, owner and content.
MarkerIsRight == marker.by # "none" /\ marker.whole /\ marker.owned /\ Clean("state", {"marker"}, off)

\* validate_production()
ValidateProduction(view, require, requireMarker) ==
  /\ ~RetiredStorage /\ TrustedAncestors
  /\ \A d \in Layout \cup {"run"} : DirIsRight(d)
  /\ SecretDeliveries(view, require)
  /\ requireMarker => MarkerIsRight

-----------------------------------------------------------------------------
(* --initialize-production                                                 *)

\* initialize_production() up to the directories: a marker turns it into a validation.
InitializeStart(p) ==
  /\ Read(p, "initialize", IF marker.by # "none" THEN "again" ELSE "create",
          ~RetiredStorage /\ (marker.by # "none" => ~job[p].flag))
  /\ UNCHANGED <<job, off, spent, stateVars>>
InitializeAgain(p) ==
  /\ Read(p, "again", "ok", ValidateProduction("host", TRUE, TRUE))
  /\ UNCHANGED <<job, off, spent, stateVars>>

\* _create_production_directory(): an existing one is only checked, a new one has its
\* owner and mode a moment after its name.
CreateDirectory(p) ==
  /\ Step(p, "create")
  /\ LET d == StateDir[job[p].i]
         last == job[p].i = Len(StateDir)
         next == IF ~last THEN "create" ELSE IF job[p].flag THEN "publish" ELSE "validate"
     IN IF Exists(d)
        THEN /\ Goto(p, IF DirIsRight(d) /\ Clean("state", {"extended acl"}, off) THEN next ELSE "refused")
             /\ job' = [job EXCEPT ![p].i = IF last THEN 1 ELSE @ + 1]
             /\ UNCHANGED dirs
        ELSE IF ~TrustedAncestors
             THEN Goto(p, "refused") /\ UNCHANGED <<job, dirs>>
             ELSE /\ dirs' = [dirs EXCEPT ![d] = IF d \in PlainDir THEN "right" ELSE "torn"]
                  /\ Goto(p, IF d \in PlainDir THEN next ELSE "own")
                  /\ job' = [job EXCEPT ![p].changed = TRUE,
                                        ![p].i = IF d \in PlainDir THEN @ + 1 ELSE @]
  /\ UNCHANGED <<off, spent, secrets, source, marker, temp>>
OwnDirectory(p) ==
  /\ Step(p, "own")
  /\ LET d == StateDir[job[p].i]
         last == job[p].i = Len(StateDir)
     IN /\ dirs' = [dirs EXCEPT ![d] = "right"]
        /\ Goto(p, IF ~last THEN "create" ELSE IF job[p].flag THEN "publish" ELSE "validate")
        /\ job' = [job EXCEPT ![p].i = IF last THEN 1 ELSE @ + 1]
  /\ UNCHANGED <<off, spent, secrets, source, marker, temp>>

\* The validation before the marker, and the test that no marker is staged.
Validate(p) ==
  /\ Read(p, "validate", "stage", ValidateProduction("host", TRUE, FALSE))
  /\ UNCHANGED <<job, off, spent, stateVars>>
StageMarker(p) ==
  /\ Read(p, "stage", "open", temp.by = "none")
  /\ UNCHANGED <<job, off, spent, stateVars>>

\* os.open(O_EXCL): whoever finds a staged marker here removes it on the way out.
OpenMarker(p) ==
  /\ Step(p, "open")
  /\ IF temp.by = "none"
     THEN temp' = [NoFile EXCEPT !.by = p] /\ Goto(p, "write")
     ELSE temp' = NoFile /\ Goto(p, "refused")
  /\ UNCHANGED <<job, off, spent, dirs, secrets, source, marker>>
\* The descriptor stays with its file, wherever that has been renamed to.
WriteMarker(p) ==
  /\ Step(p, "write") /\ Goto(p, "chown")
  /\ temp' = IF temp.by = p THEN [temp EXCEPT !.whole = TRUE] ELSE temp
  /\ marker' = IF marker.by = p THEN [marker EXCEPT !.whole = TRUE] ELSE marker
  /\ UNCHANGED <<job, off, spent, dirs, secrets, source>>
\* chown(), chmod() and rename() go by the name.
OwnMarker(p) ==
  /\ Step(p, "chown")
  /\ Goto(p, IF temp.by # "none" THEN "rename" ELSE "refused")
  /\ temp' = IF temp.by # "none" THEN [temp EXCEPT !.owned = TRUE] ELSE temp
  /\ UNCHANGED <<job, off, spent, dirs, secrets, source, marker>>
RenameMarker(p) ==
  /\ Step(p, "rename")
  /\ Goto(p, IF temp.by # "none" THEN "final" ELSE "refused")
  /\ marker' = IF temp.by # "none" THEN temp ELSE marker
  /\ temp' = NoFile
  /\ UNCHANGED <<job, off, spent, dirs, secrets, source>>
FinalValidate(p) ==
  /\ Read(p, "final", "ok", ValidateProduction("host", TRUE, TRUE))
  /\ UNCHANGED <<job, off, spent, stateVars>>

-----------------------------------------------------------------------------
(* publish_initial_secret_tree()                                           *)

\* The source and the destination are examined and the staging directory is made.
SourceFlaw == {"unsafe", "partial", "extra", "mode", "too large"}
Publish(p) ==
  /\ Read(p, "publish", "copy",
          /\ Clean("source", {"unsafe", "partial", "extra"}, off)
          /\ secrets = NoTree /\ DirIsRight("run") /\ TrustedAncestors)
  /\ UNCHANGED <<job, off, spent, stateVars>>
\* One file is read, staged and validated.
CopySecret(p) ==
  /\ Step(p, "copy")
  /\ LET v == source[Len(job[p].copied) + 1]
     IN /\ job' = [job EXCEPT ![p].copied = Append(@, v)]
        /\ Goto(p, IF ~ValidSecret(v) \/ ~Clean("source", {"partial", "mode", "too large"}, off) THEN "refused"
                   ELSE IF Len(job[p].copied) + 1 = Len(SecretFile) THEN "seal" ELSE "copy")
  /\ UNCHANGED <<off, spent, stateVars>>
\* Mutant: the files are validated one by one only.
RenameTreeUnchecked(p) ==
  /\ Step(p, "seal")
  /\ LET done == secrets = NoTree
     IN /\ secrets' = IF done THEN job[p].copied ELSE secrets
        /\ Goto(p, IF ~done THEN "refused" ELSE IF job[p].cmd = "publish" THEN "ok" ELSE "validate")
        /\ job' = [job EXCEPT ![p].copied = <<>>, ![p].changed = done]
  /\ UNCHANGED <<off, spent, dirs, source, marker, temp>>
\* The staged tree is checked across its files and renamed; a rename onto a tree that
\* someone published meanwhile fails.
RenameTree(p) ==
  /\ Step(p, "seal")
  /\ LET done == Separate(job[p].copied) /\ secrets = NoTree
     IN /\ secrets' = IF done THEN job[p].copied ELSE secrets
        /\ Goto(p, IF ~done THEN "refused" ELSE IF job[p].cmd = "publish" THEN "ok" ELSE "validate")
        /\ job' = [job EXCEPT ![p].copied = <<>>, ![p].changed = done]
  /\ UNCHANGED <<off, spent, dirs, source, marker, temp>>

\* --validate-production and --validate-namespace
ValidateCommand(p) ==
  /\ Read(p, "check", "ok", ValidateProduction(IF job[p].cmd = "namespace" THEN "namespace" ELSE "host", job[p].flag, TRUE))
  /\ UNCHANGED <<job, off, spent, stateVars>>

-----------------------------------------------------------------------------
(* The rest of the world.                                                  *)

MarkerStep == {"open", "write", "chown", "rename"}
StateStep == {"initialize", "again", "create", "own", "validate", "stage", "final", "publish", "copy",
              "seal", "check"} \cup MarkerStep

\* The descriptors of a process end with it.
Orphaned(f, p) == IF f.by = p THEN [f EXCEPT !.by = "dead"] ELSE f

\* A handled signal raises ContractError; the finally blocks remove what is staged, by name.
Interrupt(p) ==
  /\ pc[p] \in StateStep /\ Fault
  /\ Goto(p, "killed") /\ job' = [job EXCEPT ![p].copied = <<>>]
  /\ temp' = IF pc[p] \in MarkerStep THEN NoFile ELSE Orphaned(temp, p)
  /\ marker' = Orphaned(marker, p)
  /\ UNCHANGED <<off, dirs, secrets, source>>

\* The secret authority replaces the source tree.
ReplaceSource ==
  /\ \E s \in Sources \ {source} : source' = s
  /\ Fault
  /\ UNCHANGED <<pc, job, off, dirs, secrets, marker, temp>>

StateFlaw ==
  {"state"} \X {"retired storage", "redirected ancestry", "writable ancestor", "extended acl", "marker"}
    \cup {"secrets"} \X ({"retired delivery", "root metadata"} \cup SecretFlaw)
    \cup {"source"} \X SourceFlaw
    \cup {"dir"} \X DirName

StateCommand(p) ==
  \/ InitializeStart(p) \/ InitializeAgain(p) \/ CreateDirectory(p) \/ OwnDirectory(p)
  \/ Validate(p) \/ StageMarker(p) \/ OpenMarker(p) \/ WriteMarker(p) \/ OwnMarker(p)
  \/ RenameMarker(p) \/ FinalValidate(p) \/ Publish(p) \/ CopySecret(p) \/ RenameTree(p)
  \/ ValidateCommand(p)
=============================================================================
