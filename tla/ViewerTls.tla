------------------------------ MODULE ViewerTls ------------------------------
(***************************************************************************)
(* The viewer certificate lifecycle: scripts/direct-viewer-tls.py over the *)
(* journaled publication of scripts/haproxy_config_lifecycle.py, and the   *)
(* boot admission of scripts/viewer_tls_runtime.py.                        *)
(*                                                                         *)
(* Certificates are numbered by Certbot lineage generation; 0 is "absent". *)
(* /etc/haproxy and /srv/secpal/acme are two directories of a filesystem   *)
(* that applies namespace changes in order: what is on disk reaches the    *)
(* durable copy with an fsync, or at any moment by itself.  The holder of  *)
(* publish.lock and the holder of renew.lock take their steps separately;  *)
(* a step can raise, a process can be killed, and power can fail, between  *)
(* any two of them.                                                        *)
(***************************************************************************)
EXTENDS Naturals

CONSTANTS
  MaxGen,      \* bound on Certbot lineage generations
  MaxFaults,   \* bound on injected I/O and runtime failures
  MaxCrashes   \* bound on killed processes and power failures

ASSUME BoundsAssumption == MaxGen \in Nat /\ MaxFaults \in Nat /\ MaxCrashes \in Nat

Gen  == 1 .. MaxGen
Gen0 == 0 .. MaxGen

\* Absent documents.
NoJournal == [previous |-> 0, candidate |-> 0]
NoReceipt == [fp |-> 0, renewed |-> FALSE]

Journal == {NoJournal} \cup [previous : Gen0, candidate : Gen]
Receipt == {NoReceipt} \cup [fp : Gen, renewed : BOOLEAN]

VARIABLES
  etc,      \* /etc/haproxy: pem, journal, backup of the predecessor, receipt snapshot
  etcD,     \* its durable copy
  acme,     \* /srv/secpal/acme: activation receipt and renewal status
  acmeD,    \* its durable copy
  lineage,  \* generation of the Certbot lineage (durable)
  expired,  \* generations up to this one are past their expiry
  live,     \* certificate HAProxy serves; 0: not running
  pub,      \* the process that holds publish.lock
  ren,      \* the process that holds renew.lock
  faults,   \* injected failures so far
  crashes   \* injected crashes so far

disk  == <<etc, etcD, acme, acmeD>>
spent == <<faults, crashes>>
vars  == <<etc, etcD, acme, acmeD, lineage, expired, live, pub, ren, faults, crashes>>

Etc  == [pem : Gen0, journal : Journal, backup : Gen0, snapshot : Receipt]
Acme == [receipt : Receipt, renewal : {"NONE", "UNKNOWN", "SUCCESS", "FAILURE"}]

Idle == [owner |-> "none", op |-> "none", pc |-> "idle", prev |-> 0, cand |-> 0,
         receipt |-> NoReceipt, sure |-> TRUE, ok |-> TRUE]
Resting == [pc |-> "idle", obtain |-> FALSE]

-----------------------------------------------------------------------------
(* Steps of the process under publish.lock.                                *)

\* The operation ends; the lock is released unless the renewer holds it.
Ended(ok) == CASE pub.owner = "renewer" -> [Idle EXCEPT !.owner = "renewer", !.ok = ok]
               [] pub.owner = "hook"    -> [Idle EXCEPT !.ok = ok]
               [] OTHER                 -> Idle

\* Continue at l; "ok" and "raise" leave the operation.
Go(l) == pub' = IF l \in {"ok", "raise"} THEN Ended(l = "ok") ELSE [pub EXCEPT !.pc = l]

\* An exception costs one of the bounded faults and continues at l.
Raise(l) == faults < MaxFaults /\ faults' = faults + 1 /\ Go(l)

\* stage(), os.replace() or unlink(), and sync_directory() of one directory:
\* all of it happened, or it raised before or after the entry changed.
WriteEtc(v, next, failed) ==
  /\ \/ etc' = v /\ etcD' = v /\ Go(next) /\ UNCHANGED faults
     \/ etc' \in {etc, v} /\ UNCHANGED etcD /\ Raise(failed)
  /\ UNCHANGED <<acme, acmeD, live>>

WriteAcme(v, next, failed) ==
  /\ \/ acme' = v /\ acmeD' = v /\ Go(next) /\ UNCHANGED faults
     \/ acme' \in {acme, v} /\ UNCHANGED acmeD /\ Raise(failed)
  /\ UNCHANGED <<etc, etcD, live>>

NoWrite == UNCHANGED <<disk, live>>

At(l) == pub.pc = l /\ UNCHANGED <<lineage, expired, ren, crashes>>

\* admit_certificate(): present, and not past its expiry.
Valid(c) == c > expired

\* verify_served(): every HTTPS socket serves exactly this certificate, and it
\* verifies.  A predecessor is only probed before its expiry.
Served(c) == live = c /\ Valid(c)
Probed(c) == Served(c) \/ ~Valid(c)

\* deploy() up to the publication: the lineage is the candidate, and the serving
\* predecessor must be the accepted one.
Admit ==
  /\ At("admit")
  /\ LET ok == /\ Valid(lineage)
               /\ IF pub.op = "initial"
                    THEN acme.receipt = NoReceipt /\ etc.pem = 0
                    ELSE /\ etc.pem # 0
                         /\ etc.pem = acme.receipt.fp
                         /\ Probed(etc.pem)
     IN \/ /\ ok
           /\ pub' = [pub EXCEPT !.pc = IF pub.op = "initial" THEN "gate" ELSE "snapshot",
                                 !.cand = lineage, !.receipt = acme.receipt]
        \/ ~ok /\ Go("raise")
  /\ NoWrite /\ UNCHANGED faults

\* atomic_json(PREVIOUS_RECEIPT, receipt): before publish() looks at the journal.
Snapshot ==
  /\ At("snapshot")
  /\ WriteEtc([etc EXCEPT !.snapshot = pub.receipt], "gate", "raise")

\* Mutant: a pending journal is waited for instead of refused.
GateWaits ==
  /\ At("gate") /\ etc.journal = NoJournal
  /\ pub' = [pub EXCEPT !.prev = etc.pem,
                        !.pc = IF etc.pem = pub.cand THEN "again" ELSE "backup"]
  /\ UNCHANGED faults
  /\ NoWrite

\* publish() up to the first replacement: a pending journal refuses; an equal
\* serving file is only activated again; validation may refuse the candidate.
Gate ==
  /\ At("gate")
  /\ LET pending == etc.journal # NoJournal
     IN \/ pending /\ Go("raise") /\ UNCHANGED faults
        \/ ~pending /\ (Raise("raise") \/ Raise("finally"))
        \/ /\ ~pending
           /\ pub' = [pub EXCEPT !.prev = etc.pem,
                                 !.pc = IF etc.pem = pub.cand THEN "again" ELSE "backup"]
           /\ UNCHANGED faults
  /\ NoWrite

\* Mutant: the predecessor is not saved beside the journal.
BackupSkipped ==
  /\ At("backup") /\ Go("journal")
  /\ NoWrite /\ UNCHANGED faults

\* The predecessor is copied beside the journal; its entry is synced with the
\* journal's.
Backup ==
  /\ At("backup")
  /\ \/ /\ etc' = IF pub.prev # 0 THEN [etc EXCEPT !.backup = pub.prev] ELSE etc
        /\ Go("journal") /\ UNCHANGED faults
     \/ Raise("finally") /\ UNCHANGED etc
  /\ UNCHANGED <<etcD, acme, acmeD, live>>

\* Mutant: the pending record is not made durable before the replacement.
JournalSkipped ==
  /\ At("journal") /\ Go("replace")
  /\ NoWrite /\ UNCHANGED faults

JournalRecord ==
  /\ At("journal")
  /\ WriteEtc([etc EXCEPT !.journal = [previous |-> pub.prev, candidate |-> pub.cand]],
              "replace", "finally")

\* os.replace(candidate, serving), and the sync that follows it inside the
\* guarded block; a first preparation stops here and stays pending.
Replace ==
  /\ At("replace")
  /\ LET new == [etc EXCEPT !.pem = pub.cand]
         next == IF pub.op = "initial" THEN "finally-ok" ELSE "reload"
     IN \/ etc' = new /\ etcD' = new /\ Go(next) /\ UNCHANGED faults
        \/ etc' = new /\ UNCHANGED etcD /\ Raise("rollback")
        \/ UNCHANGED <<etc, etcD>> /\ Raise("finally")
  /\ UNCHANGED <<acme, acmeD, live>>

\* boot_admission() of an ordinary start: a pending renewal refuses.
BootAdmitted ==
  /\ Valid(etc.pem)
  /\ IF etc.journal = NoJournal THEN acme.receipt.fp = etc.pem
                                ELSE etc.journal = [previous |-> 0, candidate |-> etc.pem]

\* boot_admission(allow_pending_reload=True): a pending renewal is admitted while
\* publish.lock is held, and its predecessor even past the expiry.
ReloadAdmitted ==
  \/ BootAdmitted
  \/ /\ etc.journal.previous # 0 /\ pub.owner # "none"
     /\ \/ etc.pem = etc.journal.previous
        \/ etc.pem = etc.journal.candidate /\ Valid(etc.pem)

\* reload_shared() and the probe after it: HAProxy re-admits the serving files
\* and loads the certificate; a failed one may or may not have replaced the
\* workers.
Reloads(next, failed) ==
  /\ LET ok == ReloadAdmitted /\ live # 0
     IN \/ ok /\ live' = etc.pem /\ Go(next) /\ UNCHANGED faults
        \/ ok /\ live' \in {live, etc.pem} /\ Raise(failed)
        \/ ~ok /\ live' = live /\ Go(failed) /\ UNCHANGED faults
  /\ UNCHANGED disk

\* activate() for new bytes, and for bytes already serving (no rollback then).
Reload == At("reload") /\ Reloads("accept", "rollback")
Again  == At("again")  /\ Reloads("reaccept", "finally")

\* accept(): the first activation, or a renewal when the certificate changed.
Accepted(c) ==
  [acme EXCEPT !.receipt =
     [fp |-> c, renewed |-> acme.receipt # NoReceipt
                              /\ (acme.receipt.renewed \/ acme.receipt.fp # c)]]

Accept   == At("accept")   /\ WriteAcme(Accepted(pub.cand), "unlink", "rollback")
Reaccept == At("reaccept") /\ WriteAcme(Accepted(pub.cand), "finally-ok", "finally")

Unlink ==
  /\ At("unlink")
  /\ WriteEtc([etc EXCEPT !.journal = NoJournal], "finally-ok", "rollback")

\* The exception handler of publish(): the predecessor's bytes return, or the
\* first certificate goes.
Rollback ==
  /\ At("rollback")
  /\ LET old == [etc EXCEPT !.pem = pub.prev]
     IN \/ etc' = old /\ etcD' = old /\ Go("rejournal") /\ UNCHANGED faults
        \/ /\ etc' = old /\ UNCHANGED etcD
           /\ faults < MaxFaults /\ faults' = faults + 1
           /\ pub' = [pub EXCEPT !.pc = "rejournal", !.sure = FALSE]
        \/ UNCHANGED <<etc, etcD>> /\ Raise("finally")
  /\ UNCHANGED <<acme, acmeD, live>>

\* A journal already unlinked is written again: its removal is only accepted
\* with a directory sync.  A failure here still attempts the live recovery.
Rejournal ==
  /\ At("rejournal")
  /\ LET next == IF pub.op = "initial" THEN "unjournal" ELSE "compensate"
         back == [etc EXCEPT !.journal = [previous |-> pub.prev, candidate |-> pub.cand]]
     IN IF etc.journal # NoJournal
          THEN Go(next) /\ UNCHANGED <<etc, etcD, faults>>
          ELSE \/ etc' = back /\ etcD' = back /\ Go(next) /\ UNCHANGED faults
               \/ /\ etc' \in {etc, back} /\ UNCHANGED etcD
                  /\ faults < MaxFaults /\ faults' = faults + 1
                  /\ pub' = [pub EXCEPT !.pc = next, !.sure = FALSE]
  /\ UNCHANGED <<acme, acmeD, live>>

\* Mutant: a rollback leaves the receipt of the candidate.
CompensateSkipped ==
  /\ At("compensate") /\ Go("rereload")
  /\ NoWrite /\ UNCHANGED faults

\* deploy()'s recover(): the acceptance binding, then the compensating reload.
Compensate ==
  /\ At("compensate")
  /\ WriteAcme([acme EXCEPT !.receipt = pub.receipt], "rereload", "finally")

Rereload == At("rereload") /\ Reloads("unjournal", "finally")

\* Only a rollback without any uncertainty removes the journal.
Unjournal ==
  /\ At("unjournal")
  /\ IF pub.sure
       THEN WriteEtc([etc EXCEPT !.journal = NoJournal], "finally", "finally")
       ELSE Go("finally") /\ NoWrite /\ UNCHANGED faults

\* The outer finally of publish(): the backup goes only with its journal.
Finally ==
  /\ pub.pc \in {"finally", "finally-ok"} /\ UNCHANGED <<lineage, expired, ren, crashes>>
  /\ etc' = IF etc.journal = NoJournal THEN [etc EXCEPT !.backup = 0] ELSE etc
  /\ Go(IF pub.pc = "finally" THEN "raise" ELSE IF pub.op = "initial" THEN "ok" ELSE "forget")
  /\ UNCHANGED <<etcD, acme, acmeD, live, faults>>

Forget == At("forget") /\ WriteEtc([etc EXCEPT !.snapshot = NoReceipt], "ok", "raise")

-----------------------------------------------------------------------------
(* --recover: the predecessor and its receipt return; the candidate is     *)
(* never replayed.                                                         *)

RecoverAdmit ==
  /\ At("recover")
  /\ Go(IF etc.journal = NoJournal THEN "ok"
        ELSE IF etc.journal.previous = 0 /\ live # 0 THEN "raise" ELSE "restore")
  /\ NoWrite /\ UNCHANGED faults

\* A first preparation is removed; otherwise the backup must be the journal's
\* predecessor.
RecoverRestore ==
  /\ At("restore")
  /\ IF etc.backup = etc.journal.previous \/ etc.journal.previous = 0
       THEN WriteEtc([etc EXCEPT !.pem = etc.journal.previous], "restore-receipt", "raise")
       ELSE Go("raise") /\ NoWrite /\ UNCHANGED faults

\* compensate(): the snapshot must be the receipt of the restored certificate.
RecoverReceipt ==
  /\ At("restore-receipt")
  /\ IF etc.journal.previous = 0
       THEN Go("drop-journal") /\ NoWrite /\ UNCHANGED faults
     ELSE IF etc.snapshot # NoReceipt /\ etc.snapshot.fp = etc.pem
       THEN WriteAcme([acme EXCEPT !.receipt = etc.snapshot], "recover-reload", "raise")
     ELSE Go("raise") /\ NoWrite /\ UNCHANGED faults

RecoverReload ==
  /\ At("recover-reload")
  /\ IF live = 0 THEN Go("drop-journal") /\ NoWrite /\ UNCHANGED faults
                 ELSE Reloads("drop-journal", "raise")

RecoverUnlink == At("drop-journal") /\ WriteEtc([etc EXCEPT !.journal = NoJournal], "drop-backup", "raise")
RecoverDrop   == At("drop-backup") /\ WriteEtc([etc EXCEPT !.backup = 0], "drop-snapshot", "raise")

RecoverForget ==
  /\ At("drop-snapshot")
  /\ etc' = [etc EXCEPT !.snapshot = NoReceipt]
  /\ Go("ok")
  /\ UNCHANGED <<etcD, acme, acmeD, live, faults>>

-----------------------------------------------------------------------------
(* --accept-initial: the first certificate is accepted once it is served.  *)

InitialAdmit ==
  /\ At("initial")
  /\ Go(IF /\ Served(etc.pem)
           /\ etc.journal = [previous |-> 0, candidate |-> etc.pem]
          THEN "initial-accept" ELSE "raise")
  /\ NoWrite /\ UNCHANGED faults

InitialAccept == At("initial-accept") /\ WriteAcme(Accepted(etc.pem), "initial-unlink", "raise")
InitialUnlink == At("initial-unlink") /\ WriteEtc([etc EXCEPT !.journal = NoJournal], "ok", "raise")

-----------------------------------------------------------------------------
(* --obtain and --renew, under renew.lock.                                 *)

RenGo(l) == ren' = IF l = "idle" THEN Resting ELSE [ren EXCEPT !.pc = l]

RenAt(l) == ren.pc = l /\ UNCHANGED <<etc, etcD, expired, live, crashes>>

\* atomic_json(RENEWAL, ...), which may raise before or after the entry changed.
RenWrite(status, next, failed) ==
  LET v == [acme EXCEPT !.renewal = status]
  IN  \/ acme' = v /\ acmeD' = v /\ RenGo(next) /\ UNCHANGED faults
      \/ /\ acme' \in {acme, v} /\ UNCHANGED acmeD
         /\ faults < MaxFaults /\ faults' = faults + 1 /\ RenGo(failed)

Renew(obtain) ==
  /\ ren.pc = "idle"
  /\ ren' = [pc |-> "begin", obtain |-> obtain]
  /\ UNCHANGED <<disk, lineage, expired, live, pub, spent>>

RenewBegin ==
  /\ RenAt("begin")
  /\ RenWrite("UNKNOWN", "check", "idle")
  /\ UNCHANGED <<lineage, pub>>

RenewCheck ==
  /\ RenAt("check")
  /\ LET ok == IF ren.obtain
                 THEN acme.receipt = NoReceipt /\ etc.pem = 0 /\ etc.journal = NoJournal
                 ELSE /\ etc.pem # 0 /\ etc.pem = acme.receipt.fp /\ etc.journal = NoJournal
                      /\ Probed(etc.pem)
     IN RenGo(IF ok THEN "certbot" ELSE "failure")
  /\ UNCHANGED <<acme, acmeD, lineage, pub, faults>>

\* Certbot issues a generation, finds none due, or fails; a renewal runs the
\* deploy hook, whose failure Certbot may or may not report.
RenewCertbot ==
  /\ RenAt("certbot")
  /\ \/ /\ lineage < MaxGen /\ lineage' = lineage + 1
        /\ RenGo(IF ren.obtain THEN "idle" ELSE "hook")
     \/ lineage' = lineage /\ lineage # 0 /\ RenGo(IF ren.obtain THEN "idle" ELSE "lock")
     \/ lineage' = lineage /\ RenGo("failure")
  /\ UNCHANGED <<acme, acmeD, pub, faults>>

\* The hook is another process and takes publish.lock itself.
RenewHook ==
  /\ RenAt("hook")
  /\ IF pub.owner = "none"
       THEN /\ pub' = [Idle EXCEPT !.owner = "hook", !.op = "deploy", !.pc = "admit"]
            /\ RenGo("hooked")
       ELSE UNCHANGED pub /\ \E l \in {"lock", "failure"} : RenGo(l)
  /\ UNCHANGED <<acme, acmeD, lineage, faults>>

RenewHooked ==
  /\ RenAt("hooked") /\ pub.owner # "hook"
  /\ \/ RenGo("lock")
     \/ ~pub.ok /\ RenGo("failure")
  /\ UNCHANGED <<acme, acmeD, lineage, pub, faults>>

\* Under publish.lock: no pending journal, and a lineage not yet accepted is
\* deployed.
RenewLock ==
  /\ RenAt("lock")
  /\ IF pub.owner # "none" \/ etc.journal # NoJournal \/ ~Valid(lineage)
       THEN RenGo("failure") /\ UNCHANGED pub
       ELSE /\ pub' = IF lineage # acme.receipt.fp
                        THEN [Idle EXCEPT !.owner = "renewer", !.op = "deploy", !.pc = "admit"]
                        ELSE [Idle EXCEPT !.owner = "renewer"]
            /\ RenGo("verify")
  /\ UNCHANGED <<acme, acmeD, lineage, faults>>

\* Mutant: a renewal succeeds as soon as its deployment returned.
RenewVerifyNothing ==
  /\ RenAt("verify") /\ pub.owner = "renewer" /\ pub.pc = "idle"
  /\ RenGo("success")
  /\ pub' = Idle
  /\ UNCHANGED <<acme, acmeD, lineage, faults>>

\* The renewed certificate is current, accepted and served; publish.lock is
\* released before the status is written.
RenewVerify ==
  /\ RenAt("verify") /\ pub.owner = "renewer" /\ pub.pc = "idle"
  /\ RenGo(IF pub.ok /\ etc.pem = lineage /\ acme.receipt.fp = etc.pem /\ Served(etc.pem)
             THEN "success" ELSE "failure")
  /\ pub' = Idle
  /\ UNCHANGED <<acme, acmeD, lineage, faults>>

RenewSuccess == RenAt("success") /\ RenWrite("SUCCESS", "idle", "failure") /\ UNCHANGED <<lineage, pub>>
RenewFailure == RenAt("failure") /\ RenWrite("FAILURE", "idle", "idle") /\ UNCHANGED <<lineage, pub>>

-----------------------------------------------------------------------------
(* HAProxy, the administrator, and failures.                               *)

Start ==
  /\ live = 0 /\ BootAdmitted
  /\ live' = etc.pem
  /\ UNCHANGED <<disk, lineage, expired, pub, ren, spent>>

Stop ==
  /\ live # 0 /\ live' = 0
  /\ UNCHANGED <<disk, lineage, expired, pub, ren, spent>>

\* systemctl reload haproxy.service, outside any publication of this process.
SharedReload ==
  /\ live # 0 /\ ReloadAdmitted
  /\ live' = etc.pem
  /\ UNCHANGED <<disk, lineage, expired, pub, ren, spent>>

\* Time passes: the oldest certificate still valid expires.
Expire ==
  /\ expired < lineage
  /\ expired' = expired + 1
  /\ UNCHANGED <<disk, lineage, live, pub, ren, spent>>

\* An administrator runs one of the operations that take publish.lock.
Operate(op) ==
  /\ pub.owner = "none"
  /\ pub' = [Idle EXCEPT !.owner = "admin", !.op = op,
                         !.pc = CASE op = "accept" -> "initial"
                                  [] op = "recover" -> "recover"
                                  [] OTHER -> "admit"]
  /\ UNCHANGED <<disk, lineage, expired, live, ren, spent>>

Crashing == crashes < MaxCrashes /\ crashes' = crashes + 1

KillPublisher ==
  /\ Crashing /\ pub.owner = "admin"
  /\ pub' = Idle
  /\ UNCHANGED <<disk, lineage, expired, live, ren, faults>>

\* The renewal unit is stopped with its Certbot and hook processes.
KillRenewer ==
  /\ Crashing /\ ren.pc # "idle"
  /\ ren' = Resting
  /\ pub' = IF pub.owner \in {"hook", "renewer"} THEN Idle ELSE pub
  /\ UNCHANGED <<disk, lineage, expired, live, faults>>

PowerFail ==
  /\ Crashing
  /\ etc' = etcD /\ acme' = acmeD
  /\ live' = 0 /\ pub' = Idle /\ ren' = Resting
  /\ UNCHANGED <<etcD, acmeD, lineage, expired, faults>>

\* The filesystem writes its log by itself.
Flush ==
  /\ \/ etcD # etc /\ etcD' = etc /\ UNCHANGED acmeD
     \/ acmeD # acme /\ acmeD' = acme /\ UNCHANGED etcD
  /\ UNCHANGED <<etc, acme, lineage, expired, live, pub, ren, spent>>

-----------------------------------------------------------------------------
Init ==
  /\ etc = [pem |-> 0, journal |-> NoJournal, backup |-> 0, snapshot |-> NoReceipt]
  /\ acme = [receipt |-> NoReceipt, renewal |-> "NONE"]
  /\ etcD = etc /\ acmeD = acme
  /\ lineage = 0 /\ expired = 0 /\ live = 0
  /\ pub = Idle /\ ren = Resting
  /\ faults = 0 /\ crashes = 0

Publisher ==
  \/ Admit \/ Snapshot \/ Gate \/ Backup \/ JournalRecord \/ Replace \/ Reload \/ Again
  \/ Accept \/ Reaccept \/ Unlink \/ Rollback \/ Rejournal \/ Compensate \/ Rereload
  \/ Unjournal \/ Finally \/ Forget
  \/ RecoverAdmit \/ RecoverRestore \/ RecoverReceipt \/ RecoverReload \/ RecoverUnlink
  \/ RecoverDrop \/ RecoverForget
  \/ InitialAdmit \/ InitialAccept \/ InitialUnlink

Renewer ==
  \/ RenewBegin \/ RenewCheck \/ RenewCertbot \/ RenewHook \/ RenewHooked \/ RenewLock
  \/ RenewVerify \/ RenewSuccess \/ RenewFailure

Next ==
  \/ Publisher \/ Renewer
  \/ \E obtain \in BOOLEAN : Renew(obtain)
  \/ \E op \in {"initial", "accept", "deploy", "recover"} : Operate(op)
  \/ Start \/ Stop \/ SharedReload \/ Expire \/ KillPublisher \/ KillRenewer \/ PowerFail \/ Flush

Spec == Init /\ [][Next]_vars

\* publish() and its callbacks are straight-line code with bounded probes, run by
\* a live process: each of their steps is eventually taken.
LiveSpec == Spec /\ WF_vars(Publisher) /\ WF_vars(Renewer)

-----------------------------------------------------------------------------
(* Properties.                                                             *)

Steps == {"idle", "admit", "snapshot", "gate", "backup", "journal", "replace", "reload",
          "again", "accept", "reaccept", "unlink", "rollback", "rejournal", "compensate",
          "rereload", "unjournal", "finally", "finally-ok", "forget", "recover", "restore",
          "restore-receipt", "recover-reload", "drop-journal", "drop-backup",
          "drop-snapshot", "initial", "initial-accept", "initial-unlink"}

\* The type invariant: documents are complete, on disk and in the durable copy.
TypeOK ==
  /\ etc \in Etc /\ etcD \in Etc /\ acme \in Acme /\ acmeD \in Acme
  /\ lineage \in Gen0 /\ expired \in 0 .. lineage /\ live \in Gen0
  /\ pub \in [owner : {"none", "admin", "hook", "renewer"},
              op : {"none", "initial", "accept", "deploy", "recover"}, pc : Steps,
              prev : Gen0, cand : Gen0, receipt : Receipt, sure : BOOLEAN, ok : BOOLEAN]
  /\ ren \in [pc : {"idle", "begin", "check", "certbot", "hook", "hooked", "lock",
                    "verify", "success", "failure"}, obtain : BOOLEAN]
  /\ faults \in 0 .. MaxFaults /\ crashes \in 0 .. MaxCrashes

\* No publication is running and none is pending.
Quiet == pub.owner = "none" /\ etc.journal = NoJournal

\* "Restore the authenticated predecessor": while a renewal is pending and no
\* process works on it, the bytes recover_publication() needs are there, in the
\* files and in what a power failure leaves of them.
PredecessorIsKept ==
  \A e \in {etc, etcD} :
    pub.owner = "none" /\ e.journal.previous # 0
      => /\ e.backup = e.journal.previous
         /\ e.pem \in {e.journal.previous, e.journal.candidate}

\* The serving certificate, once nothing is pending, is the one the receipt
\* accepted: a renewal is either complete in both directories or pending.  It
\* outlasts any number of crashes, and two I/O failures, but not a failure and a
\* crash together (a rollback that failed half-way and lost its journal), nor a third
\* failure (the journal's unlink, its rewriting and the receipt in one rollback).
QuietIsBound ==
  (faults = 0 \/ (crashes = 0 /\ faults <= 2)) /\ Quiet /\ etc.pem # 0 => acme.receipt.fp = etc.pem

\* Since the first acceptance HAProxy serves the accepted certificate, or one of
\* the two of a pending publication; it never keeps a rejected candidate.  A second
\* failure, when the unlinked journal of a rollback cannot be written again, may leave it
\* serving one that no document names.
ServesTheAccepted ==
  faults <= 1 /\ live # 0 /\ acme.receipt # NoReceipt =>
              \/ live = acme.receipt.fp
              \/ etc.journal # NoJournal
                   /\ live \in {etc.journal.previous, etc.journal.candidate}

\* "SUCCESS only after serving proof": a recorded success is about the lineage's
\* current certificate, still accepted and still the serving file (unless --recover
\* removed a first one), whatever ran since: after any number of failures without a
\* crash, or after at most one of each.  A kill between the journal's unlink and its directory sync, and then
\* a power failure, brings the journal back, and --recover undoes what the record still
\* calls SUCCESS; so does a power failure after a rollback that failed in both steps.
SuccessIsCurrent ==
  (crashes = 0 \/ (crashes <= 1 /\ faults <= 1)) /\ acme.renewal = "SUCCESS"
    => acme.receipt.fp = lineage /\ etc.pem \in {0, lineage}

\* Every publication, rollback and recovery, and every renewal with its hook, comes
\* to an end and frees its lock.
LocksAreReleased ==
  /\ pub.owner # "none" ~> pub.owner = "none"
  /\ ren.pc # "idle" ~> ren.pc = "idle"

\* "--recover restores the digest-bound predecessor and its old receipt": once
\* recovery put the predecessor back, the receipt kept for it is that one's, or
\* compensate() refuses and the host can neither recover nor deploy again.
RecoveryFindsReceipt ==
  pub.pc = "restore-receipt" /\ etc.journal.previous # 0 => etc.snapshot.fp = etc.pem

=============================================================================
