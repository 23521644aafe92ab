--------------------------- MODULE ViewerTlsProofs ---------------------------
(***************************************************************************)
(* Theorems about the viewer certificate lifecycle, for any number of      *)
(* lineage generations, failures and crashes.                              *)
(***************************************************************************)
EXTENDS ViewerTls, TLAPS

Started(prev, cand) == [previous |-> prev, candidate |-> cand]

\* publish() between the copy of the predecessor and its finally.
Guarded == {"replace", "reload", "accept", "unlink", "rollback", "rejournal", "compensate", "rereload", "unjournal"}

\* Who holds publish.lock, and at which operation.
Held ==
  /\ pub.owner = "none" => pub.pc = "idle"
  /\ pub.pc \in {"snapshot", "reload", "accept", "unlink", "compensate", "rereload", "again", "reaccept", "forget"}
       => pub.op = "deploy"
  /\ pub.pc \in {"admit", "gate", "backup", "journal", "finally", "finally-ok"} \cup Guarded => pub.op \in {"initial", "deploy"}
  /\ pub.pc \in {"snapshot", "gate", "again", "reaccept", "backup", "journal"} \cup Guarded => pub.cand # 0

\* What publish() finds in /etc/haproxy at each of its steps.
Publishes ==
  /\ pub.pc = "gate" /\ pub.op = "initial" => etc.pem = 0
  /\ pub.pc \in {"backup", "journal", "again", "reaccept"} => etc.journal = NoJournal /\ etc.pem = pub.prev
  /\ pub.pc \in {"again", "reaccept"} => pub.prev = pub.cand
  /\ pub.pc \in {"backup", "journal"} \cup Guarded => pub.prev # pub.cand
  /\ pub.pc \in {"journal"} \cup Guarded /\ pub.prev # 0 => etc.backup = pub.prev
  /\ pub.pc \in Guarded => etc.journal \in {NoJournal, Started(pub.prev, pub.cand)}
  /\ pub.pc \in {"replace", "reload", "accept", "unlink"} => etc.journal # NoJournal
  /\ pub.pc \in {"replace", "rejournal", "compensate", "rereload", "unjournal"} => etc.pem = pub.prev
  /\ pub.pc \in {"reload", "accept", "unlink", "rollback"} => etc.pem = pub.cand

\* What --recover and --accept-initial find there.
Recovers ==
  /\ pub.pc \in {"restore", "restore-receipt", "recover-reload", "drop-journal"} => etc.journal # NoJournal
  /\ pub.pc \in {"restore-receipt", "recover-reload", "drop-journal"} => etc.pem = etc.journal.previous
  /\ pub.pc \in {"drop-backup", "drop-snapshot"} => etc.journal = NoJournal
  /\ pub.pc \in {"initial-accept", "initial-unlink"} => etc.pem # 0 /\ etc.journal = Started(0, etc.pem)

\* The predecessor of a pending renewal is kept, whoever works on it.
Keeps(e) ==
  e.journal.previous # 0 => e.backup = e.journal.previous /\ e.pem \in {e.journal.previous, e.journal.candidate}

PInv == TypeOK /\ Held /\ Publishes /\ Recovers /\ Keeps(etc) /\ Keeps(etcD)

LEMMA PublicationInitially == Init => PInv
BY BoundsAssumption DEF Init, PInv, TypeOK, Held, Publishes, Recovers, Keeps, Idle, Resting, NoJournal, NoReceipt, Etc, Acme, Gen, Gen0,
   Journal, Receipt, Steps, Guarded

-----------------------------------------------------------------------------
(* One step of the publication.                                            *)

PubRecord == [owner : {"none", "admin", "hook", "renewer"},
              op : {"none", "initial", "accept", "deploy", "recover"}, pc : Steps,
              prev : Gen0, cand : Gen0, receipt : Receipt, sure : BOOLEAN, ok : BOOLEAN]

\* The operation goes on at l, or it is left and publish.lock with it, unless it is the renewer's.
Goes(l) ==
  /\ pub' \in PubRecord
  /\ IF l \in {"ok", "raise"}
     THEN /\ pub'.pc = "idle" /\ pub'.op = "none" /\ pub'.prev = 0 /\ pub'.cand = 0
          /\ pub'.owner = IF pub.owner = "renewer" THEN "renewer" ELSE "none"
          /\ pub.owner \in {"renewer", "hook"} => pub'.ok = (l = "ok")
     ELSE /\ pub'.pc = l
          /\ pub'.owner = pub.owner /\ pub'.op = pub.op /\ pub'.prev = pub.prev /\ pub'.cand = pub.cand
          /\ pub'.receipt = pub.receipt /\ pub'.sure = pub.sure /\ pub'.ok = pub.ok

LEMMA GoGoes == ASSUME pub \in PubRecord, NEW l \in Steps \cup {"ok", "raise"}, Go(l) PROVE Goes(l)
<1>1. 0 \in Gen0 /\ NoReceipt \in Receipt
  BY BoundsAssumption DEF Gen0, Receipt
<1>2. CASE l \in {"ok", "raise"}
  <2>1. pub' = Ended(l = "ok")
    BY <1>2 DEF Go
  <2>2. CASE pub.owner = "renewer"
    <3>1. pub' = [Idle EXCEPT !.owner = "renewer", !.ok = (l = "ok")]
      BY <2>1, <2>2 DEF Ended
    <3> QED
      BY <1>1, <1>2, <2>2, <3>1 DEF Idle, Goes, PubRecord, Steps
  <2>3. CASE pub.owner = "hook"
    <3>1. pub' = [Idle EXCEPT !.ok = (l = "ok")]
      BY <2>1, <2>3 DEF Ended
    <3> QED
      BY <1>1, <1>2, <2>3, <3>1 DEF Idle, Goes, PubRecord, Steps
  <2>4. CASE pub.owner \notin {"renewer", "hook"}
    <3>1. pub' = Idle
      BY <2>1, <2>4 DEF Ended
    <3> QED
      BY <1>1, <1>2, <2>4, <3>1 DEF Idle, Goes, PubRecord, Steps
  <2> QED
    BY <2>2, <2>3, <2>4
<1>3. CASE l \notin {"ok", "raise"}
  <2>1. pub' = [pub EXCEPT !.pc = l]
    BY <1>3 DEF Go
  <2> QED
    BY <1>3, <2>1 DEF Goes, PubRecord
<1> QED
  BY <1>2, <1>3

Moves == Steps \cup {"ok", "raise"}
Elsewhere == UNCHANGED <<lineage, expired, ren, crashes>>

LEMMA TypedPub == TypeOK => pub \in PubRecord
BY DEF TypeOK, PubRecord

\* The other half of the types: what is not the publication's record.
LEMMA TypesOf ==
  ASSUME TypeOK, pub' \in PubRecord, Elsewhere, etc' \in Etc, etcD' \in Etc, acme' \in Acme, acmeD' \in Acme,
         live' \in Gen0, faults' \in 0 .. MaxFaults
  PROVE  TypeOK'
BY DEF TypeOK, PubRecord, Elsewhere

\* A raised exception is one failure more.
LEMMA RaiseGoes ==
  ASSUME TypeOK, NEW l \in Moves, Raise(l)
  PROVE  Goes(l) /\ faults' = faults + 1 /\ faults' \in 0 .. MaxFaults
<1>1. Goes(l)
  BY GoGoes, TypedPub DEF Raise, Moves
<1>2. faults' = faults + 1 /\ faults' \in 0 .. MaxFaults
  BY BoundsAssumption DEF Raise, TypeOK
<1> QED
  BY <1>1, <1>2

\* A replacement and its sync: done, or raised before or after the entry changed.
LEMMA WritesEtc ==
  ASSUME TypeOK, NEW v \in Etc, NEW next \in Moves, NEW failed \in Moves, WriteEtc(v, next, failed), Elsewhere
  PROVE  /\ TypeOK'
         /\ UNCHANGED <<acme, acmeD, live>>
         /\ \/ etc' = v /\ etcD' = v /\ Goes(next) /\ faults' = faults
            \/ etc' \in {etc, v} /\ etcD' = etcD /\ Goes(failed) /\ faults' = faults + 1
<1>1. UNCHANGED <<acme, acmeD, live>>
  BY DEF WriteEtc
<1>2. CASE etc' = v /\ etcD' = v /\ Go(next) /\ UNCHANGED faults
  <2>1. Goes(next) /\ pub' \in PubRecord
    BY <1>2, GoGoes, TypedPub DEF Moves, Goes
  <2>2. TypeOK'
    BY <1>1, <1>2, <2>1, TypesOf DEF TypeOK
  <2> QED
    BY <1>1, <1>2, <2>1, <2>2
<1>3. CASE etc' \in {etc, v} /\ UNCHANGED etcD /\ Raise(failed)
  <2>1. Goes(failed) /\ pub' \in PubRecord /\ faults' = faults + 1 /\ faults' \in 0 .. MaxFaults
    BY <1>3, RaiseGoes DEF Goes
  <2>2. TypeOK'
    BY <1>1, <1>3, <2>1, TypesOf DEF TypeOK
  <2> QED
    BY <1>1, <1>3, <2>1, <2>2
<1> QED
  BY <1>2, <1>3 DEF WriteEtc

LEMMA WritesAcme ==
  ASSUME TypeOK, NEW v \in Acme, NEW next \in Moves, NEW failed \in Moves, WriteAcme(v, next, failed), Elsewhere
  PROVE  /\ TypeOK'
         /\ UNCHANGED <<etc, etcD, live>>
         /\ \/ acme' = v /\ acmeD' = v /\ Goes(next) /\ faults' = faults
            \/ acme' \in {acme, v} /\ acmeD' = acmeD /\ Goes(failed) /\ faults' = faults + 1
<1>1. UNCHANGED <<etc, etcD, live>>
  BY DEF WriteAcme
<1>2. CASE acme' = v /\ acmeD' = v /\ Go(next) /\ UNCHANGED faults
  <2>1. Goes(next) /\ pub' \in PubRecord
    BY <1>2, GoGoes, TypedPub DEF Moves, Goes
  <2>2. TypeOK'
    BY <1>1, <1>2, <2>1, TypesOf DEF TypeOK
  <2> QED
    BY <1>1, <1>2, <2>1, <2>2
<1>3. CASE acme' \in {acme, v} /\ UNCHANGED acmeD /\ Raise(failed)
  <2>1. Goes(failed) /\ pub' \in PubRecord /\ faults' = faults + 1 /\ faults' \in 0 .. MaxFaults
    BY <1>3, RaiseGoes DEF Goes
  <2>2. TypeOK'
    BY <1>1, <1>3, <2>1, TypesOf DEF TypeOK
  <2> QED
    BY <1>1, <1>3, <2>1, <2>2
<1> QED
  BY <1>2, <1>3 DEF WriteAcme

\* A reload: HAProxy serves the new bytes, or may do so, or refused them.
LEMMA ReloadsLive ==
  ASSUME TypeOK, NEW next \in Moves, NEW failed \in Moves, Reloads(next, failed), Elsewhere
  PROVE  /\ TypeOK'
         /\ UNCHANGED <<etc, etcD, acme, acmeD>>
         /\ \/ ReloadAdmitted /\ live # 0 /\ live' = etc.pem /\ Goes(next) /\ faults' = faults
            \/ ReloadAdmitted /\ live # 0 /\ live' \in {live, etc.pem} /\ Goes(failed) /\ faults' = faults + 1
            \/ live' = live /\ Goes(failed) /\ faults' = faults
<1>1. UNCHANGED <<etc, etcD, acme, acmeD>> /\ etc.pem \in Gen0
  BY DEF Reloads, disk, TypeOK, Etc
<1>2. CASE ReloadAdmitted /\ live # 0 /\ live' = etc.pem /\ Go(next) /\ UNCHANGED faults
  <2>1. Goes(next) /\ pub' \in PubRecord
    BY <1>2, GoGoes, TypedPub DEF Moves, Goes
  <2>2. TypeOK'
    BY <1>1, <1>2, <2>1, TypesOf DEF TypeOK
  <2> QED
    BY <1>1, <1>2, <2>1, <2>2
<1>3. CASE ReloadAdmitted /\ live # 0 /\ live' \in {live, etc.pem} /\ Raise(failed)
  <2>1. Goes(failed) /\ pub' \in PubRecord /\ faults' = faults + 1 /\ faults' \in 0 .. MaxFaults
    BY <1>3, RaiseGoes DEF Goes
  <2>2. TypeOK'
    BY <1>1, <1>3, <2>1, TypesOf DEF TypeOK
  <2> QED
    BY <1>1, <1>3, <2>1, <2>2
<1>4. CASE live' = live /\ Go(failed) /\ UNCHANGED faults
  <2>1. Goes(failed) /\ pub' \in PubRecord
    BY <1>4, GoGoes, TypedPub DEF Moves, Goes
  <2>2. TypeOK'
    BY <1>1, <1>4, <2>1, TypesOf DEF TypeOK
  <2> QED
    BY <1>1, <1>4, <2>1, <2>2
<1> QED
  BY <1>2, <1>3, <1>4 DEF Reloads

\* A step that changes nothing but its place.
LEMMA OnlyGoes ==
  ASSUME TypeOK, NEW l \in Moves, Go(l), NoWrite, UNCHANGED faults, Elsewhere
  PROVE  /\ TypeOK' /\ Goes(l)
         /\ UNCHANGED <<etc, etcD, acme, acmeD, live, faults>>
<1>1. Goes(l) /\ pub' \in PubRecord
  BY GoGoes, TypedPub DEF Moves, Goes
<1>2. UNCHANGED <<etc, etcD, acme, acmeD, live, faults>>
  BY DEF NoWrite, disk
<1> QED
  BY <1>1, <1>2, TypesOf DEF TypeOK

-----------------------------------------------------------------------------
(* What each step of publish(), deploy() and recover_publication() does.   *)

LEMMA Documents ==
  ASSUME TypeOK
  PROVE  /\ etc \in Etc /\ etcD \in Etc /\ acme \in Acme /\ acmeD \in Acme
         /\ \A n \in Gen0 : [etc EXCEPT !.pem = n] \in Etc /\ [etc EXCEPT !.backup = n] \in Etc
         /\ \A j \in Journal : [etc EXCEPT !.journal = j] \in Etc
         /\ \A r \in Receipt : [etc EXCEPT !.snapshot = r] \in Etc /\ [acme EXCEPT !.receipt = r] \in Acme
         /\ 0 \in Gen0 /\ NoJournal \in Journal /\ NoReceipt \in Receipt
         /\ \A n \in Gen0, c \in Gen : Started(n, c) \in Journal
         /\ \A c \in Gen0 : c # 0 => c \in Gen
         /\ pub.prev \in Gen0 /\ pub.cand \in Gen0 /\ pub.receipt \in Receipt
         /\ etc.pem \in Gen0 /\ etc.journal \in Journal /\ etc.snapshot \in Receipt
         /\ etc.journal.previous \in Gen0 /\ lineage \in Gen0
<1> USE DEF TypeOK
<1>1. 0 \in Gen0 /\ \A c \in Gen0 : c # 0 => c \in Gen
  BY BoundsAssumption DEF Gen0, Gen
<1>2. NoJournal \in Journal /\ NoReceipt \in Receipt /\ \A n \in Gen0, c \in Gen : Started(n, c) \in Journal
  BY DEF Journal, Receipt, Started
<1>3. etc \in Etc /\ etcD \in Etc /\ acme \in Acme /\ acmeD \in Acme /\ lineage \in Gen0
      /\ pub.prev \in Gen0 /\ pub.cand \in Gen0 /\ pub.receipt \in Receipt
  OBVIOUS
<1>4. etc.pem \in Gen0 /\ etc.journal \in Journal /\ etc.snapshot \in Receipt
  BY <1>3 DEF Etc
<1>5. etc.journal.previous \in Gen0
  BY <1>1, <1>4 DEF Journal, NoJournal
<1>6. /\ \A n \in Gen0 : [etc EXCEPT !.pem = n] \in Etc /\ [etc EXCEPT !.backup = n] \in Etc
      /\ \A j \in Journal : [etc EXCEPT !.journal = j] \in Etc
      /\ \A r \in Receipt : [etc EXCEPT !.snapshot = r] \in Etc
  BY <1>3 DEF Etc
<1>7. \A r \in Receipt : [acme EXCEPT !.receipt = r] \in Acme
  BY <1>3 DEF Acme
<1> QED
  BY <1>1, <1>2, <1>3, <1>4, <1>5, <1>6, <1>7

LEMMA AcceptedTypes ==
  ASSUME TypeOK, NEW c \in Gen
  PROVE  Accepted(c) \in Acme /\ Accepted(c).receipt.fp = c /\ Accepted(c).receipt # NoReceipt
         /\ Accepted(c).renewal = acme.renewal
<1> DEFINE renewed == acme.receipt # NoReceipt /\ (acme.receipt.renewed \/ acme.receipt.fp # c)
<1>1. acme \in Acme /\ acme.receipt \in Receipt
  BY DEF TypeOK, Acme
<1>2. renewed \in BOOLEAN
  OBVIOUS
<1>3. c # 0
  BY BoundsAssumption DEF Gen
<1>4. Accepted(c) = [acme EXCEPT !.receipt = [fp |-> c, renewed |-> renewed]]
  BY DEF Accepted
<1> HIDE DEF renewed
<1>5. [fp |-> c, renewed |-> renewed] \in Receipt /\ [fp |-> c, renewed |-> renewed] # NoReceipt
  BY <1>2, <1>3 DEF Receipt, NoReceipt
<1> QED
  BY <1>1, <1>4, <1>5 DEF Acme

\* A document with one of its parts replaced.
WithPem(n) == [etc EXCEPT !.pem = n]
WithJournal(j) == [etc EXCEPT !.journal = j]
WithBackup(n) == [etc EXCEPT !.backup = n]
WithSnapshot(r) == [etc EXCEPT !.snapshot = r]
WithReceipt(r) == [acme EXCEPT !.receipt = r]

LEMMA EtcFields ==
  ASSUME TypeOK
  PROVE  /\ \A n : LET v == WithPem(n) IN
              v.pem = n /\ v.journal = etc.journal /\ v.backup = etc.backup /\ v.snapshot = etc.snapshot
         /\ \A n : LET v == WithJournal(n) IN
              v.pem = etc.pem /\ v.journal = n /\ v.backup = etc.backup /\ v.snapshot = etc.snapshot
         /\ \A n : LET v == WithBackup(n) IN
              v.pem = etc.pem /\ v.journal = etc.journal /\ v.backup = n /\ v.snapshot = etc.snapshot
         /\ \A n : LET v == WithSnapshot(n) IN
              v.pem = etc.pem /\ v.journal = etc.journal /\ v.backup = etc.backup /\ v.snapshot = n
BY DEF TypeOK, Etc, WithPem, WithJournal, WithBackup, WithSnapshot

LEMMA AcmeFields ==
  ASSUME TypeOK
  PROVE  \A r : WithReceipt(r).receipt = r /\ WithReceipt(r).renewal = acme.renewal
BY DEF TypeOK, Acme, WithReceipt

LEMMA AdmitDoes ==
  ASSUME TypeOK, Held, Admit
  PROVE  /\ TypeOK' /\ UNCHANGED <<etc, etcD, acme, acmeD, live, faults>>
         /\ \/ Goes("raise")
            \/ /\ Valid(lineage) /\ lineage # 0 /\ pub'.cand = lineage /\ pub'.receipt = acme.receipt
               /\ pub'.owner = pub.owner /\ pub'.op = pub.op /\ pub'.prev = pub.prev /\ pub'.sure = pub.sure
               /\ pub'.ok = pub.ok
               /\ \/ pub.op = "initial" /\ acme.receipt = NoReceipt /\ etc.pem = 0 /\ pub'.pc = "gate"
                  \/ /\ pub.op # "initial" /\ etc.pem # 0 /\ etc.pem = acme.receipt.fp /\ Probed(etc.pem)
                     /\ pub'.pc = "snapshot"
<1>1. Elsewhere /\ NoWrite /\ UNCHANGED faults /\ UNCHANGED <<etc, etcD, acme, acmeD, live, faults>>
  BY DEF Admit, At, Elsewhere, NoWrite, disk
<1>2. CASE Go("raise")
  BY <1>1, <1>2, OnlyGoes DEF Moves
<1>3. CASE ~Go("raise")
  <2>1. /\ Valid(lineage)
        /\ IF pub.op = "initial" THEN acme.receipt = NoReceipt /\ etc.pem = 0
           ELSE etc.pem # 0 /\ etc.pem = acme.receipt.fp /\ Probed(etc.pem)
        /\ pub' = [pub EXCEPT !.pc = IF pub.op = "initial" THEN "gate" ELSE "snapshot",
                              !.cand = lineage, !.receipt = acme.receipt]
    BY <1>3 DEF Admit
  <2>2. lineage # 0
    BY <2>1 DEF Valid, TypeOK, Gen0
  <2>3. pub' \in PubRecord
    BY <2>1, TypedPub, Documents DEF PubRecord, Steps, Acme
  <2>4. TypeOK'
    BY <1>1, <2>3, TypesOf DEF TypeOK
  <2> QED
    BY <1>1, <2>1, <2>2, <2>4, TypedPub DEF PubRecord
<1> QED
  BY <1>2, <1>3

LEMMA SnapshotDoes ==
  ASSUME TypeOK, Snapshot
  PROVE  /\ TypeOK' /\ UNCHANGED <<acme, acmeD, live>>
         /\ LET v == WithSnapshot(pub.receipt) IN
            \/ etc' = v /\ etcD' = v /\ Goes("gate") /\ faults' = faults
            \/ etc' \in {etc, v} /\ etcD' = etcD /\ Goes("raise") /\ faults' = faults + 1
<1> USE DEF WithSnapshot
<1>1. [etc EXCEPT !.snapshot = pub.receipt] \in Etc /\ "gate" \in Moves /\ "raise" \in Moves
  BY Documents DEF Moves, Steps
<1>2. Elsewhere /\ WriteEtc([etc EXCEPT !.snapshot = pub.receipt], "gate", "raise")
  BY DEF Snapshot, At, Elsewhere
<1> QED
  BY <1>1, <1>2, WritesEtc

LEMMA GateDoes ==
  ASSUME TypeOK, Gate
  PROVE  /\ TypeOK' /\ UNCHANGED <<etc, etcD, acme, acmeD, live>>
         /\ \/ etc.journal # NoJournal /\ Goes("raise") /\ faults' = faults
            \/ Goes("raise") /\ faults' = faults + 1
            \/ Goes("finally") /\ faults' = faults + 1
            \/ /\ etc.journal = NoJournal /\ faults' = faults
               /\ pub'.prev = etc.pem /\ pub'.pc = IF etc.pem = pub.cand THEN "again" ELSE "backup"
               /\ pub'.owner = pub.owner /\ pub'.op = pub.op /\ pub'.cand = pub.cand
               /\ pub'.receipt = pub.receipt /\ pub'.sure = pub.sure /\ pub'.ok = pub.ok
<1>1. Elsewhere /\ NoWrite /\ UNCHANGED <<etc, etcD, acme, acmeD, live>>
  BY DEF Gate, At, Elsewhere, NoWrite, disk
<1>2. CASE etc.journal # NoJournal /\ Go("raise") /\ UNCHANGED faults
  BY <1>1, <1>2, OnlyGoes DEF Moves
<1>3. CASE Raise("raise") \/ Raise("finally")
  <2>1. /\ (Goes("raise") \/ Goes("finally")) /\ pub' \in PubRecord
        /\ faults' = faults + 1 /\ faults' \in 0 .. MaxFaults
    BY <1>3, RaiseGoes DEF Moves, Steps, Goes
  <2>2. pub' \in PubRecord
    BY <2>1 DEF Goes
  <2>3. TypeOK'
    BY <1>1, <2>1, <2>2, TypesOf DEF TypeOK
  <2> QED
    BY <1>1, <2>1, <2>3
<1>4. CASE /\ etc.journal = NoJournal /\ UNCHANGED faults
           /\ pub' = [pub EXCEPT !.prev = etc.pem, !.pc = IF etc.pem = pub.cand THEN "again" ELSE "backup"]
  <2>1. pub' \in PubRecord
    BY <1>4, TypedPub, Documents DEF PubRecord, Steps
  <2>2. TypeOK'
    BY <1>1, <1>4, <2>1, TypesOf DEF TypeOK
  <2> QED
    BY <1>1, <1>4, <2>2, TypedPub DEF PubRecord
<1> QED
  BY <1>2, <1>3, <1>4 DEF Gate

LEMMA BackupDoes ==
  ASSUME TypeOK, Backup
  PROVE  /\ TypeOK' /\ UNCHANGED <<etcD, acme, acmeD, live>>
         /\ \/ /\ etc' = IF pub.prev # 0 THEN WithBackup(pub.prev) ELSE etc
               /\ Goes("journal") /\ faults' = faults
            \/ etc' = etc /\ Goes("finally") /\ faults' = faults + 1
<1> USE DEF WithBackup
<1>1. Elsewhere /\ UNCHANGED <<etcD, acme, acmeD, live>>
  BY DEF Backup, At, Elsewhere
<1>2. CASE /\ etc' = IF pub.prev # 0 THEN [etc EXCEPT !.backup = pub.prev] ELSE etc
           /\ Go("journal") /\ UNCHANGED faults
  <2>1. Goes("journal") /\ pub' \in PubRecord
    BY <1>2, GoGoes, TypedPub DEF Moves, Steps, Goes
  <2>2. etc' \in Etc
    BY <1>2, Documents
  <2> QED
    BY <1>1, <1>2, <2>1, <2>2, TypesOf DEF TypeOK
<1>3. CASE Raise("finally") /\ UNCHANGED etc
  <2>1. Goes("finally") /\ pub' \in PubRecord /\ faults' = faults + 1 /\ faults' \in 0 .. MaxFaults
    BY <1>3, RaiseGoes DEF Moves, Steps, Goes
  <2> QED
    BY <1>1, <1>3, <2>1, TypesOf DEF TypeOK
<1> QED
  BY <1>2, <1>3 DEF Backup

LEMMA JournalRecordDoes ==
  ASSUME TypeOK, Held, JournalRecord
  PROVE  /\ TypeOK' /\ UNCHANGED <<acme, acmeD, live>>
         /\ LET v == WithJournal(Started(pub.prev, pub.cand)) IN
            \/ etc' = v /\ etcD' = v /\ Goes("replace") /\ faults' = faults
            \/ etc' \in {etc, v} /\ etcD' = etcD /\ Goes("finally") /\ faults' = faults + 1
<1> USE DEF WithJournal
<1>1. pub.cand # 0
  BY DEF Held, JournalRecord, At
<1>2. [etc EXCEPT !.journal = Started(pub.prev, pub.cand)] \in Etc /\ "replace" \in Moves /\ "finally" \in Moves
  BY <1>1, Documents DEF Moves, Steps
<1>3. Elsewhere /\ WriteEtc([etc EXCEPT !.journal = Started(pub.prev, pub.cand)], "replace", "finally")
  BY DEF JournalRecord, At, Elsewhere, Started
<1> QED
  BY <1>2, <1>3, WritesEtc

LEMMA ReplaceDoes ==
  ASSUME TypeOK, Replace
  PROVE  /\ TypeOK' /\ UNCHANGED <<acme, acmeD, live>>
         /\ LET v == WithPem(pub.cand) IN
            \/ etc' = v /\ etcD' = v /\ pub.op = "initial" /\ Goes("finally-ok") /\ faults' = faults
            \/ etc' = v /\ etcD' = v /\ pub.op # "initial" /\ Goes("reload") /\ faults' = faults
            \/ etc' = v /\ etcD' = etcD /\ Goes("rollback") /\ faults' = faults + 1
            \/ etc' = etc /\ etcD' = etcD /\ Goes("finally") /\ faults' = faults + 1
<1> USE DEF WithPem
<1> DEFINE v == [etc EXCEPT !.pem = pub.cand]
<1>1. Elsewhere /\ UNCHANGED <<acme, acmeD, live>>
  BY DEF Replace, At, Elsewhere
<1>2. v \in Etc /\ etc \in Etc /\ etcD \in Etc
  BY Documents
<1>3. CASE etc' = v /\ etcD' = v /\ Go(IF pub.op = "initial" THEN "finally-ok" ELSE "reload") /\ UNCHANGED faults
  <2>1. CASE pub.op = "initial"
    <3>1. Goes("finally-ok") /\ pub' \in PubRecord
      BY <1>3, <2>1, GoGoes, TypedPub DEF Moves, Steps, Goes
    <3> QED
      BY <1>1, <1>2, <1>3, <2>1, <3>1, TypesOf DEF TypeOK
  <2>2. CASE pub.op # "initial"
    <3>1. Goes("reload") /\ pub' \in PubRecord
      BY <1>3, <2>2, GoGoes, TypedPub DEF Moves, Steps, Goes
    <3> QED
      BY <1>1, <1>2, <1>3, <2>2, <3>1, TypesOf DEF TypeOK
  <2> QED
    BY <2>1, <2>2
<1>4. CASE etc' = v /\ UNCHANGED etcD /\ Raise("rollback")
  <2>1. Goes("rollback") /\ pub' \in PubRecord /\ faults' = faults + 1 /\ faults' \in 0 .. MaxFaults
    BY <1>4, RaiseGoes DEF Moves, Steps, Goes
  <2> QED
    BY <1>1, <1>2, <1>4, <2>1, TypesOf DEF TypeOK
<1>5. CASE UNCHANGED <<etc, etcD>> /\ Raise("finally")
  <2>1. Goes("finally") /\ pub' \in PubRecord /\ faults' = faults + 1 /\ faults' \in 0 .. MaxFaults
    BY <1>5, RaiseGoes DEF Moves, Steps, Goes
  <2> QED
    BY <1>1, <1>2, <1>5, <2>1, TypesOf DEF TypeOK
<1> QED
  BY <1>3, <1>4, <1>5 DEF Replace

LEMMA ReloadDoes ==
  ASSUME TypeOK, NEW next \in Moves, NEW failed \in Moves,
         \/ Reload /\ next = "accept" /\ failed = "rollback"
         \/ Again /\ next = "reaccept" /\ failed = "finally"
         \/ Rereload /\ next = "unjournal" /\ failed = "finally"
  PROVE  /\ TypeOK' /\ UNCHANGED <<etc, etcD, acme, acmeD>>
         /\ \/ ReloadAdmitted /\ live # 0 /\ live' = etc.pem /\ Goes(next) /\ faults' = faults
            \/ ReloadAdmitted /\ live # 0 /\ live' \in {live, etc.pem} /\ Goes(failed) /\ faults' = faults + 1
            \/ live' = live /\ Goes(failed) /\ faults' = faults
<1>1. Elsewhere /\ Reloads(next, failed)
  BY DEF Reload, Again, Rereload, At, Elsewhere
<1> QED
  BY <1>1, ReloadsLive

LEMMA AcceptDoes ==
  ASSUME TypeOK, Held, NEW next \in Moves, NEW failed \in Moves,
         \/ Accept /\ next = "unlink" /\ failed = "rollback"
         \/ Reaccept /\ next = "finally-ok" /\ failed = "finally"
  PROVE  /\ TypeOK' /\ UNCHANGED <<etc, etcD, live>>
         /\ LET v == Accepted(pub.cand) IN
            \/ acme' = v /\ acmeD' = v /\ Goes(next) /\ faults' = faults
            \/ acme' \in {acme, v} /\ acmeD' = acmeD /\ Goes(failed) /\ faults' = faults + 1
<1>1. Elsewhere /\ WriteAcme(Accepted(pub.cand), next, failed)
  BY DEF Accept, Reaccept, At, Elsewhere
<1>2. pub.cand # 0
  BY DEF Held, Accept, Reaccept, At, Guarded
<1>3. Accepted(pub.cand) \in Acme
  BY <1>2, Documents, AcceptedTypes
<1> QED
  BY <1>1, <1>3, WritesAcme

\* Unlink, Unjournal, RecoverUnlink and InitialUnlink: the journal goes.
LEMMA UnlinkDoes ==
  ASSUME TypeOK, NEW next \in Moves, NEW failed \in Moves,
         \/ Unlink /\ next = "finally-ok" /\ failed = "rollback"
         \/ Unjournal /\ pub.sure /\ next = "finally" /\ failed = "finally"
         \/ RecoverUnlink /\ next = "drop-backup" /\ failed = "raise"
         \/ InitialUnlink /\ next = "ok" /\ failed = "raise"
  PROVE  /\ TypeOK' /\ UNCHANGED <<acme, acmeD, live>>
         /\ LET v == WithJournal(NoJournal) IN
            \/ etc' = v /\ etcD' = v /\ Goes(next) /\ faults' = faults
            \/ etc' \in {etc, v} /\ etcD' = etcD /\ Goes(failed) /\ faults' = faults + 1
<1> USE DEF WithJournal
<1>1. Elsewhere /\ WriteEtc([etc EXCEPT !.journal = NoJournal], next, failed)
  BY DEF Unlink, Unjournal, RecoverUnlink, InitialUnlink, At, Elsewhere
<1>2. [etc EXCEPT !.journal = NoJournal] \in Etc
  BY Documents
<1> QED
  BY <1>1, <1>2, WritesEtc

LEMMA UnjournalDoes ==
  ASSUME TypeOK, Unjournal, ~pub.sure
  PROVE  TypeOK' /\ Goes("finally") /\ UNCHANGED <<etc, etcD, acme, acmeD, live, faults>>
<1>1. Elsewhere /\ Go("finally") /\ NoWrite /\ UNCHANGED faults /\ "finally" \in Moves
  BY DEF Unjournal, At, Elsewhere, Moves, Steps
<1> QED
  BY <1>1, OnlyGoes

LEMMA RollbackDoes ==
  ASSUME TypeOK, Rollback
  PROVE  /\ TypeOK' /\ UNCHANGED <<acme, acmeD, live>>
         /\ LET v == WithPem(pub.prev) IN
            \/ etc' = v /\ etcD' = v /\ Goes("rejournal") /\ faults' = faults
            \/ /\ etc' = v /\ etcD' = etcD /\ faults' = faults + 1
               /\ pub'.pc = "rejournal" /\ pub'.sure = FALSE /\ pub'.owner = pub.owner /\ pub'.op = pub.op
               /\ pub'.prev = pub.prev /\ pub'.cand = pub.cand /\ pub'.receipt = pub.receipt /\ pub'.ok = pub.ok
            \/ etc' = etc /\ etcD' = etcD /\ Goes("finally") /\ faults' = faults + 1
<1> USE DEF WithPem
<1> DEFINE v == [etc EXCEPT !.pem = pub.prev]
<1>1. Elsewhere /\ UNCHANGED <<acme, acmeD, live>>
  BY DEF Rollback, At, Elsewhere
<1>2. v \in Etc /\ etc \in Etc /\ etcD \in Etc
  BY Documents
<1>3. CASE etc' = v /\ etcD' = v /\ Go("rejournal") /\ UNCHANGED faults
  <2>1. Goes("rejournal") /\ pub' \in PubRecord
    BY <1>3, GoGoes, TypedPub DEF Moves, Steps, Goes
  <2> QED
    BY <1>1, <1>2, <1>3, <2>1, TypesOf DEF TypeOK
<1>4. CASE /\ etc' = v /\ UNCHANGED etcD /\ faults < MaxFaults /\ faults' = faults + 1
           /\ pub' = [pub EXCEPT !.pc = "rejournal", !.sure = FALSE]
  <2>1. pub' \in PubRecord
    BY <1>4, TypedPub DEF PubRecord, Steps
  <2>2. faults' \in 0 .. MaxFaults
    BY <1>4, BoundsAssumption DEF TypeOK
  <2>3. TypeOK'
    BY <1>1, <1>2, <1>4, <2>1, <2>2, TypesOf DEF TypeOK
  <2> QED
    BY <1>1, <1>4, <2>3, TypedPub DEF PubRecord
<1>5. CASE UNCHANGED <<etc, etcD>> /\ Raise("finally")
  <2>1. Goes("finally") /\ pub' \in PubRecord /\ faults' = faults + 1 /\ faults' \in 0 .. MaxFaults
    BY <1>5, RaiseGoes DEF Moves, Steps, Goes
  <2> QED
    BY <1>1, <1>2, <1>5, <2>1, TypesOf DEF TypeOK
<1> QED
  BY <1>3, <1>4, <1>5 DEF Rollback

\* The next step of the handler: an initial publication has nothing to compensate.
AfterJournal == IF pub.op = "initial" THEN "unjournal" ELSE "compensate"

LEMMA RejournalDoes ==
  ASSUME TypeOK, Held, Rejournal
  PROVE  /\ TypeOK' /\ UNCHANGED <<acme, acmeD, live>>
         /\ LET v == WithJournal(Started(pub.prev, pub.cand)) IN
            \/ etc.journal # NoJournal /\ etc' = etc /\ etcD' = etcD /\ Goes(AfterJournal) /\ faults' = faults
            \/ etc.journal = NoJournal /\ etc' = v /\ etcD' = v /\ Goes(AfterJournal) /\ faults' = faults
            \/ /\ etc.journal = NoJournal /\ etc' \in {etc, v} /\ etcD' = etcD /\ faults' = faults + 1
               /\ pub'.pc = AfterJournal /\ pub'.sure = FALSE /\ pub'.owner = pub.owner /\ pub'.op = pub.op
               /\ pub'.prev = pub.prev /\ pub'.cand = pub.cand /\ pub'.receipt = pub.receipt /\ pub'.ok = pub.ok
<1> USE DEF WithJournal
<1> DEFINE v == [etc EXCEPT !.journal = Started(pub.prev, pub.cand)]
<1>1. Elsewhere /\ UNCHANGED <<acme, acmeD, live>>
  BY DEF Rejournal, At, Elsewhere
<1>2. pub.cand # 0
  BY DEF Rejournal, At, Held, Guarded
<1>3. v \in Etc /\ etc \in Etc /\ etcD \in Etc
  BY <1>2, Documents
<1>4. AfterJournal \in Moves /\ AfterJournal \in Steps
  BY DEF AfterJournal, Moves, Steps
<1>5. CASE etc.journal # NoJournal
  <2>1. Go(AfterJournal) /\ UNCHANGED <<etc, etcD, faults>>
    BY <1>5 DEF Rejournal, AfterJournal
  <2>2. Goes(AfterJournal) /\ pub' \in PubRecord
    BY <1>4, <2>1, GoGoes, TypedPub DEF Moves, Goes
  <2> QED
    BY <1>1, <1>3, <1>5, <2>1, <2>2, TypesOf DEF TypeOK
<1>6. CASE etc.journal = NoJournal
  <2>1. \/ etc' = v /\ etcD' = v /\ Go(AfterJournal) /\ UNCHANGED faults
        \/ /\ etc' \in {etc, v} /\ UNCHANGED etcD /\ faults < MaxFaults /\ faults' = faults + 1
           /\ pub' = [pub EXCEPT !.pc = AfterJournal, !.sure = FALSE]
    BY <1>6 DEF Rejournal, AfterJournal, Started
  <2> HIDE DEF v
  <2>2. CASE etc' = v /\ etcD' = v /\ Go(AfterJournal) /\ UNCHANGED faults
    <3>1. Goes(AfterJournal) /\ pub' \in PubRecord
      BY <1>4, <2>2, GoGoes, TypedPub DEF Moves, Goes
    <3>2. TypeOK'
      BY <1>1, <1>3, <2>2, <3>1, TypesOf DEF TypeOK
    <3> QED
      BY <1>1, <1>6, <2>2, <3>1, <3>2 DEF v
  <2>3. CASE /\ etc' \in {etc, v} /\ UNCHANGED etcD /\ faults < MaxFaults /\ faults' = faults + 1
             /\ pub' = [pub EXCEPT !.pc = AfterJournal, !.sure = FALSE]
    <3>1. pub' \in PubRecord
      BY <1>4, <2>3, TypedPub DEF PubRecord
    <3>2. faults' \in 0 .. MaxFaults
      BY <2>3, BoundsAssumption DEF TypeOK
    <3>3. TypeOK'
      BY <1>1, <1>3, <2>3, <3>1, <3>2, TypesOf DEF TypeOK
    <3> QED
      BY <1>1, <1>6, <2>3, <3>3, TypedPub DEF v, PubRecord
  <2> QED
    BY <2>1, <2>2, <2>3
<1> QED
  BY <1>5, <1>6

LEMMA CompensateDoes ==
  ASSUME TypeOK, Compensate
  PROVE  /\ TypeOK' /\ UNCHANGED <<etc, etcD, live>>
         /\ LET v == WithReceipt(pub.receipt) IN
            \/ acme' = v /\ acmeD' = v /\ Goes("rereload") /\ faults' = faults
            \/ acme' \in {acme, v} /\ acmeD' = acmeD /\ Goes("finally") /\ faults' = faults + 1
<1> USE DEF WithReceipt
<1>1. [acme EXCEPT !.receipt = pub.receipt] \in Acme /\ "rereload" \in Moves /\ "finally" \in Moves
  BY Documents DEF Moves, Steps
<1>2. Elsewhere /\ WriteAcme([acme EXCEPT !.receipt = pub.receipt], "rereload", "finally")
  BY DEF Compensate, At, Elsewhere
<1> QED
  BY <1>1, <1>2, WritesAcme

AfterFinally == IF pub.pc = "finally" THEN "raise" ELSE IF pub.op = "initial" THEN "ok" ELSE "forget"

LEMMA FinallyDoes ==
  ASSUME TypeOK, Finally
  PROVE  /\ TypeOK' /\ UNCHANGED <<etcD, acme, acmeD, live, faults>> /\ Goes(AfterFinally)
         /\ etc' = IF etc.journal = NoJournal THEN WithBackup(0) ELSE etc
<1> USE DEF WithBackup
<1>1. /\ Elsewhere /\ UNCHANGED <<etcD, acme, acmeD, live, faults>> /\ Go(AfterFinally)
      /\ etc' = IF etc.journal = NoJournal THEN [etc EXCEPT !.backup = 0] ELSE etc
  BY DEF Finally, Elsewhere, AfterFinally
<1>2. AfterFinally \in Moves
  BY DEF AfterFinally, Moves, Steps
<1>3. Goes(AfterFinally) /\ pub' \in PubRecord
  BY <1>1, <1>2, GoGoes, TypedPub DEF Moves, Goes
<1>4. etc' \in Etc
  BY <1>1, Documents
<1> QED
  BY <1>1, <1>3, <1>4, TypesOf DEF TypeOK

LEMMA ForgetDoes ==
  ASSUME TypeOK, Forget
  PROVE  /\ TypeOK' /\ UNCHANGED <<acme, acmeD, live>>
         /\ LET v == WithSnapshot(NoReceipt) IN
            \/ etc' = v /\ etcD' = v /\ Goes("ok") /\ faults' = faults
            \/ etc' \in {etc, v} /\ etcD' = etcD /\ Goes("raise") /\ faults' = faults + 1
<1> USE DEF WithSnapshot
<1>1. [etc EXCEPT !.snapshot = NoReceipt] \in Etc /\ "ok" \in Moves /\ "raise" \in Moves
  BY Documents DEF Moves
<1>2. Elsewhere /\ WriteEtc([etc EXCEPT !.snapshot = NoReceipt], "ok", "raise")
  BY DEF Forget, At, Elsewhere
<1> QED
  BY <1>1, <1>2, WritesEtc

LEMMA RecoverAdmitDoes ==
  ASSUME TypeOK, RecoverAdmit
  PROVE  /\ TypeOK' /\ UNCHANGED <<etc, etcD, acme, acmeD, live, faults>>
         /\ \/ etc.journal = NoJournal /\ Goes("ok")
            \/ etc.journal # NoJournal /\ Goes("raise")
            \/ etc.journal # NoJournal /\ (etc.journal.previous = 0 => live = 0) /\ Goes("restore")
<1> DEFINE l == IF etc.journal = NoJournal THEN "ok"
                ELSE IF etc.journal.previous = 0 /\ live # 0 THEN "raise" ELSE "restore"
<1>1. Elsewhere /\ Go(l) /\ NoWrite /\ UNCHANGED faults
  BY DEF RecoverAdmit, At, Elsewhere
<1>2. l \in Moves
  BY DEF Moves, Steps
<1> HIDE DEF l
<1>3. TypeOK' /\ Goes(l) /\ UNCHANGED <<etc, etcD, acme, acmeD, live, faults>>
  BY <1>1, <1>2, OnlyGoes
<1> QED
  BY <1>3 DEF l

LEMMA RecoverRestoreDoes ==
  ASSUME TypeOK, RecoverRestore
  PROVE  /\ TypeOK' /\ UNCHANGED <<acme, acmeD, live>>
         /\ LET v == WithPem(etc.journal.previous) IN
            \/ etc' = v /\ etcD' = v /\ Goes("restore-receipt") /\ faults' = faults
            \/ etc' \in {etc, v} /\ etcD' = etcD /\ Goes("raise") /\ faults' = faults + 1
            \/ etc' = etc /\ etcD' = etcD /\ Goes("raise") /\ faults' = faults
<1> USE DEF WithPem
<1>1. [etc EXCEPT !.pem = etc.journal.previous] \in Etc /\ "restore-receipt" \in Moves /\ "raise" \in Moves
  BY Documents DEF Moves, Steps
<1>2. Elsewhere
  BY DEF RecoverRestore, At, Elsewhere
<1>3. CASE WriteEtc([etc EXCEPT !.pem = etc.journal.previous], "restore-receipt", "raise")
  BY <1>1, <1>2, <1>3, WritesEtc
<1>4. CASE Go("raise") /\ NoWrite /\ UNCHANGED faults
  BY <1>1, <1>2, <1>4, OnlyGoes
<1> QED
  BY <1>3, <1>4 DEF RecoverRestore

LEMMA RecoverReceiptDoes ==
  ASSUME TypeOK, RecoverReceipt
  PROVE  /\ TypeOK' /\ UNCHANGED <<etc, etcD, live>>
         /\ LET v == WithReceipt(etc.snapshot) IN
            \/ etc.journal.previous = 0 /\ Goes("drop-journal") /\ acme' = acme /\ acmeD' = acmeD /\ faults' = faults
            \/ /\ etc.journal.previous # 0 /\ etc.snapshot # NoReceipt /\ etc.snapshot.fp = etc.pem
               /\ \/ acme' = v /\ acmeD' = v /\ Goes("recover-reload") /\ faults' = faults
                  \/ acme' \in {acme, v} /\ acmeD' = acmeD /\ Goes("raise") /\ faults' = faults + 1
            \/ etc.journal.previous # 0 /\ Goes("raise") /\ acme' = acme /\ acmeD' = acmeD /\ faults' = faults
<1> USE DEF WithReceipt
<1>1. /\ [acme EXCEPT !.receipt = etc.snapshot] \in Acme /\ "recover-reload" \in Moves /\ "raise" \in Moves
      /\ "drop-journal" \in Moves
  BY Documents DEF Moves, Steps
<1>2. Elsewhere
  BY DEF RecoverReceipt, At, Elsewhere
<1>3. CASE etc.journal.previous = 0 /\ Go("drop-journal") /\ NoWrite /\ UNCHANGED faults
  BY <1>1, <1>2, <1>3, OnlyGoes
<1>4. CASE /\ etc.journal.previous # 0 /\ etc.snapshot # NoReceipt /\ etc.snapshot.fp = etc.pem
           /\ WriteAcme([acme EXCEPT !.receipt = etc.snapshot], "recover-reload", "raise")
  BY <1>1, <1>2, <1>4, WritesAcme
<1>5. CASE etc.journal.previous # 0 /\ Go("raise") /\ NoWrite /\ UNCHANGED faults
  BY <1>1, <1>2, <1>5, OnlyGoes
<1> QED
  BY <1>3, <1>4, <1>5 DEF RecoverReceipt

LEMMA RecoverReloadDoes ==
  ASSUME TypeOK, RecoverReload
  PROVE  /\ TypeOK' /\ UNCHANGED <<etc, etcD, acme, acmeD>>
         /\ \/ live = 0 /\ live' = 0 /\ Goes("drop-journal") /\ faults' = faults
            \/ ReloadAdmitted /\ live # 0 /\ live' = etc.pem /\ Goes("drop-journal") /\ faults' = faults
            \/ ReloadAdmitted /\ live # 0 /\ live' \in {live, etc.pem} /\ Goes("raise") /\ faults' = faults + 1
            \/ live' = live /\ Goes("raise") /\ faults' = faults
<1>1. "drop-journal" \in Moves /\ "raise" \in Moves
  BY DEF Moves, Steps
<1>2. Elsewhere
  BY DEF RecoverReload, At, Elsewhere
<1>3. CASE live = 0 /\ Go("drop-journal") /\ NoWrite /\ UNCHANGED faults
  BY <1>1, <1>2, <1>3, OnlyGoes
<1>4. CASE Reloads("drop-journal", "raise")
  BY <1>1, <1>2, <1>4, ReloadsLive
<1> QED
  BY <1>3, <1>4 DEF RecoverReload

LEMMA RecoverDropDoes ==
  ASSUME TypeOK, RecoverDrop
  PROVE  /\ TypeOK' /\ UNCHANGED <<acme, acmeD, live>>
         /\ LET v == WithBackup(0) IN
            \/ etc' = v /\ etcD' = v /\ Goes("drop-snapshot") /\ faults' = faults
            \/ etc' \in {etc, v} /\ etcD' = etcD /\ Goes("raise") /\ faults' = faults + 1
<1> USE DEF WithBackup
<1>1. [etc EXCEPT !.backup = 0] \in Etc /\ "drop-snapshot" \in Moves /\ "raise" \in Moves
  BY Documents DEF Moves, Steps
<1>2. Elsewhere /\ WriteEtc([etc EXCEPT !.backup = 0], "drop-snapshot", "raise")
  BY DEF RecoverDrop, At, Elsewhere
<1> QED
  BY <1>1, <1>2, WritesEtc

LEMMA RecoverForgetDoes ==
  ASSUME TypeOK, RecoverForget
  PROVE  /\ TypeOK' /\ UNCHANGED <<etcD, acme, acmeD, live, faults>> /\ Goes("ok")
         /\ etc' = WithSnapshot(NoReceipt)
<1> USE DEF WithSnapshot
<1>1. /\ Elsewhere /\ UNCHANGED <<etcD, acme, acmeD, live, faults>> /\ Go("ok")
      /\ etc' = [etc EXCEPT !.snapshot = NoReceipt]
  BY DEF RecoverForget, At, Elsewhere
<1>2. Goes("ok") /\ pub' \in PubRecord
  BY <1>1, GoGoes, TypedPub DEF Goes
<1>3. etc' \in Etc
  BY <1>1, Documents
<1> QED
  BY <1>1, <1>2, <1>3, TypesOf DEF TypeOK

LEMMA InitialAdmitDoes ==
  ASSUME TypeOK, InitialAdmit
  PROVE  /\ TypeOK' /\ UNCHANGED <<etc, etcD, acme, acmeD, live, faults>>
         /\ \/ Goes("raise")
            \/ etc.pem # 0 /\ live = etc.pem /\ etc.journal = Started(0, etc.pem) /\ Goes("initial-accept")
<1> DEFINE ok == Served(etc.pem) /\ etc.journal = [previous |-> 0, candidate |-> etc.pem]
           l == IF ok THEN "initial-accept" ELSE "raise"
<1>1. Elsewhere /\ Go(l) /\ NoWrite /\ UNCHANGED faults
  BY DEF InitialAdmit, At, Elsewhere
<1>2. l \in Moves
  BY DEF Moves, Steps
<1>3. ok => etc.pem # 0 /\ live = etc.pem /\ etc.journal = Started(0, etc.pem)
  BY DEF Served, Valid, Started, TypeOK, Gen0
<1> HIDE DEF l, ok
<1>4. TypeOK' /\ Goes(l) /\ UNCHANGED <<etc, etcD, acme, acmeD, live, faults>>
  BY <1>1, <1>2, OnlyGoes
<1> QED
  BY <1>3, <1>4 DEF l

LEMMA InitialAcceptDoes ==
  ASSUME TypeOK, Recovers, InitialAccept
  PROVE  /\ TypeOK' /\ UNCHANGED <<etc, etcD, live>>
         /\ LET v == Accepted(etc.pem) IN
            \/ acme' = v /\ acmeD' = v /\ Goes("initial-unlink") /\ faults' = faults
            \/ acme' \in {acme, v} /\ acmeD' = acmeD /\ Goes("raise") /\ faults' = faults + 1
<1>1. Elsewhere /\ WriteAcme(Accepted(etc.pem), "initial-unlink", "raise")
  BY DEF InitialAccept, At, Elsewhere
<1>2. etc.pem \in Gen
  BY Documents DEF Recovers, InitialAccept, At
<1>3. Accepted(etc.pem) \in Acme /\ "initial-unlink" \in Moves /\ "raise" \in Moves
  BY <1>2, AcceptedTypes DEF Moves, Steps
<1> QED
  BY <1>1, <1>3, WritesAcme

-----------------------------------------------------------------------------
(* Each step of the publication keeps what the next one relies on.         *)

\* The operation, its candidate and its predecessor stay.
Kept == pub'.owner = pub.owner /\ pub'.op = pub.op
Same == Kept /\ pub'.prev = pub.prev /\ pub'.cand = pub.cand

LEMMA AdmitKeeps == ASSUME PInv, Admit PROVE PInv'
<1>1. TypeOK /\ Held /\ Publishes /\ Recovers /\ Keeps(etc) /\ Keeps(etcD)
  BY DEF PInv
<1>2. pub.pc = "admit"
  BY DEF Admit, At
<1>3. TypeOK'
  BY <1>1, AdmitDoes
<1>4. \/ etc' = etc /\ etcD' = etcD /\ pub'.pc = "idle"
      \/ etc' = etc /\ etcD' = etcD /\ pub'.pc = "gate" /\ pub.op = "initial" /\ etc.pem = 0 /\ Kept /\ pub'.cand # 0
      \/ etc' = etc /\ etcD' = etcD /\ pub'.pc = "snapshot" /\ pub.op # "initial" /\ Kept /\ pub'.cand # 0
  BY <1>1, <1>2, AdmitDoes DEF Goes, Same, Kept
<1>5. Held'
  BY <1>1, <1>2, <1>4 DEF Held, Publishes, Guarded, Same, Kept
<1>6. Publishes'
  BY <1>1, <1>2, <1>4 DEF Held, Publishes, Guarded, Same, Kept, Started, NoJournal
<1>7. Recovers'
  BY <1>1, <1>2, <1>4 DEF Held, Publishes, Recovers, Guarded, Same, Kept, Started, NoJournal
<1>8. Keeps(etc)'
  BY <1>1, <1>2, <1>4 DEF Publishes, Recovers, Keeps, Guarded, Started, NoJournal
<1>9. Keeps(etcD)'
  BY <1>1, <1>2, <1>4 DEF Publishes, Recovers, Keeps, Guarded, Started, NoJournal
<1> QED
  BY <1>3, <1>5, <1>6, <1>7, <1>8, <1>9 DEF PInv

LEMMA SnapshotKeeps == ASSUME PInv, Snapshot PROVE PInv'
<1>1. TypeOK /\ Held /\ Publishes /\ Recovers /\ Keeps(etc) /\ Keeps(etcD)
  BY DEF PInv
<1>2. pub.pc = "snapshot"
  BY DEF Snapshot, At
<1> DEFINE v == WithSnapshot(pub.receipt)
<1>3. v.snapshot = pub.receipt /\ v.pem = etc.pem /\ v.journal = etc.journal /\ v.backup = etc.backup
  BY <1>1, EtcFields
<1>4. TypeOK'
  BY <1>1, SnapshotDoes
<1>5. \/ etc' = v /\ etcD' = v /\ pub'.pc = "gate" /\ Same
      \/ etc' \in {etc, v} /\ etcD' = etcD /\ pub'.pc = "idle"
  BY <1>1, <1>2, SnapshotDoes DEF Goes, Same, Kept
<1> HIDE DEF v
<1>6. Held'
  BY <1>1, <1>2, <1>3, <1>5 DEF Held, Publishes, Guarded, Same, Kept
<1>7. Publishes'
  BY <1>1, <1>2, <1>3, <1>5 DEF Held, Publishes, Guarded, Same, Kept, Started, NoJournal
<1>8. Recovers'
  BY <1>1, <1>2, <1>3, <1>5 DEF Held, Publishes, Recovers, Guarded, Same, Kept, Started, NoJournal
<1>9. Keeps(etc)'
  BY <1>1, <1>2, <1>3, <1>5 DEF Publishes, Recovers, Keeps, Guarded, Started, NoJournal
<1>10. Keeps(etcD)'
  BY <1>1, <1>2, <1>3, <1>5 DEF Publishes, Recovers, Keeps, Guarded, Started, NoJournal
<1> QED
  BY <1>4, <1>6, <1>7, <1>8, <1>9, <1>10 DEF PInv

LEMMA GateKeeps == ASSUME PInv, Gate PROVE PInv'
<1>1. TypeOK /\ Held /\ Publishes /\ Recovers /\ Keeps(etc) /\ Keeps(etcD)
  BY DEF PInv
<1>2. pub.pc = "gate"
  BY DEF Gate, At
<1>3. TypeOK'
  BY <1>1, GateDoes
<1>4. \/ etc' = etc /\ etcD' = etcD /\ pub'.pc = "idle"
      \/ etc' = etc /\ etcD' = etcD /\ pub'.pc = "finally" /\ Same
      \/ etc' = etc /\ etcD' = etcD /\ etc.journal = NoJournal /\ pub'.prev = etc.pem
         /\ pub'.pc = (IF etc.pem = pub.cand THEN "again" ELSE "backup") /\ Kept /\ pub'.cand = pub.cand
  BY <1>1, <1>2, GateDoes DEF Goes, Same, Kept
<1>5. Held'
  BY <1>1, <1>2, <1>4 DEF Held, Publishes, Guarded, Same, Kept
<1>6. Publishes'
  BY <1>1, <1>2, <1>4 DEF Held, Publishes, Guarded, Same, Kept, Started, NoJournal
<1>7. Recovers'
  BY <1>1, <1>2, <1>4 DEF Held, Publishes, Recovers, Guarded, Same, Kept, Started, NoJournal
<1>8. Keeps(etc)'
  BY <1>1, <1>2, <1>4 DEF Publishes, Recovers, Keeps, Guarded, Started, NoJournal
<1>9. Keeps(etcD)'
  BY <1>1, <1>2, <1>4 DEF Publishes, Recovers, Keeps, Guarded, Started, NoJournal
<1> QED
  BY <1>3, <1>5, <1>6, <1>7, <1>8, <1>9 DEF PInv

LEMMA BackupKeeps == ASSUME PInv, Backup PROVE PInv'
<1>1. TypeOK /\ Held /\ Publishes /\ Recovers /\ Keeps(etc) /\ Keeps(etcD)
  BY DEF PInv
<1>2. pub.pc = "backup"
  BY DEF Backup, At
<1> DEFINE v == WithBackup(pub.prev)
<1>3. v.backup = pub.prev /\ v.pem = etc.pem /\ v.journal = etc.journal
  BY <1>1, EtcFields
<1>4. TypeOK'
  BY <1>1, BackupDoes
<1>5. \/ pub.prev # 0 /\ etc' = v /\ etcD' = etcD /\ pub'.pc = "journal" /\ Same
      \/ pub.prev = 0 /\ etc' = etc /\ etcD' = etcD /\ pub'.pc = "journal" /\ Same
      \/ etc' = etc /\ etcD' = etcD /\ pub'.pc = "finally" /\ Same
  BY <1>1, <1>2, BackupDoes DEF Goes, Same, Kept
<1> HIDE DEF v
<1>6. Held'
  BY <1>1, <1>2, <1>3, <1>5 DEF Held, Publishes, Guarded, Same, Kept
<1>7. Publishes'
  BY <1>1, <1>2, <1>3, <1>5 DEF Held, Publishes, Guarded, Same, Kept, Started, NoJournal
<1>8. Recovers'
  BY <1>1, <1>2, <1>3, <1>5 DEF Held, Publishes, Recovers, Guarded, Same, Kept, Started, NoJournal
<1>9. Keeps(etc)'
  BY <1>1, <1>2, <1>3, <1>5 DEF Publishes, Recovers, Keeps, Guarded, Started, NoJournal
<1>10. Keeps(etcD)'
  BY <1>1, <1>2, <1>3, <1>5 DEF Publishes, Recovers, Keeps, Guarded, Started, NoJournal
<1> QED
  BY <1>4, <1>6, <1>7, <1>8, <1>9, <1>10 DEF PInv

LEMMA JournalRecordKeeps == ASSUME PInv, JournalRecord PROVE PInv'
<1>1. TypeOK /\ Held /\ Publishes /\ Recovers /\ Keeps(etc) /\ Keeps(etcD)
  BY DEF PInv
<1>2. pub.pc = "journal"
  BY DEF JournalRecord, At
<1> DEFINE v == WithJournal(Started(pub.prev, pub.cand))
<1>3. v.journal = Started(pub.prev, pub.cand) /\ v.pem = etc.pem /\ v.backup = etc.backup
  BY <1>1, EtcFields
<1>4. TypeOK'
  BY <1>1, JournalRecordDoes
<1>5. \/ etc' = v /\ etcD' = v /\ pub'.pc = "replace" /\ Same
      \/ etc' \in {etc, v} /\ etcD' = etcD /\ pub'.pc = "finally" /\ Same
  BY <1>1, <1>2, JournalRecordDoes DEF Goes, Same, Kept
<1> HIDE DEF v
<1>6. Held'
  BY <1>1, <1>2, <1>3, <1>5 DEF Held, Publishes, Guarded, Same, Kept
<1>7. Publishes'
  BY <1>1, <1>2, <1>3, <1>5 DEF Held, Publishes, Guarded, Same, Kept, Started, NoJournal
<1>8. Recovers'
  BY <1>1, <1>2, <1>3, <1>5 DEF Held, Publishes, Recovers, Guarded, Same, Kept, Started, NoJournal
<1>9. Keeps(etc)'
  BY <1>1, <1>2, <1>3, <1>5 DEF Publishes, Recovers, Keeps, Guarded, Started, NoJournal
<1>10. Keeps(etcD)'
  BY <1>1, <1>2, <1>3, <1>5 DEF Publishes, Recovers, Keeps, Guarded, Started, NoJournal
<1> QED
  BY <1>4, <1>6, <1>7, <1>8, <1>9, <1>10 DEF PInv

LEMMA ReplaceKeeps == ASSUME PInv, Replace PROVE PInv'
<1>1. TypeOK /\ Held /\ Publishes /\ Recovers /\ Keeps(etc) /\ Keeps(etcD)
  BY DEF PInv
<1>2. pub.pc = "replace"
  BY DEF Replace, At
<1> DEFINE v == WithPem(pub.cand)
<1>3. v.pem = pub.cand /\ v.journal = etc.journal /\ v.backup = etc.backup
  BY <1>1, EtcFields
<1>4. TypeOK'
  BY <1>1, ReplaceDoes
<1>5. \/ etc' = v /\ etcD' = v /\ pub.op = "initial" /\ pub'.pc = "finally-ok" /\ Same
      \/ etc' = v /\ etcD' = v /\ pub.op # "initial" /\ pub'.pc = "reload" /\ Same
      \/ etc' = v /\ etcD' = etcD /\ pub'.pc = "rollback" /\ Same
      \/ etc' = etc /\ etcD' = etcD /\ pub'.pc = "finally" /\ Same
  BY <1>1, <1>2, ReplaceDoes DEF Goes, Same, Kept
<1> HIDE DEF v
<1>6. Held'
  BY <1>1, <1>2, <1>3, <1>5 DEF Held, Publishes, Guarded, Same, Kept
<1>7. Publishes'
  BY <1>1, <1>2, <1>3, <1>5 DEF Held, Publishes, Guarded, Same, Kept, Started, NoJournal
<1>8. Recovers'
  BY <1>1, <1>2, <1>3, <1>5 DEF Held, Publishes, Recovers, Guarded, Same, Kept, Started, NoJournal
<1>9. Keeps(etc)'
  BY <1>1, <1>2, <1>3, <1>5 DEF Publishes, Recovers, Keeps, Guarded, Started, NoJournal
<1>10. Keeps(etcD)'
  BY <1>1, <1>2, <1>3, <1>5 DEF Publishes, Recovers, Keeps, Guarded, Started, NoJournal
<1> QED
  BY <1>4, <1>6, <1>7, <1>8, <1>9, <1>10 DEF PInv

LEMMA ReloadKeeps == ASSUME PInv, Reload PROVE PInv'
<1>1. TypeOK /\ Held /\ Publishes /\ Recovers /\ Keeps(etc) /\ Keeps(etcD)
  BY DEF PInv
<1>2. pub.pc = "reload"
  BY DEF Reload, At
<1>3. "accept" \in Moves /\ "rollback" \in Moves
  BY DEF Moves, Steps
<1>4. TypeOK'
  BY <1>1, <1>3, ReloadDoes
<1>5. \/ etc' = etc /\ etcD' = etcD /\ pub'.pc = "accept" /\ Same
      \/ etc' = etc /\ etcD' = etcD /\ pub'.pc = "rollback" /\ Same
  BY <1>1, <1>3, <1>2, ReloadDoes DEF Goes, Same, Kept
<1>6. Held'
  BY <1>1, <1>2, <1>5 DEF Held, Publishes, Guarded, Same, Kept
<1>7. Publishes'
  BY <1>1, <1>2, <1>5 DEF Held, Publishes, Guarded, Same, Kept, Started, NoJournal
<1>8. Recovers'
  BY <1>1, <1>2, <1>5 DEF Held, Publishes, Recovers, Guarded, Same, Kept, Started, NoJournal
<1>9. Keeps(etc)'
  BY <1>1, <1>2, <1>5 DEF Publishes, Recovers, Keeps, Guarded, Started, NoJournal
<1>10. Keeps(etcD)'
  BY <1>1, <1>2, <1>5 DEF Publishes, Recovers, Keeps, Guarded, Started, NoJournal
<1> QED
  BY <1>4, <1>6, <1>7, <1>8, <1>9, <1>10 DEF PInv

LEMMA AgainKeeps == ASSUME PInv, Again PROVE PInv'
<1>1. TypeOK /\ Held /\ Publishes /\ Recovers /\ Keeps(etc) /\ Keeps(etcD)
  BY DEF PInv
<1>2. pub.pc = "again"
  BY DEF Again, At
<1>3. "reaccept" \in Moves /\ "finally" \in Moves
  BY DEF Moves, Steps
<1>4. TypeOK'
  BY <1>1, <1>3, ReloadDoes
<1>5. \/ etc' = etc /\ etcD' = etcD /\ pub'.pc = "reaccept" /\ Same
      \/ etc' = etc /\ etcD' = etcD /\ pub'.pc = "finally" /\ Same
  BY <1>1, <1>3, <1>2, ReloadDoes DEF Goes, Same, Kept
<1>6. Held'
  BY <1>1, <1>2, <1>5 DEF Held, Publishes, Guarded, Same, Kept
<1>7. Publishes'
  BY <1>1, <1>2, <1>5 DEF Held, Publishes, Guarded, Same, Kept, Started, NoJournal
<1>8. Recovers'
  BY <1>1, <1>2, <1>5 DEF Held, Publishes, Recovers, Guarded, Same, Kept, Started, NoJournal
<1>9. Keeps(etc)'
  BY <1>1, <1>2, <1>5 DEF Publishes, Recovers, Keeps, Guarded, Started, NoJournal
<1>10. Keeps(etcD)'
  BY <1>1, <1>2, <1>5 DEF Publishes, Recovers, Keeps, Guarded, Started, NoJournal
<1> QED
  BY <1>4, <1>6, <1>7, <1>8, <1>9, <1>10 DEF PInv

LEMMA AcceptKeeps == ASSUME PInv, Accept PROVE PInv'
<1>1. TypeOK /\ Held /\ Publishes /\ Recovers /\ Keeps(etc) /\ Keeps(etcD)
  BY DEF PInv
<1>2. pub.pc = "accept"
  BY DEF Accept, At
<1>3. "unlink" \in Moves /\ "rollback" \in Moves
  BY DEF Moves, Steps
<1>4. TypeOK'
  BY <1>1, <1>3, AcceptDoes
<1>5. \/ etc' = etc /\ etcD' = etcD /\ pub'.pc = "unlink" /\ Same
      \/ etc' = etc /\ etcD' = etcD /\ pub'.pc = "rollback" /\ Same
  BY <1>1, <1>3, <1>2, AcceptDoes DEF Goes, Same, Kept
<1>6. Held'
  BY <1>1, <1>2, <1>5 DEF Held, Publishes, Guarded, Same, Kept
<1>7. Publishes'
  BY <1>1, <1>2, <1>5 DEF Held, Publishes, Guarded, Same, Kept, Started, NoJournal
<1>8. Recovers'
  BY <1>1, <1>2, <1>5 DEF Held, Publishes, Recovers, Guarded, Same, Kept, Started, NoJournal
<1>9. Keeps(etc)'
  BY <1>1, <1>2, <1>5 DEF Publishes, Recovers, Keeps, Guarded, Started, NoJournal
<1>10. Keeps(etcD)'
  BY <1>1, <1>2, <1>5 DEF Publishes, Recovers, Keeps, Guarded, Started, NoJournal
<1> QED
  BY <1>4, <1>6, <1>7, <1>8, <1>9, <1>10 DEF PInv

LEMMA ReacceptKeeps == ASSUME PInv, Reaccept PROVE PInv'
<1>1. TypeOK /\ Held /\ Publishes /\ Recovers /\ Keeps(etc) /\ Keeps(etcD)
  BY DEF PInv
<1>2. pub.pc = "reaccept"
  BY DEF Reaccept, At
<1>3. "finally-ok" \in Moves /\ "finally" \in Moves
  BY DEF Moves, Steps
<1>4. TypeOK'
  BY <1>1, <1>3, AcceptDoes
<1>5. \/ etc' = etc /\ etcD' = etcD /\ pub'.pc = "finally-ok" /\ Same
      \/ etc' = etc /\ etcD' = etcD /\ pub'.pc = "finally" /\ Same
  BY <1>1, <1>3, <1>2, AcceptDoes DEF Goes, Same, Kept
<1>6. Held'
  BY <1>1, <1>2, <1>5 DEF Held, Publishes, Guarded, Same, Kept
<1>7. Publishes'
  BY <1>1, <1>2, <1>5 DEF Held, Publishes, Guarded, Same, Kept, Started, NoJournal
<1>8. Recovers'
  BY <1>1, <1>2, <1>5 DEF Held, Publishes, Recovers, Guarded, Same, Kept, Started, NoJournal
<1>9. Keeps(etc)'
  BY <1>1, <1>2, <1>5 DEF Publishes, Recovers, Keeps, Guarded, Started, NoJournal
<1>10. Keeps(etcD)'
  BY <1>1, <1>2, <1>5 DEF Publishes, Recovers, Keeps, Guarded, Started, NoJournal
<1> QED
  BY <1>4, <1>6, <1>7, <1>8, <1>9, <1>10 DEF PInv

LEMMA UnlinkKeeps == ASSUME PInv, Unlink PROVE PInv'
<1>1. TypeOK /\ Held /\ Publishes /\ Recovers /\ Keeps(etc) /\ Keeps(etcD)
  BY DEF PInv
<1>2. pub.pc = "unlink"
  BY DEF Unlink, At
<1>3. "finally-ok" \in Moves /\ "rollback" \in Moves
  BY DEF Moves, Steps
<1> DEFINE v == WithJournal(NoJournal)
<1>4. v.journal = NoJournal /\ v.pem = etc.pem /\ v.backup = etc.backup
  BY <1>1, EtcFields
<1>5. TypeOK'
  BY <1>1, <1>3, UnlinkDoes
<1>6. \/ etc' = v /\ etcD' = v /\ pub'.pc = "finally-ok" /\ Same
      \/ etc' \in {etc, v} /\ etcD' = etcD /\ pub'.pc = "rollback" /\ Same
  BY <1>1, <1>3, <1>2, UnlinkDoes DEF Goes, Same, Kept
<1> HIDE DEF v
<1>7. Held'
  BY <1>1, <1>2, <1>4, <1>6 DEF Held, Publishes, Guarded, Same, Kept
<1>8. Publishes'
  BY <1>1, <1>2, <1>4, <1>6 DEF Held, Publishes, Guarded, Same, Kept, Started, NoJournal
<1>9. Recovers'
  BY <1>1, <1>2, <1>4, <1>6 DEF Held, Publishes, Recovers, Guarded, Same, Kept, Started, NoJournal
<1>10. Keeps(etc)'
  BY <1>1, <1>2, <1>4, <1>6 DEF Publishes, Recovers, Keeps, Guarded, Started, NoJournal
<1>11. Keeps(etcD)'
  BY <1>1, <1>2, <1>4, <1>6 DEF Publishes, Recovers, Keeps, Guarded, Started, NoJournal
<1> QED
  BY <1>5, <1>7, <1>8, <1>9, <1>10, <1>11 DEF PInv

LEMMA RollbackKeeps == ASSUME PInv, Rollback PROVE PInv'
<1>1. TypeOK /\ Held /\ Publishes /\ Recovers /\ Keeps(etc) /\ Keeps(etcD)
  BY DEF PInv
<1>2. pub.pc = "rollback"
  BY DEF Rollback, At
<1> DEFINE v == WithPem(pub.prev)
<1>3. v.pem = pub.prev /\ v.journal = etc.journal /\ v.backup = etc.backup
  BY <1>1, EtcFields
<1>4. TypeOK'
  BY <1>1, RollbackDoes
<1>5. \/ etc' = v /\ etcD' \in {etcD, v} /\ pub'.pc = "rejournal" /\ Same
      \/ etc' = etc /\ etcD' = etcD /\ pub'.pc = "finally" /\ Same
  BY <1>1, <1>2, RollbackDoes DEF Goes, Same, Kept
<1> HIDE DEF v
<1>6. Held'
  BY <1>1, <1>2, <1>3, <1>5 DEF Held, Publishes, Guarded, Same, Kept
<1>7. Publishes'
  BY <1>1, <1>2, <1>3, <1>5 DEF Held, Publishes, Guarded, Same, Kept, Started, NoJournal
<1>8. Recovers'
  BY <1>1, <1>2, <1>3, <1>5 DEF Held, Publishes, Recovers, Guarded, Same, Kept, Started, NoJournal
<1>9. Keeps(etc)'
  BY <1>1, <1>2, <1>3, <1>5 DEF Publishes, Recovers, Keeps, Guarded, Started, NoJournal
<1>10. Keeps(etcD)'
  BY <1>1, <1>2, <1>3, <1>5 DEF Publishes, Recovers, Keeps, Guarded, Started, NoJournal
<1> QED
  BY <1>4, <1>6, <1>7, <1>8, <1>9, <1>10 DEF PInv

LEMMA RejournalKeeps == ASSUME PInv, Rejournal PROVE PInv'
<1>1. TypeOK /\ Held /\ Publishes /\ Recovers /\ Keeps(etc) /\ Keeps(etcD)
  BY DEF PInv
<1>2. pub.pc = "rejournal"
  BY DEF Rejournal, At
<1> DEFINE v == WithJournal(Started(pub.prev, pub.cand))
<1>3. v.journal = Started(pub.prev, pub.cand) /\ v.pem = etc.pem /\ v.backup = etc.backup
  BY <1>1, EtcFields
<1>4. TypeOK'
  BY <1>1, RejournalDoes
<1>5. etc' \in {etc, v} /\ etcD' \in {etcD, v} /\ pub'.pc = AfterJournal /\ Same
  BY <1>1, <1>2, RejournalDoes DEF Goes, Same, Kept, AfterJournal
<1> HIDE DEF v
<1>6. Held'
  BY <1>1, <1>2, <1>3, <1>5 DEF Held, Publishes, Guarded, Same, Kept, AfterJournal
<1>7. Publishes'
  BY <1>1, <1>2, <1>3, <1>5 DEF Held, Publishes, Guarded, Same, Kept, Started, NoJournal, AfterJournal
<1>8. Recovers'
  BY <1>1, <1>2, <1>3, <1>5 DEF Held, Publishes, Recovers, Guarded, Same, Kept, Started, NoJournal, AfterJournal
<1>9. Keeps(etc)'
  BY <1>1, <1>2, <1>3, <1>5 DEF Publishes, Recovers, Keeps, Guarded, Started, NoJournal, AfterJournal
<1>10. Keeps(etcD)'
  BY <1>1, <1>2, <1>3, <1>5 DEF Publishes, Recovers, Keeps, Guarded, Started, NoJournal, AfterJournal
<1> QED
  BY <1>4, <1>6, <1>7, <1>8, <1>9, <1>10 DEF PInv

LEMMA CompensateKeeps == ASSUME PInv, Compensate PROVE PInv'
<1>1. TypeOK /\ Held /\ Publishes /\ Recovers /\ Keeps(etc) /\ Keeps(etcD)
  BY DEF PInv
<1>2. pub.pc = "compensate"
  BY DEF Compensate, At
<1>3. TypeOK'
  BY <1>1, CompensateDoes
<1>4. \/ etc' = etc /\ etcD' = etcD /\ pub'.pc = "rereload" /\ Same
      \/ etc' = etc /\ etcD' = etcD /\ pub'.pc = "finally" /\ Same
  BY <1>1, <1>2, CompensateDoes DEF Goes, Same, Kept
<1>5. Held'
  BY <1>1, <1>2, <1>4 DEF Held, Publishes, Guarded, Same, Kept
<1>6. Publishes'
  BY <1>1, <1>2, <1>4 DEF Held, Publishes, Guarded, Same, Kept, Started, NoJournal
<1>7. Recovers'
  BY <1>1, <1>2, <1>4 DEF Held, Publishes, Recovers, Guarded, Same, Kept, Started, NoJournal
<1>8. Keeps(etc)'
  BY <1>1, <1>2, <1>4 DEF Publishes, Recovers, Keeps, Guarded, Started, NoJournal
<1>9. Keeps(etcD)'
  BY <1>1, <1>2, <1>4 DEF Publishes, Recovers, Keeps, Guarded, Started, NoJournal
<1> QED
  BY <1>3, <1>5, <1>6, <1>7, <1>8, <1>9 DEF PInv

LEMMA RereloadKeeps == ASSUME PInv, Rereload PROVE PInv'
<1>1. TypeOK /\ Held /\ Publishes /\ Recovers /\ Keeps(etc) /\ Keeps(etcD)
  BY DEF PInv
<1>2. pub.pc = "rereload"
  BY DEF Rereload, At
<1>3. "unjournal" \in Moves /\ "finally" \in Moves
  BY DEF Moves, Steps
<1>4. TypeOK'
  BY <1>1, <1>3, ReloadDoes
<1>5. \/ etc' = etc /\ etcD' = etcD /\ pub'.pc = "unjournal" /\ Same
      \/ etc' = etc /\ etcD' = etcD /\ pub'.pc = "finally" /\ Same
  BY <1>1, <1>3, <1>2, ReloadDoes DEF Goes, Same, Kept
<1>6. Held'
  BY <1>1, <1>2, <1>5 DEF Held, Publishes, Guarded, Same, Kept
<1>7. Publishes'
  BY <1>1, <1>2, <1>5 DEF Held, Publishes, Guarded, Same, Kept, Started, NoJournal
<1>8. Recovers'
  BY <1>1, <1>2, <1>5 DEF Held, Publishes, Recovers, Guarded, Same, Kept, Started, NoJournal
<1>9. Keeps(etc)'
  BY <1>1, <1>2, <1>5 DEF Publishes, Recovers, Keeps, Guarded, Started, NoJournal
<1>10. Keeps(etcD)'
  BY <1>1, <1>2, <1>5 DEF Publishes, Recovers, Keeps, Guarded, Started, NoJournal
<1> QED
  BY <1>4, <1>6, <1>7, <1>8, <1>9, <1>10 DEF PInv

LEMMA UnjournalKeeps == ASSUME PInv, Unjournal PROVE PInv'
<1>1. TypeOK /\ Held /\ Publishes /\ Recovers /\ Keeps(etc) /\ Keeps(etcD)
  BY DEF PInv
<1>2. pub.pc = "unjournal"
  BY DEF Unjournal, At
<1>3. "finally" \in Moves
  BY DEF Moves, Steps
<1> DEFINE v == WithJournal(NoJournal)
<1>4. v.journal = NoJournal /\ v.pem = etc.pem /\ v.backup = etc.backup
  BY <1>1, EtcFields
<1>5. TypeOK'
  BY <1>1, <1>3, UnlinkDoes, UnjournalDoes
<1>6. etc' \in {etc, v} /\ etcD' \in {etcD, v} /\ pub'.pc = "finally" /\ Same
  BY <1>1, <1>3, <1>2, UnlinkDoes, UnjournalDoes DEF Goes, Same, Kept
<1> HIDE DEF v
<1>7. Held'
  BY <1>1, <1>2, <1>4, <1>6 DEF Held, Publishes, Guarded, Same, Kept
<1>8. Publishes'
  BY <1>1, <1>2, <1>4, <1>6 DEF Held, Publishes, Guarded, Same, Kept, Started, NoJournal
<1>9. Recovers'
  BY <1>1, <1>2, <1>4, <1>6 DEF Held, Publishes, Recovers, Guarded, Same, Kept, Started, NoJournal
<1>10. Keeps(etc)'
  BY <1>1, <1>2, <1>4, <1>6 DEF Publishes, Recovers, Keeps, Guarded, Started, NoJournal
<1>11. Keeps(etcD)'
  BY <1>1, <1>2, <1>4, <1>6 DEF Publishes, Recovers, Keeps, Guarded, Started, NoJournal
<1> QED
  BY <1>5, <1>7, <1>8, <1>9, <1>10, <1>11 DEF PInv

LEMMA FinallyKeeps == ASSUME PInv, Finally PROVE PInv'
<1>1. TypeOK /\ Held /\ Publishes /\ Recovers /\ Keeps(etc) /\ Keeps(etcD)
  BY DEF PInv
<1>2. pub.pc \in {"finally", "finally-ok"} /\ pub.op \in {"initial", "deploy"}
  BY <1>1 DEF Finally, Held
<1> DEFINE v == WithBackup(0)
<1>3. v.backup = 0 /\ v.pem = etc.pem /\ v.journal = etc.journal
  BY <1>1, EtcFields
<1>4. TypeOK'
  BY <1>1, FinallyDoes
<1>5. etc' = (IF etc.journal = NoJournal THEN v ELSE etc) /\ etcD' = etcD /\ (pub'.pc = "idle" \/ (pub'.pc = "forget" /\ pub.op # "initial" /\ Same))
  BY <1>1, <1>2, FinallyDoes DEF Goes, Same, Kept, AfterFinally
<1> HIDE DEF v
<1>6. Held'
  BY <1>1, <1>2, <1>3, <1>5 DEF Held, Publishes, Guarded, Same, Kept
<1>7. Publishes'
  BY <1>1, <1>2, <1>3, <1>5 DEF Held, Publishes, Guarded, Same, Kept, Started, NoJournal
<1>8. Recovers'
  BY <1>1, <1>2, <1>3, <1>5 DEF Held, Publishes, Recovers, Guarded, Same, Kept, Started, NoJournal
<1>9. Keeps(etc)'
  BY <1>1, <1>2, <1>3, <1>5 DEF Publishes, Recovers, Keeps, Guarded, Started, NoJournal
<1>10. Keeps(etcD)'
  BY <1>1, <1>2, <1>3, <1>5 DEF Publishes, Recovers, Keeps, Guarded, Started, NoJournal
<1> QED
  BY <1>4, <1>6, <1>7, <1>8, <1>9, <1>10 DEF PInv

LEMMA ForgetKeeps == ASSUME PInv, Forget PROVE PInv'
<1>1. TypeOK /\ Held /\ Publishes /\ Recovers /\ Keeps(etc) /\ Keeps(etcD)
  BY DEF PInv
<1>2. pub.pc = "forget"
  BY DEF Forget, At
<1> DEFINE v == WithSnapshot(NoReceipt)
<1>3. v.snapshot = NoReceipt /\ v.pem = etc.pem /\ v.journal = etc.journal /\ v.backup = etc.backup
  BY <1>1, EtcFields
<1>4. TypeOK'
  BY <1>1, ForgetDoes
<1>5. \/ etc' = v /\ etcD' = v /\ pub'.pc = "idle"
      \/ etc' \in {etc, v} /\ etcD' = etcD /\ pub'.pc = "idle"
  BY <1>1, <1>2, ForgetDoes DEF Goes, Same, Kept
<1> HIDE DEF v
<1>6. Held'
  BY <1>1, <1>2, <1>3, <1>5 DEF Held, Publishes, Guarded, Same, Kept
<1>7. Publishes'
  BY <1>1, <1>2, <1>3, <1>5 DEF Held, Publishes, Guarded, Same, Kept, Started, NoJournal
<1>8. Recovers'
  BY <1>1, <1>2, <1>3, <1>5 DEF Held, Publishes, Recovers, Guarded, Same, Kept, Started, NoJournal
<1>9. Keeps(etc)'
  BY <1>1, <1>2, <1>3, <1>5 DEF Publishes, Recovers, Keeps, Guarded, Started, NoJournal
<1>10. Keeps(etcD)'
  BY <1>1, <1>2, <1>3, <1>5 DEF Publishes, Recovers, Keeps, Guarded, Started, NoJournal
<1> QED
  BY <1>4, <1>6, <1>7, <1>8, <1>9, <1>10 DEF PInv

LEMMA RecoverAdmitKeeps == ASSUME PInv, RecoverAdmit PROVE PInv'
<1>1. TypeOK /\ Held /\ Publishes /\ Recovers /\ Keeps(etc) /\ Keeps(etcD)
  BY DEF PInv
<1>2. pub.pc = "recover"
  BY DEF RecoverAdmit, At
<1>3. TypeOK'
  BY <1>1, RecoverAdmitDoes
<1>4. \/ etc' = etc /\ etcD' = etcD /\ pub'.pc = "idle"
      \/ etc' = etc /\ etcD' = etcD /\ etc.journal # NoJournal /\ pub'.pc = "restore" /\ Same
  BY <1>1, <1>2, RecoverAdmitDoes DEF Goes, Same, Kept
<1>5. Held'
  BY <1>1, <1>2, <1>4 DEF Held, Publishes, Guarded, Same, Kept
<1>6. Publishes'
  BY <1>1, <1>2, <1>4 DEF Held, Publishes, Guarded, Same, Kept, Started, NoJournal
<1>7. Recovers'
  BY <1>1, <1>2, <1>4 DEF Held, Publishes, Recovers, Guarded, Same, Kept, Started, NoJournal
<1>8. Keeps(etc)'
  BY <1>1, <1>2, <1>4 DEF Publishes, Recovers, Keeps, Guarded, Started, NoJournal
<1>9. Keeps(etcD)'
  BY <1>1, <1>2, <1>4 DEF Publishes, Recovers, Keeps, Guarded, Started, NoJournal
<1> QED
  BY <1>3, <1>5, <1>6, <1>7, <1>8, <1>9 DEF PInv

LEMMA RecoverRestoreKeeps == ASSUME PInv, RecoverRestore PROVE PInv'
<1>1. TypeOK /\ Held /\ Publishes /\ Recovers /\ Keeps(etc) /\ Keeps(etcD)
  BY DEF PInv
<1>2. pub.pc = "restore"
  BY DEF RecoverRestore, At
<1> DEFINE v == WithPem(etc.journal.previous)
<1>3. v.pem = etc.journal.previous /\ v.journal = etc.journal /\ v.backup = etc.backup
  BY <1>1, EtcFields
<1>4. TypeOK'
  BY <1>1, RecoverRestoreDoes
<1>5. \/ etc' = v /\ etcD' = v /\ pub'.pc = "restore-receipt" /\ Same
      \/ etc' \in {etc, v} /\ etcD' = etcD /\ pub'.pc = "idle"
  BY <1>1, <1>2, RecoverRestoreDoes DEF Goes, Same, Kept
<1> HIDE DEF v
<1>6. Held'
  BY <1>1, <1>2, <1>3, <1>5 DEF Held, Publishes, Guarded, Same, Kept
<1>7. Publishes'
  BY <1>1, <1>2, <1>3, <1>5 DEF Held, Publishes, Guarded, Same, Kept, Started, NoJournal
<1>8. Recovers'
  BY <1>1, <1>2, <1>3, <1>5 DEF Held, Publishes, Recovers, Guarded, Same, Kept, Started, NoJournal
<1>9. Keeps(etc)'
  BY <1>1, <1>2, <1>3, <1>5 DEF Publishes, Recovers, Keeps, Guarded, Started, NoJournal
<1>10. Keeps(etcD)'
  BY <1>1, <1>2, <1>3, <1>5 DEF Publishes, Recovers, Keeps, Guarded, Started, NoJournal
<1> QED
  BY <1>4, <1>6, <1>7, <1>8, <1>9, <1>10 DEF PInv

LEMMA RecoverReceiptKeeps == ASSUME PInv, RecoverReceipt PROVE PInv'
<1>1. TypeOK /\ Held /\ Publishes /\ Recovers /\ Keeps(etc) /\ Keeps(etcD)
  BY DEF PInv
<1>2. pub.pc = "restore-receipt"
  BY DEF RecoverReceipt, At
<1>3. TypeOK'
  BY <1>1, RecoverReceiptDoes
<1>4. \/ etc' = etc /\ etcD' = etcD /\ pub'.pc = "drop-journal" /\ Same
      \/ etc' = etc /\ etcD' = etcD /\ pub'.pc = "recover-reload" /\ Same
      \/ etc' = etc /\ etcD' = etcD /\ pub'.pc = "idle"
  BY <1>1, <1>2, RecoverReceiptDoes DEF Goes, Same, Kept
<1>5. Held'
  BY <1>1, <1>2, <1>4 DEF Held, Publishes, Guarded, Same, Kept
<1>6. Publishes'
  BY <1>1, <1>2, <1>4 DEF Held, Publishes, Guarded, Same, Kept, Started, NoJournal
<1>7. Recovers'
  BY <1>1, <1>2, <1>4 DEF Held, Publishes, Recovers, Guarded, Same, Kept, Started, NoJournal
<1>8. Keeps(etc)'
  BY <1>1, <1>2, <1>4 DEF Publishes, Recovers, Keeps, Guarded, Started, NoJournal
<1>9. Keeps(etcD)'
  BY <1>1, <1>2, <1>4 DEF Publishes, Recovers, Keeps, Guarded, Started, NoJournal
<1> QED
  BY <1>3, <1>5, <1>6, <1>7, <1>8, <1>9 DEF PInv

LEMMA RecoverReloadKeeps == ASSUME PInv, RecoverReload PROVE PInv'
<1>1. TypeOK /\ Held /\ Publishes /\ Recovers /\ Keeps(etc) /\ Keeps(etcD)
  BY DEF PInv
<1>2. pub.pc = "recover-reload"
  BY DEF RecoverReload, At
<1>3. TypeOK'
  BY <1>1, RecoverReloadDoes
<1>4. \/ etc' = etc /\ etcD' = etcD /\ pub'.pc = "drop-journal" /\ Same
      \/ etc' = etc /\ etcD' = etcD /\ pub'.pc = "idle"
  BY <1>1, <1>2, RecoverReloadDoes DEF Goes, Same, Kept
<1>5. Held'
  BY <1>1, <1>2, <1>4 DEF Held, Publishes, Guarded, Same, Kept
<1>6. Publishes'
  BY <1>1, <1>2, <1>4 DEF Held, Publishes, Guarded, Same, Kept, Started, NoJournal
<1>7. Recovers'
  BY <1>1, <1>2, <1>4 DEF Held, Publishes, Recovers, Guarded, Same, Kept, Started, NoJournal
<1>8. Keeps(etc)'
  BY <1>1, <1>2, <1>4 DEF Publishes, Recovers, Keeps, Guarded, Started, NoJournal
<1>9. Keeps(etcD)'
  BY <1>1, <1>2, <1>4 DEF Publishes, Recovers, Keeps, Guarded, Started, NoJournal
<1> QED
  BY <1>3, <1>5, <1>6, <1>7, <1>8, <1>9 DEF PInv

LEMMA RecoverUnlinkKeeps == ASSUME PInv, RecoverUnlink PROVE PInv'
<1>1. TypeOK /\ Held /\ Publishes /\ Recovers /\ Keeps(etc) /\ Keeps(etcD)
  BY DEF PInv
<1>2. pub.pc = "drop-journal"
  BY DEF RecoverUnlink, At
<1>3. "drop-backup" \in Moves /\ "raise" \in Moves
  BY DEF Moves, Steps
<1> DEFINE v == WithJournal(NoJournal)
<1>4. v.journal = NoJournal /\ v.pem = etc.pem /\ v.backup = etc.backup
  BY <1>1, EtcFields
<1>5. TypeOK'
  BY <1>1, <1>3, UnlinkDoes
<1>6. \/ etc' = v /\ etcD' = v /\ pub'.pc = "drop-backup" /\ Same
      \/ etc' \in {etc, v} /\ etcD' = etcD /\ pub'.pc = "idle"
  BY <1>1, <1>3, <1>2, UnlinkDoes DEF Goes, Same, Kept
<1> HIDE DEF v
<1>7. Held'
  BY <1>1, <1>2, <1>4, <1>6 DEF Held, Publishes, Guarded, Same, Kept
<1>8. Publishes'
  BY <1>1, <1>2, <1>4, <1>6 DEF Held, Publishes, Guarded, Same, Kept, Started, NoJournal
<1>9. Recovers'
  BY <1>1, <1>2, <1>4, <1>6 DEF Held, Publishes, Recovers, Guarded, Same, Kept, Started, NoJournal
<1>10. Keeps(etc)'
  BY <1>1, <1>2, <1>4, <1>6 DEF Publishes, Recovers, Keeps, Guarded, Started, NoJournal
<1>11. Keeps(etcD)'
  BY <1>1, <1>2, <1>4, <1>6 DEF Publishes, Recovers, Keeps, Guarded, Started, NoJournal
<1> QED
  BY <1>5, <1>7, <1>8, <1>9, <1>10, <1>11 DEF PInv

LEMMA RecoverDropKeeps == ASSUME PInv, RecoverDrop PROVE PInv'
<1>1. TypeOK /\ Held /\ Publishes /\ Recovers /\ Keeps(etc) /\ Keeps(etcD)
  BY DEF PInv
<1>2. pub.pc = "drop-backup"
  BY DEF RecoverDrop, At
<1> DEFINE v == WithBackup(0)
<1>3. v.backup = 0 /\ v.pem = etc.pem /\ v.journal = etc.journal
  BY <1>1, EtcFields
<1>4. TypeOK'
  BY <1>1, RecoverDropDoes
<1>5. \/ etc' = v /\ etcD' = v /\ pub'.pc = "drop-snapshot" /\ Same
      \/ etc' \in {etc, v} /\ etcD' = etcD /\ pub'.pc = "idle"
  BY <1>1, <1>2, RecoverDropDoes DEF Goes, Same, Kept
<1> HIDE DEF v
<1>6. Held'
  BY <1>1, <1>2, <1>3, <1>5 DEF Held, Publishes, Guarded, Same, Kept
<1>7. Publishes'
  BY <1>1, <1>2, <1>3, <1>5 DEF Held, Publishes, Guarded, Same, Kept, Started, NoJournal
<1>8. Recovers'
  BY <1>1, <1>2, <1>3, <1>5 DEF Held, Publishes, Recovers, Guarded, Same, Kept, Started, NoJournal
<1>9. Keeps(etc)'
  BY <1>1, <1>2, <1>3, <1>5 DEF Publishes, Recovers, Keeps, Guarded, Started, NoJournal
<1>10. Keeps(etcD)'
  BY <1>1, <1>2, <1>3, <1>5 DEF Publishes, Recovers, Keeps, Guarded, Started, NoJournal
<1> QED
  BY <1>4, <1>6, <1>7, <1>8, <1>9, <1>10 DEF PInv

LEMMA RecoverForgetKeeps == ASSUME PInv, RecoverForget PROVE PInv'
<1>1. TypeOK /\ Held /\ Publishes /\ Recovers /\ Keeps(etc) /\ Keeps(etcD)
  BY DEF PInv
<1>2. pub.pc = "drop-snapshot"
  BY DEF RecoverForget, At
<1> DEFINE v == WithSnapshot(NoReceipt)
<1>3. v.snapshot = NoReceipt /\ v.pem = etc.pem /\ v.journal = etc.journal /\ v.backup = etc.backup
  BY <1>1, EtcFields
<1>4. TypeOK'
  BY <1>1, RecoverForgetDoes
<1>5. etc' = v /\ etcD' = etcD /\ pub'.pc = "idle"
  BY <1>1, <1>2, RecoverForgetDoes DEF Goes, Same, Kept
<1> HIDE DEF v
<1>6. Held'
  BY <1>1, <1>2, <1>3, <1>5 DEF Held, Publishes, Guarded, Same, Kept
<1>7. Publishes'
  BY <1>1, <1>2, <1>3, <1>5 DEF Held, Publishes, Guarded, Same, Kept, Started, NoJournal
<1>8. Recovers'
  BY <1>1, <1>2, <1>3, <1>5 DEF Held, Publishes, Recovers, Guarded, Same, Kept, Started, NoJournal
<1>9. Keeps(etc)'
  BY <1>1, <1>2, <1>3, <1>5 DEF Publishes, Recovers, Keeps, Guarded, Started, NoJournal
<1>10. Keeps(etcD)'
  BY <1>1, <1>2, <1>3, <1>5 DEF Publishes, Recovers, Keeps, Guarded, Started, NoJournal
<1> QED
  BY <1>4, <1>6, <1>7, <1>8, <1>9, <1>10 DEF PInv

LEMMA InitialAdmitKeeps == ASSUME PInv, InitialAdmit PROVE PInv'
<1>1. TypeOK /\ Held /\ Publishes /\ Recovers /\ Keeps(etc) /\ Keeps(etcD)
  BY DEF PInv
<1>2. pub.pc = "initial"
  BY DEF InitialAdmit, At
<1>3. TypeOK'
  BY <1>1, InitialAdmitDoes
<1>4. \/ etc' = etc /\ etcD' = etcD /\ pub'.pc = "idle"
      \/ etc' = etc /\ etcD' = etcD /\ etc.pem # 0 /\ etc.journal = Started(0, etc.pem) /\ pub'.pc = "initial-accept" /\ Same
  BY <1>1, <1>2, InitialAdmitDoes DEF Goes, Same, Kept
<1>5. Held'
  BY <1>1, <1>2, <1>4 DEF Held, Publishes, Guarded, Same, Kept
<1>6. Publishes'
  BY <1>1, <1>2, <1>4 DEF Held, Publishes, Guarded, Same, Kept, Started, NoJournal
<1>7. Recovers'
  BY <1>1, <1>2, <1>4 DEF Held, Publishes, Recovers, Guarded, Same, Kept, Started, NoJournal
<1>8. Keeps(etc)'
  BY <1>1, <1>2, <1>4 DEF Publishes, Recovers, Keeps, Guarded, Started, NoJournal
<1>9. Keeps(etcD)'
  BY <1>1, <1>2, <1>4 DEF Publishes, Recovers, Keeps, Guarded, Started, NoJournal
<1> QED
  BY <1>3, <1>5, <1>6, <1>7, <1>8, <1>9 DEF PInv

LEMMA InitialAcceptKeeps == ASSUME PInv, InitialAccept PROVE PInv'
<1>1. TypeOK /\ Held /\ Publishes /\ Recovers /\ Keeps(etc) /\ Keeps(etcD)
  BY DEF PInv
<1>2. pub.pc = "initial-accept"
  BY DEF InitialAccept, At
<1>3. TypeOK'
  BY <1>1, InitialAcceptDoes
<1>4. \/ etc' = etc /\ etcD' = etcD /\ pub'.pc = "initial-unlink" /\ Same
      \/ etc' = etc /\ etcD' = etcD /\ pub'.pc = "idle"
  BY <1>1, <1>2, InitialAcceptDoes DEF Goes, Same, Kept
<1>5. Held'
  BY <1>1, <1>2, <1>4 DEF Held, Publishes, Guarded, Same, Kept
<1>6. Publishes'
  BY <1>1, <1>2, <1>4 DEF Held, Publishes, Guarded, Same, Kept, Started, NoJournal
<1>7. Recovers'
  BY <1>1, <1>2, <1>4 DEF Held, Publishes, Recovers, Guarded, Same, Kept, Started, NoJournal
<1>8. Keeps(etc)'
  BY <1>1, <1>2, <1>4 DEF Publishes, Recovers, Keeps, Guarded, Started, NoJournal
<1>9. Keeps(etcD)'
  BY <1>1, <1>2, <1>4 DEF Publishes, Recovers, Keeps, Guarded, Started, NoJournal
<1> QED
  BY <1>3, <1>5, <1>6, <1>7, <1>8, <1>9 DEF PInv

LEMMA InitialUnlinkKeeps == ASSUME PInv, InitialUnlink PROVE PInv'
<1>1. TypeOK /\ Held /\ Publishes /\ Recovers /\ Keeps(etc) /\ Keeps(etcD)
  BY DEF PInv
<1>2. pub.pc = "initial-unlink"
  BY DEF InitialUnlink, At
<1>3. "ok" \in Moves /\ "raise" \in Moves
  BY DEF Moves, Steps
<1> DEFINE v == WithJournal(NoJournal)
<1>4. v.journal = NoJournal /\ v.pem = etc.pem /\ v.backup = etc.backup
  BY <1>1, EtcFields
<1>5. TypeOK'
  BY <1>1, <1>3, UnlinkDoes
<1>6. \/ etc' = v /\ etcD' = v /\ pub'.pc = "idle"
      \/ etc' \in {etc, v} /\ etcD' = etcD /\ pub'.pc = "idle"
  BY <1>1, <1>3, <1>2, UnlinkDoes DEF Goes, Same, Kept
<1> HIDE DEF v
<1>7. Held'
  BY <1>1, <1>2, <1>4, <1>6 DEF Held, Publishes, Guarded, Same, Kept
<1>8. Publishes'
  BY <1>1, <1>2, <1>4, <1>6 DEF Held, Publishes, Guarded, Same, Kept, Started, NoJournal
<1>9. Recovers'
  BY <1>1, <1>2, <1>4, <1>6 DEF Held, Publishes, Recovers, Guarded, Same, Kept, Started, NoJournal
<1>10. Keeps(etc)'
  BY <1>1, <1>2, <1>4, <1>6 DEF Publishes, Recovers, Keeps, Guarded, Started, NoJournal
<1>11. Keeps(etcD)'
  BY <1>1, <1>2, <1>4, <1>6 DEF Publishes, Recovers, Keeps, Guarded, Started, NoJournal
<1> QED
  BY <1>5, <1>7, <1>8, <1>9, <1>10, <1>11 DEF PInv

LEMMA PublisherKeeps == PInv /\ Publisher => PInv'
BY AdmitKeeps, SnapshotKeeps, GateKeeps, BackupKeeps, JournalRecordKeeps, ReplaceKeeps, ReloadKeeps, AgainKeeps,
   AcceptKeeps, ReacceptKeeps, UnlinkKeeps, RollbackKeeps, RejournalKeeps, CompensateKeeps, RereloadKeeps,
   UnjournalKeeps, FinallyKeeps, ForgetKeeps, RecoverAdmitKeeps, RecoverRestoreKeeps, RecoverReceiptKeeps,
   RecoverReloadKeeps, RecoverUnlinkKeeps, RecoverDropKeeps, RecoverForgetKeeps, InitialAdmitKeeps,
   InitialAcceptKeeps, InitialUnlinkKeeps DEF Publisher

-----------------------------------------------------------------------------
(* The renewal, HAProxy, the administrator and the failures.               *)

Statuses == {"begin", "check", "certbot", "hook", "hooked", "lock", "verify", "success", "failure"}

RenRecord == [pc : {"idle"} \cup Statuses, obtain : BOOLEAN]

\* The publication starts afresh, at admission, or is left.
Opens ==
  \/ pub' = pub
  \/ /\ pub' \in PubRecord /\ pub'.prev = 0 /\ pub'.cand = 0
     /\ pub'.owner = "renewer" => pub'.op # "initial" /\ etc.journal = NoJournal
     /\ \/ pub'.pc = "idle" /\ pub'.op = "none"
        \/ pub'.pc = "admit" /\ pub'.op \in {"initial", "deploy"} /\ pub'.owner # "none"
        \/ pub'.pc \in {"recover", "initial"} /\ pub'.owner # "none"

LEMMA RenGoes == ASSUME TypeOK, NEW l \in {"idle"} \cup Statuses, RenGo(l)
                 PROVE  ren' \in RenRecord /\ ren'.pc = l
<1>1. ren \in RenRecord
  BY DEF TypeOK, RenRecord, Statuses
<1> QED
  BY <1>1 DEF RenGo, RenRecord, Statuses, Resting

\* atomic_json(RENEWAL, ...) touches the renewal status only.
LEMMA RenWrites ==
  ASSUME TypeOK, NEW s \in {"UNKNOWN", "SUCCESS", "FAILURE"}, NEW next \in {"idle"} \cup Statuses,
         NEW failed \in {"idle"} \cup Statuses, RenWrite(s, next, failed)
  PROVE  /\ acme' \in Acme /\ acmeD' \in Acme /\ ren' \in RenRecord /\ faults' \in 0 .. MaxFaults
         /\ acme'.receipt = acme.receipt /\ acme'.renewal \in {acme.renewal, s}
         /\ faults' >= faults /\ acmeD'.receipt \in {acmeD.receipt, acme.receipt}
         /\ \/ acmeD' = acme' /\ acme'.renewal = s /\ ren'.pc = next
            \/ acmeD' = acmeD /\ faults' # 0 /\ ren'.pc = failed
<1> DEFINE v == [acme EXCEPT !.renewal = s]
<1>1. v \in Acme /\ v.receipt = acme.receipt /\ v.renewal = s /\ acme \in Acme /\ acmeD \in Acme
  BY DEF TypeOK, Acme
<1>2. \/ acme' = v /\ acmeD' = v /\ RenGo(next) /\ UNCHANGED faults
      \/ acme' \in {acme, v} /\ UNCHANGED acmeD /\ faults < MaxFaults /\ faults' = faults + 1 /\ RenGo(failed)
  BY DEF RenWrite
<1> HIDE DEF v
<1>3. CASE acme' = v /\ acmeD' = v /\ RenGo(next) /\ UNCHANGED faults
  <2>1. faults' \in 0 .. MaxFaults /\ faults' >= faults
    BY <1>3, BoundsAssumption DEF TypeOK
  <2> QED
    BY <1>1, <1>3, <2>1, RenGoes
<1>4. CASE acme' \in {acme, v} /\ UNCHANGED acmeD /\ faults < MaxFaults /\ faults' = faults + 1 /\ RenGo(failed)
  <2>1. faults' \in 0 .. MaxFaults /\ faults' >= faults /\ faults' # 0
    BY <1>4, BoundsAssumption DEF TypeOK
  <2> QED
    BY <1>1, <1>4, <2>1, RenGoes
<1> QED
  BY <1>2, <1>3, <1>4

\* What a step of the renewer does to the files and to the publication.
LEMMA RenewerDoes ==
  ASSUME TypeOK, Held, Renewer
  PROVE  /\ UNCHANGED <<etc, etcD, expired, live, crashes>>
         /\ Opens /\ ren' \in RenRecord /\ acme' \in Acme /\ acmeD' \in Acme /\ faults' \in 0 .. MaxFaults
         /\ lineage' \in Gen0 /\ lineage' >= lineage
         /\ acme'.receipt = acme.receipt /\ acmeD'.receipt \in {acmeD.receipt, acme.receipt}
         /\ faults' >= faults /\ (faults' = 0 => acmeD' = acme' \/ (acmeD' = acmeD /\ acme' = acme))
         /\ pub' = pub \/ pub.pc = "idle"
<1> USE DEF RenAt
<1>1. /\ acme \in Acme /\ acmeD \in Acme /\ faults \in 0 .. MaxFaults /\ lineage \in Gen0 /\ lineage >= lineage
      /\ faults >= faults
  BY BoundsAssumption DEF TypeOK, Gen0
<1>2. CASE RenewBegin
  BY <1>1, <1>2, RenWrites DEF RenewBegin, Statuses, Opens
<1>3. CASE RenewCheck
  <2>1. /\ UNCHANGED <<etc, etcD, expired, live, crashes, acme, acmeD, lineage, pub, faults>>
        /\ RenGo("certbot") \/ RenGo("failure")
    BY <1>3 DEF RenewCheck
  <2> QED
    BY <1>1, <2>1, RenGoes DEF Statuses, Opens
<1>4. CASE RenewCertbot
  <2>1. /\ UNCHANGED <<etc, etcD, expired, live, crashes, acme, acmeD, pub, faults>>
        /\ RenGo("idle") \/ RenGo("hook") \/ RenGo("lock") \/ RenGo("failure")
        /\ lineage' = lineage \/ (lineage < MaxGen /\ lineage' = lineage + 1)
    BY <1>4 DEF RenewCertbot
  <2>2. lineage' \in Gen0 /\ lineage' >= lineage
    BY <1>1, <2>1, BoundsAssumption DEF Gen0
  <2> QED
    BY <1>1, <2>1, <2>2, RenGoes DEF Statuses, Opens
<1>5. CASE RenewHook
  <2>1. /\ UNCHANGED <<etc, etcD, expired, live, crashes, acme, acmeD, lineage, faults>>
        /\ RenGo("hooked") \/ RenGo("lock") \/ RenGo("failure")
        /\ \/ pub' = pub
           \/ pub.pc = "idle" /\ pub' = [Idle EXCEPT !.owner = "hook", !.op = "deploy", !.pc = "admit"]
    BY <1>5 DEF RenewHook, Held
  <2>2. Opens
    BY <2>1, Documents DEF Opens, Idle, PubRecord, Steps
  <2> QED
    BY <1>1, <2>1, <2>2, RenGoes DEF Statuses
<1>6. CASE RenewHooked
  <2>1. /\ UNCHANGED <<etc, etcD, expired, live, crashes, acme, acmeD, lineage, pub, faults>>
        /\ RenGo("lock") \/ RenGo("failure")
    BY <1>6 DEF RenewHooked
  <2> QED
    BY <1>1, <2>1, RenGoes DEF Statuses, Opens
<1>7. CASE RenewLock
  <2>1. /\ UNCHANGED <<etc, etcD, expired, live, crashes, acme, acmeD, lineage, faults>>
        /\ RenGo("verify") \/ RenGo("failure")
        /\ \/ pub' = pub
           \/ pub.pc = "idle" /\ etc.journal = NoJournal
              /\ \/ pub' = [Idle EXCEPT !.owner = "renewer"]
                 \/ pub' = [Idle EXCEPT !.owner = "renewer", !.op = "deploy", !.pc = "admit"]
    BY <1>7 DEF RenewLock, Held
  <2>2. Opens
    BY <2>1, Documents DEF Opens, Idle, PubRecord, Steps
  <2> QED
    BY <1>1, <2>1, <2>2, RenGoes DEF Statuses
<1>8. CASE RenewVerify
  <2>1. /\ UNCHANGED <<etc, etcD, expired, live, crashes, acme, acmeD, lineage, faults>>
        /\ RenGo("success") \/ RenGo("failure")
        /\ pub' = Idle /\ pub.pc = "idle"
    BY <1>8 DEF RenewVerify
  <2>2. Opens
    BY <2>1, Documents DEF Opens, Idle, PubRecord, Steps
  <2> QED
    BY <1>1, <2>1, <2>2, RenGoes DEF Statuses
<1>9. CASE RenewSuccess
  BY <1>1, <1>9, RenWrites DEF RenewSuccess, Statuses, Opens
<1>10. CASE RenewFailure
  BY <1>1, <1>10, RenWrites DEF RenewFailure, Statuses, Opens
<1> QED
  BY <1>2, <1>3, <1>4, <1>5, <1>6, <1>7, <1>8, <1>9, <1>10 DEF Renewer

\* Opening or leaving a publication asks nothing of the files.
LEMMA OpensKeeps ==
  ASSUME Held, Publishes, Recovers, Keeps(etc), Keeps(etcD), Opens, UNCHANGED etc, etcD' \in {etc, etcD}
  PROVE  Held' /\ Publishes' /\ Recovers' /\ Keeps(etc)' /\ Keeps(etcD)'
<1>1. Keeps(etc)' /\ Keeps(etcD)'
  BY DEF Keeps
<1>2. CASE pub' = pub
  BY <1>1, <1>2 DEF Held, Publishes, Recovers
<1>3. CASE pub'.pc \in {"idle", "admit", "recover", "initial"} /\ (pub'.owner = "none" => pub'.pc = "idle")
           /\ (pub'.pc = "admit" => pub'.op \in {"initial", "deploy"})
  BY <1>1, <1>3 DEF Held, Publishes, Recovers, Guarded
<1> QED
  BY <1>2, <1>3 DEF Opens

\* The other steps: HAProxy's, the administrator's, and the failures.
Elsewise ==
  \/ \E obtain \in BOOLEAN : Renew(obtain)
  \/ \E op \in {"initial", "accept", "deploy", "recover"} : Operate(op)
  \/ Start \/ Stop \/ SharedReload \/ Expire \/ KillPublisher \/ KillRenewer \/ Flush

LEMMA ElsewiseDoes ==
  ASSUME TypeOK, Elsewise
  PROVE  /\ TypeOK' /\ Opens
         /\ UNCHANGED <<etc, acme, lineage, faults>>
         /\ etcD' \in {etc, etcD} /\ acmeD' \in {acme, acmeD}
<1> USE DEF disk, spent
<1>1. pub \in PubRecord /\ Idle \in PubRecord /\ Resting \in RenRecord /\ ren \in RenRecord
  BY Documents DEF TypeOK, PubRecord, RenRecord, Statuses, Idle, Resting, Steps
<1>2. ASSUME NEW obtain \in BOOLEAN, Renew(obtain)
      PROVE  /\ UNCHANGED <<etc, etcD, acme, acmeD, lineage, expired, live, pub, faults, crashes>> /\ ren' \in RenRecord
  BY <1>2 DEF Renew, RenRecord, Statuses
<1>3. ASSUME NEW op \in {"initial", "accept", "deploy", "recover"}, Operate(op)
      PROVE  /\ UNCHANGED <<etc, etcD, acme, acmeD, lineage, expired, live, ren, faults, crashes>> /\ Opens
             /\ pub' \in PubRecord
  <2>1. pub' = [Idle EXCEPT !.owner = "admin", !.op = op,
                 !.pc = IF op = "accept" THEN "initial" ELSE IF op = "recover" THEN "recover" ELSE "admit"]
    BY <1>3 DEF Operate
  <2>2. pub' \in PubRecord
    BY <1>1, <2>1 DEF PubRecord, Steps
  <2>3. /\ pub'.prev = 0 /\ pub'.cand = 0 /\ pub'.owner = "admin" /\ pub'.op = op
        /\ pub'.pc = IF op = "accept" THEN "initial" ELSE IF op = "recover" THEN "recover" ELSE "admit"
    BY <2>1 DEF Idle
  <2>4. Opens
    BY <1>3, <2>2, <2>3 DEF Opens
  <2> QED
    BY <1>3, <2>2, <2>4 DEF Operate
<1>4. CASE Start \/ SharedReload \/ Stop
  <2>1. UNCHANGED <<etc, etcD, acme, acmeD, lineage, expired, ren, pub, faults, crashes>> /\ live' \in {0, etc.pem}
    BY <1>4 DEF Start, SharedReload, Stop
  <2>2. live' \in Gen0
    BY <2>1, Documents
  <2> QED
    BY <1>1, <2>1, <2>2 DEF TypeOK, Opens
<1>5. CASE Expire
  <2>1. expired' \in 0 .. lineage
    BY <1>5, BoundsAssumption DEF TypeOK, Gen0, Expire
  <2> QED
    BY <1>1, <1>5, <2>1 DEF TypeOK, Opens, Expire
<1>6. CASE KillPublisher \/ KillRenewer
  <2>1. /\ UNCHANGED <<etc, etcD, acme, acmeD, lineage, expired, live, faults>>
        /\ crashes < MaxCrashes /\ crashes' = crashes + 1 /\ pub' \in {Idle, pub} /\ ren' \in {Resting, ren}
    BY <1>6 DEF KillPublisher, KillRenewer, Crashing
  <2>2. crashes' \in 0 .. MaxCrashes
    BY <2>1, BoundsAssumption DEF TypeOK
  <2>3. Opens /\ pub' \in PubRecord /\ ren' \in RenRecord
    <3>1. Idle.pc = "idle" /\ Idle.op = "none" /\ Idle.owner = "none" /\ Idle.prev = 0 /\ Idle.cand = 0
      BY DEF Idle
    <3> QED
      BY <1>1, <2>1, <3>1 DEF Opens
  <2> QED
    BY <2>1, <2>2, <2>3 DEF TypeOK, PubRecord, RenRecord, Statuses
<1>7. CASE Flush
  <2>1. UNCHANGED <<etc, acme, lineage, expired, live, pub, ren, faults, crashes>>
        /\ etcD' \in {etc, etcD} /\ acmeD' \in {acme, acmeD}
    BY <1>7 DEF Flush
  <2> QED
    BY <2>1 DEF TypeOK, Opens
<1>8. ASSUME NEW obtain \in BOOLEAN, Renew(obtain) PROVE TypeOK' /\ Opens
  BY <1>1, <1>2, <1>8 DEF TypeOK, RenRecord, Statuses, Opens
<1>9. ASSUME NEW op \in {"initial", "accept", "deploy", "recover"}, Operate(op) PROVE TypeOK'
  BY <1>1, <1>3, <1>9 DEF TypeOK, PubRecord
<1>10. Start \/ SharedReload \/ Stop \/ Expire \/ KillPublisher \/ KillRenewer
         => UNCHANGED <<etc, etcD, acme, acmeD, lineage, faults>>
  BY DEF Start, SharedReload, Stop, Expire, KillPublisher, KillRenewer
<1>11. Flush => UNCHANGED <<etc, acme, lineage, faults>> /\ etcD' \in {etc, etcD} /\ acmeD' \in {acme, acmeD}
  BY DEF Flush
<1> QED
  BY <1>2, <1>3, <1>4, <1>5, <1>6, <1>7, <1>8, <1>9, <1>10, <1>11 DEF Elsewise

LEMMA PowerFailDoes ==
  ASSUME TypeOK, PowerFail
  PROVE  /\ TypeOK' /\ etc' = etcD /\ etcD' = etcD /\ acme' = acmeD /\ acmeD' = acmeD
         /\ live' = 0 /\ pub' = Idle /\ ren' = Resting /\ UNCHANGED <<lineage, expired, faults>>
         /\ crashes' = crashes + 1
<1>1. /\ etc' = etcD /\ etcD' = etcD /\ acme' = acmeD /\ acmeD' = acmeD
      /\ live' = 0 /\ pub' = Idle /\ ren' = Resting /\ UNCHANGED <<lineage, expired, faults>>
      /\ crashes < MaxCrashes /\ crashes' = crashes + 1
  BY DEF PowerFail, Crashing
<1>2. crashes' \in 0 .. MaxCrashes
  BY <1>1, BoundsAssumption DEF TypeOK
<1>3. Idle \in PubRecord /\ Resting \in RenRecord /\ 0 \in Gen0
  BY Documents DEF PubRecord, RenRecord, Statuses, Idle, Resting, Steps
<1> QED
  BY <1>1, <1>2, <1>3 DEF TypeOK, PubRecord, RenRecord, Statuses

LEMMA PublicationKeeps == PInv /\ [Next]_vars => PInv'
<1> SUFFICES ASSUME PInv, [Next]_vars PROVE PInv'
  OBVIOUS
<1>1. TypeOK /\ Held /\ Publishes /\ Recovers /\ Keeps(etc) /\ Keeps(etcD)
  BY DEF PInv
<1>2. CASE Publisher
  BY <1>2, PublisherKeeps
<1>3. CASE Renewer
  <2>1. /\ UNCHANGED <<etc, etcD, expired, live, crashes>>
        /\ Opens /\ ren' \in RenRecord /\ acme' \in Acme /\ acmeD' \in Acme /\ faults' \in 0 .. MaxFaults
        /\ lineage' \in Gen0 /\ lineage' >= lineage
    BY <1>1, <1>3, RenewerDoes
  <2>2. expired' \in 0 .. lineage'
    BY <1>1, <2>1 DEF TypeOK, Gen0
  <2>3. pub' \in PubRecord
    BY <1>1, <2>1, TypedPub DEF Opens
  <2>4. TypeOK'
    BY <1>1, <2>1, <2>2, <2>3 DEF TypeOK, PubRecord, RenRecord, Statuses
  <2> QED
    BY <1>1, <2>1, <2>4, OpensKeeps DEF PInv
<1>4. CASE Elsewise
  BY <1>1, <1>4, ElsewiseDoes, OpensKeeps DEF PInv
<1>5. CASE PowerFail
  <2>1. TypeOK' /\ etc' = etcD /\ etcD' = etcD /\ pub' = Idle
    BY <1>1, <1>5, PowerFailDoes
  <2> QED
    BY <1>1, <2>1 DEF PInv, Held, Publishes, Recovers, Keeps, Guarded, Idle
<1>6. CASE UNCHANGED vars
  BY <1>1, <1>6 DEF vars, PInv, TypeOK, Held, Publishes, Recovers, Keeps
<1> QED
  BY <1>2, <1>3, <1>4, <1>5, <1>6 DEF Next, Elsewise

\* Whatever is interrupted, killed or powered off, every step of a publication finds the
\* journal, the predecessor and the candidate the previous one left.
THEOREM PublicationHolds == Spec => []PInv
<1>1. Init => PInv
  BY PublicationInitially
<1>2. PInv /\ [Next]_vars => PInv'
  BY PublicationKeeps
<1> QED
  BY <1>1, <1>2, PTL DEF Spec

\* The documents publish(), accept() and recover_publication() write stay whole, on disk
\* and in the durable copy.
THEOREM TypeCorrect == Spec => []TypeOK
<1>1. PInv => TypeOK
  BY DEF PInv
<1> QED
  BY <1>1, PublicationHolds, PTL

\* recover_publication() finds the predecessor of a pending renewal beside its journal,
\* in the files and in what a power failure leaves of them.
THEOREM PredecessorStays == Spec => []PredecessorIsKept
<1>1. PInv => PredecessorIsKept
  BY DEF PInv, PredecessorIsKept, Keeps
<1> QED
  BY <1>1, PublicationHolds, PTL

-----------------------------------------------------------------------------
(* What the receipt, the served certificate and the record of a renewal    *)
(* say of the files, at each step and after every failure.                 *)

\* deploy() between its admission and the write of the new receipt.
Unaccepted == {"snapshot", "gate", "backup", "journal", "again", "reaccept", "replace", "reload", "accept"}

\* The receipt a publication found, and the one on disk at each of its steps.
Binds ==
  /\ pub.pc \in {"snapshot", "gate"} /\ pub.op = "deploy" => pub.receipt.fp = etc.pem /\ etc.pem # 0
  /\ pub.pc \in {"backup", "journal", "again", "reaccept"} \cup Guarded /\ pub.op = "deploy"
       => pub.receipt.fp = pub.prev /\ pub.prev # 0
  /\ pub.pc \in Unaccepted /\ pub.op = "deploy" => acme.receipt = pub.receipt
  /\ pub.pc \in {"gate", "backup", "journal"} \cup Guarded /\ pub.op = "initial" => acme.receipt = NoReceipt
  /\ pub.pc \in {"backup", "journal"} \cup Guarded /\ pub.op = "initial" => pub.prev = 0
  /\ pub.pc \in Guarded /\ pub.op = "initial" => etc.journal # NoJournal
  /\ pub.pc = "unlink" => acme.receipt.fp = pub.cand
  /\ pub.pc \in {"rollback", "rejournal"} /\ etc.journal = NoJournal => acme.receipt.fp = pub.cand
  /\ pub.pc \in {"rereload", "unjournal"} /\ pub.op = "deploy" => acme.receipt.fp = pub.prev
  /\ pub.pc \in {"recover-reload", "drop-journal"} /\ etc.journal.previous # 0
       => acme.receipt.fp = etc.journal.previous
  /\ pub.pc = "initial-unlink" => acme.receipt.fp = etc.pem

\* A first certificate that is pending is the only one a receipt can name.
FirstIsBound(e, a) ==
  e.journal # NoJournal /\ e.journal.previous = 0 /\ a.receipt # NoReceipt => a.receipt.fp = e.journal.candidate

\* What a power failure would leave, beside what is on disk.
Durable ==
  /\ FirstIsBound(etc, acme) /\ FirstIsBound(etc, acmeD) /\ FirstIsBound(etcD, acme) /\ FirstIsBound(etcD, acmeD)
  /\ acme.receipt = NoReceipt => acmeD.receipt = NoReceipt
  /\ pub.pc \in Guarded => etcD.journal \in {NoJournal, Started(pub.prev, pub.cand)}
  /\ pub.pc = "replace" \/ pub.pc = "restore-receipt" => etcD.journal = etc.journal
  /\ etc.journal # NoJournal /\ etc.journal.previous = 0 /\ etc.pem # 0 => etcD.journal = etc.journal

\* A journal that is gone during the rollback took a failure, and two once it was not written again.
Losses ==
  /\ pub.pc \in {"rollback", "rejournal"} /\ etc.journal = NoJournal => faults >= 1
  /\ pub.pc \in {"compensate", "rereload", "unjournal"} /\ etc.journal = NoJournal => faults >= 2

\* What HAProxy serves at each step of a publication, and between them.
Serves ==
  /\ pub.pc \in {"accept", "unlink"} => live \in {0, pub.cand}
  /\ pub.pc = "unjournal" /\ pub.op = "deploy" => live \in {0, pub.prev}
  /\ pub.pc = "drop-journal" /\ etc.journal.previous # 0 => live \in {0, etc.journal.previous}
  /\ pub.pc = "initial-accept" => live \in {0, etc.pem}
  /\ faults <= 1 /\ live # 0 /\ etc.journal = NoJournal /\ acme.receipt # NoReceipt => live = acme.receipt.fp
  /\ faults <= 1 /\ live # 0 /\ etc.journal # NoJournal /\ (etc.journal.previous # 0 \/ acme.receipt # NoReceipt)
       => live \in {etc.journal.previous, etc.journal.candidate}

\* Nothing pending: the receipt is the serving file's, except inside a rollback.
Bound ==
  /\ /\ faults = 0 \/ (crashes = 0 /\ faults <= 2)
     /\ etc.journal = NoJournal /\ etc.pem # 0 /\ pub.pc \notin {"rollback", "rejournal", "compensate"}
     => acme.receipt.fp = etc.pem
  /\ faults = 0 => etcD.pem = etc.pem /\ etcD.journal = etc.journal /\ acmeD = acme

\* No document is ahead of the lineage, and a predecessor is older than its candidate.
Ordered(e) ==
  /\ e.pem <= lineage /\ e.journal.candidate <= lineage /\ e.journal.previous <= lineage
  /\ e.journal.previous # 0 => e.journal.previous < e.journal.candidate

Orders ==
  /\ Ordered(etc) /\ Ordered(etcD)
  /\ pub.cand <= lineage /\ pub.prev <= lineage
  /\ pub.pc \in {"snapshot", "gate"} => etc.pem <= pub.cand
  /\ pub.pc \in {"backup", "journal"} \cup Guarded => pub.prev < pub.cand

\* The renewal between its UNKNOWN record and its outcome.
Renewing == {"check", "certbot", "hook", "hooked", "lock", "verify"}

\* A success is recorded, durably or not, or about to be.
Succeeding == acme.renewal = "SUCCESS" \/ acmeD.renewal = "SUCCESS" \/ ren.pc = "success"

\* A publication that ends without a failure leaves nothing pending; before any crash, and up to
\* one failure, nothing pending on disk means nothing in the durable copy but the old journal of
\* the predecessor that serves.
Settled ==
  /\ pub.owner = "renewer" => pub.op # "initial"
  /\ pub.owner = "renewer" /\ pub.pc = "idle" /\ pub.ok => etc.journal = NoJournal
  /\ pub.pc \in {"finally-ok", "forget"} /\ pub.op = "deploy" => etc.journal = NoJournal
  /\ crashes = 0 /\ faults <= 1 /\ etc.journal = NoJournal /\ pub.pc \notin Guarded
       => etcD.pem = etc.pem /\ etcD.journal.previous \in {0, etc.pem}

Records ==
  /\ ren.pc \in Renewing => acme.renewal = "UNKNOWN" /\ acmeD.renewal = "UNKNOWN"
  /\ (crashes = 0 \/ (crashes <= 1 /\ faults <= 1)) /\ Succeeding
       => /\ acme.receipt.fp = lineage /\ lineage # 0 /\ etc.pem \in {0, lineage}
          /\ etc.journal.previous = 0
          /\ crashes = 0 => etc.journal = NoJournal
          /\ acmeD.renewal = "SUCCESS" => acmeD.receipt.fp = lineage
          /\ pub.pc \notin {"backup", "journal"} \cup Guarded
          /\ pub.pc \in {"snapshot", "gate"} => pub.cand = lineage

SInv == PInv /\ Binds /\ Durable /\ Losses /\ Serves /\ Bound /\ Orders /\ Settled /\ Records

LEMMA Numbers ==
  ASSUME TypeOK
  PROVE  /\ etc.pem \in Nat /\ etc.journal.previous \in Nat /\ etc.journal.candidate \in Nat
         /\ etcD.pem \in Nat /\ etcD.journal.previous \in Nat /\ etcD.journal.candidate \in Nat
         /\ pub.prev \in Nat /\ pub.cand \in Nat /\ lineage \in Nat /\ live \in Nat /\ faults \in Nat /\ crashes \in Nat
         /\ NoJournal.previous = 0 /\ NoJournal.candidate = 0 /\ NoReceipt.fp = 0
         /\ (etc.journal = NoJournal) = (etc.journal.candidate = 0)
         /\ (etcD.journal = NoJournal) = (etcD.journal.candidate = 0)
         /\ (acme.receipt = NoReceipt) = (acme.receipt.fp = 0)
         /\ (acmeD.receipt = NoReceipt) = (acmeD.receipt.fp = 0)
         /\ (pub.receipt = NoReceipt) = (pub.receipt.fp = 0)
         /\ (etc.snapshot = NoReceipt) = (etc.snapshot.fp = 0)
<1>1. \A n \in Gen0 : n \in Nat
  BY BoundsAssumption DEF Gen0
<1>2. \A n \in Gen : n \in Nat /\ n # 0
  BY BoundsAssumption DEF Gen
<1>3. NoJournal.previous = 0 /\ NoJournal.candidate = 0 /\ NoReceipt.fp = 0
  BY DEF NoJournal, NoReceipt
<1>4. \A j \in Journal : /\ j.previous \in Nat /\ j.candidate \in Nat
                         /\ (j = NoJournal) = (j.candidate = 0)
  BY <1>1, <1>2 DEF Journal, NoJournal
<1>5. \A r \in Receipt : (r = NoReceipt) = (r.fp = 0)
  BY <1>2 DEF Receipt, NoReceipt
<1>6. etc.pem \in Gen0 /\ etc.journal \in Journal /\ etc.snapshot \in Receipt /\ etcD.pem \in Gen0 /\ etcD.journal \in Journal
  BY DEF TypeOK, Etc
<1>7. acme.receipt \in Receipt /\ acmeD.receipt \in Receipt /\ pub.receipt \in Receipt
  BY DEF TypeOK, Acme
<1>8. pub.prev \in Gen0 /\ pub.cand \in Gen0 /\ lineage \in Gen0 /\ live \in Gen0 /\ faults \in Nat /\ crashes \in Nat
  BY BoundsAssumption DEF TypeOK
<1> QED
  BY <1>1, <1>3, <1>4, <1>5, <1>6, <1>7, <1>8

\* The operation stays, at step l; or it is left by a failure.
Stays(l) == pub'.pc = l /\ Same /\ pub'.receipt = pub.receipt
Leaves ==
  /\ pub'.pc = "idle" /\ pub'.op = "none" /\ pub'.prev = 0 /\ pub'.cand = 0
  /\ pub'.owner = "renewer" => pub.owner = "renewer"
Fails == Leaves /\ (pub'.owner = "renewer" => ~pub'.ok)

-----------------------------------------------------------------------------
(* Each step of the publication keeps them.                                *)

LEMMA AdmitServes == ASSUME SInv, Admit PROVE SInv'
<1>1. /\ PInv /\ TypeOK /\ Held /\ Publishes /\ Recovers
      /\ Binds /\ Durable /\ Losses /\ Serves /\ Bound /\ Orders /\ Settled /\ Records
  BY DEF SInv, PInv
<1>2. pub.pc = "admit" /\ UNCHANGED <<lineage, ren, crashes>>
  BY DEF Admit, At
<1>3. PInv'
  BY <1>1, AdmitKeeps
<1>4. /\ etc' = etc /\ etcD' = etcD /\ acme' = acme /\ acmeD' = acmeD /\ live' = live /\ faults' = faults
      /\ \/ Fails
         \/ /\ pub.op = "initial" /\ acme.receipt = NoReceipt /\ etc.pem = 0 /\ lineage # 0 /\ pub'.pc = "gate"
            /\ Kept /\ pub'.prev = pub.prev /\ pub'.cand = lineage
         \/ /\ pub.op # "initial" /\ etc.pem = acme.receipt.fp /\ etc.pem # 0 /\ pub'.pc = "snapshot"
            /\ Kept /\ pub'.prev = pub.prev /\ pub'.cand = lineage /\ pub'.receipt = acme.receipt
  BY <1>1, <1>2, AdmitDoes DEF Goes, Stays, Fails, Leaves, Same, Kept, Held
<1>5. Binds'
  BY <1>1, <1>2, <1>4, Numbers DEF Held, Publishes, Recovers, Binds, Guarded, Unaccepted, Started, Stays, Fails, Leaves, Same, Kept
<1>6. Durable'
  BY <1>1, <1>2, <1>4, Numbers DEF Durable, FirstIsBound, Held, Publishes, Recovers, Binds, Guarded, Unaccepted, Started, Stays, Fails, Leaves, Same, Kept
<1>7. Losses'
  BY <1>1, <1>2, <1>4, Numbers DEF Losses, Held, Publishes, Recovers, Binds, Guarded, Unaccepted, Started, Stays, Fails, Leaves, Same, Kept
<1>8. Serves'
  BY <1>1, <1>2, <1>4, Numbers DEF Serves, Losses, Durable, FirstIsBound, ReloadAdmitted, BootAdmitted, Held, Publishes, Recovers, Binds, Guarded, Unaccepted, Started, Stays, Fails, Leaves, Same, Kept
<1>9. Bound'
  BY <1>1, <1>2, <1>4, Numbers DEF Bound, Losses, Durable, FirstIsBound, Held, Publishes, Recovers, Binds, Guarded, Unaccepted, Started, Stays, Fails, Leaves, Same, Kept
<1>10. Orders'
  BY <1>1, <1>2, <1>4, Numbers DEF Orders, Ordered, Durable, Held, Publishes, Recovers, Binds, Guarded, Unaccepted, Started, Stays, Fails, Leaves, Same, Kept
<1>11. Settled'
  BY <1>1, <1>2, <1>4, Numbers DEF Settled, Losses, Bound, Orders, Ordered, Held, Publishes, Recovers, Binds, Guarded, Unaccepted, Started, Stays, Fails, Leaves, Same, Kept
<1>12. Records'
  BY <1>1, <1>2, <1>4, Numbers DEF Records, Succeeding, Renewing, Orders, Ordered, Bound, Durable, FirstIsBound, Losses, Held, Publishes, Recovers, Binds, Guarded, Unaccepted, Started, Stays, Fails, Leaves, Same, Kept
<1> QED
  BY <1>3, <1>5, <1>6, <1>7, <1>8, <1>9, <1>10, <1>11, <1>12 DEF SInv

LEMMA SnapshotServes == ASSUME SInv, Snapshot PROVE SInv'
<1>1. /\ PInv /\ TypeOK /\ Held /\ Publishes /\ Recovers
      /\ Binds /\ Durable /\ Losses /\ Serves /\ Bound /\ Orders /\ Settled /\ Records
  BY DEF SInv, PInv
<1>2. pub.pc = "snapshot" /\ UNCHANGED <<lineage, ren, crashes>>
  BY DEF Snapshot, At
<1>3. PInv'
  BY <1>1, SnapshotKeeps
<1> DEFINE v == WithSnapshot(pub.receipt)
<1>4. v.snapshot = pub.receipt /\ v.pem = etc.pem /\ v.journal = etc.journal
  BY <1>1, EtcFields
<1>5. /\ acme' = acme /\ acmeD' = acmeD /\ live' = live
      /\ \/ etc' = v /\ etcD' = v /\ Stays("gate") /\ faults' = faults
         \/ etc' \in {etc, v} /\ etcD' = etcD /\ Fails /\ faults' = faults + 1
  BY <1>1, <1>2, SnapshotDoes DEF Goes, Stays, Fails, Leaves, Same, Kept
<1> HIDE DEF v
<1>6. Binds'
  BY <1>1, <1>2, <1>4, <1>5, Numbers DEF Held, Publishes, Recovers, Binds, Guarded, Unaccepted, Started, Stays, Fails, Leaves, Same, Kept
<1>7. Durable'
  BY <1>1, <1>2, <1>4, <1>5, Numbers DEF Durable, FirstIsBound, Held, Publishes, Recovers, Binds, Guarded, Unaccepted, Started, Stays, Fails, Leaves, Same, Kept
<1>8. Losses'
  BY <1>1, <1>2, <1>4, <1>5, Numbers DEF Losses, Held, Publishes, Recovers, Binds, Guarded, Unaccepted, Started, Stays, Fails, Leaves, Same, Kept
<1>9. Serves'
  BY <1>1, <1>2, <1>4, <1>5, Numbers DEF Serves, Losses, Durable, FirstIsBound, ReloadAdmitted, BootAdmitted, Held, Publishes, Recovers, Binds, Guarded, Unaccepted, Started, Stays, Fails, Leaves, Same, Kept
<1>10. Bound'
  BY <1>1, <1>2, <1>4, <1>5, Numbers DEF Bound, Losses, Durable, FirstIsBound, Held, Publishes, Recovers, Binds, Guarded, Unaccepted, Started, Stays, Fails, Leaves, Same, Kept
<1>11. Orders'
  BY <1>1, <1>2, <1>4, <1>5, Numbers DEF Orders, Ordered, Durable, Held, Publishes, Recovers, Binds, Guarded, Unaccepted, Started, Stays, Fails, Leaves, Same, Kept
<1>12. Settled'
  BY <1>1, <1>2, <1>4, <1>5, Numbers DEF Settled, Losses, Bound, Orders, Ordered, Held, Publishes, Recovers, Binds, Guarded, Unaccepted, Started, Stays, Fails, Leaves, Same, Kept
<1>13. Records'
  BY <1>1, <1>2, <1>4, <1>5, Numbers DEF Records, Succeeding, Renewing, Orders, Ordered, Bound, Durable, FirstIsBound, Losses, Held, Publishes, Recovers, Binds, Guarded, Unaccepted, Started, Stays, Fails, Leaves, Same, Kept
<1> QED
  BY <1>3, <1>6, <1>7, <1>8, <1>9, <1>10, <1>11, <1>12, <1>13 DEF SInv

LEMMA GateServes == ASSUME SInv, Gate PROVE SInv'
<1>1. /\ PInv /\ TypeOK /\ Held /\ Publishes /\ Recovers
      /\ Binds /\ Durable /\ Losses /\ Serves /\ Bound /\ Orders /\ Settled /\ Records
  BY DEF SInv, PInv
<1>2. pub.pc = "gate" /\ UNCHANGED <<lineage, ren, crashes>>
  BY DEF Gate, At
<1>3. PInv'
  BY <1>1, GateKeeps
<1>4. /\ etc' = etc /\ etcD' = etcD /\ acme' = acme /\ acmeD' = acmeD /\ live' = live
      /\ \/ (Fails \/ Stays("finally")) /\ faults' \in {faults, faults + 1}
         \/ /\ etc.journal = NoJournal /\ pub'.prev = etc.pem /\ pub'.pc = (IF etc.pem = pub.cand THEN "again" ELSE "backup")
            /\ Kept /\ pub'.cand = pub.cand /\ pub'.receipt = pub.receipt /\ faults' = faults
  BY <1>1, <1>2, GateDoes DEF Goes, Stays, Fails, Leaves, Same, Kept
<1>5. Binds'
  BY <1>1, <1>2, <1>4, Numbers DEF Held, Publishes, Recovers, Binds, Guarded, Unaccepted, Started, Stays, Fails, Leaves, Same, Kept
<1>6. Durable'
  BY <1>1, <1>2, <1>4, Numbers DEF Durable, FirstIsBound, Held, Publishes, Recovers, Binds, Guarded, Unaccepted, Started, Stays, Fails, Leaves, Same, Kept
<1>7. Losses'
  BY <1>1, <1>2, <1>4, Numbers DEF Losses, Held, Publishes, Recovers, Binds, Guarded, Unaccepted, Started, Stays, Fails, Leaves, Same, Kept
<1>8. Serves'
  BY <1>1, <1>2, <1>4, Numbers DEF Serves, Losses, Durable, FirstIsBound, ReloadAdmitted, BootAdmitted, Held, Publishes, Recovers, Binds, Guarded, Unaccepted, Started, Stays, Fails, Leaves, Same, Kept
<1>9. Bound'
  BY <1>1, <1>2, <1>4, Numbers DEF Bound, Losses, Durable, FirstIsBound, Held, Publishes, Recovers, Binds, Guarded, Unaccepted, Started, Stays, Fails, Leaves, Same, Kept
<1>10. Orders'
  BY <1>1, <1>2, <1>4, Numbers DEF Orders, Ordered, Durable, Held, Publishes, Recovers, Binds, Guarded, Unaccepted, Started, Stays, Fails, Leaves, Same, Kept
<1>11. Settled'
  BY <1>1, <1>2, <1>4, Numbers DEF Settled, Losses, Bound, Orders, Ordered, Held, Publishes, Recovers, Binds, Guarded, Unaccepted, Started, Stays, Fails, Leaves, Same, Kept
<1>12. Records'
  BY <1>1, <1>2, <1>4, Numbers DEF Records, Succeeding, Renewing, Orders, Ordered, Bound, Durable, FirstIsBound, Losses, Held, Publishes, Recovers, Binds, Guarded, Unaccepted, Started, Stays, Fails, Leaves, Same, Kept
<1> QED
  BY <1>3, <1>5, <1>6, <1>7, <1>8, <1>9, <1>10, <1>11, <1>12 DEF SInv

LEMMA BackupServes == ASSUME SInv, Backup PROVE SInv'
<1>1. /\ PInv /\ TypeOK /\ Held /\ Publishes /\ Recovers
      /\ Binds /\ Durable /\ Losses /\ Serves /\ Bound /\ Orders /\ Settled /\ Records
  BY DEF SInv, PInv
<1>2. pub.pc = "backup" /\ UNCHANGED <<lineage, ren, crashes>>
  BY DEF Backup, At
<1>3. PInv'
  BY <1>1, BackupKeeps
<1> DEFINE v == WithBackup(pub.prev)
<1>4. v.backup = pub.prev /\ v.pem = etc.pem /\ v.journal = etc.journal
  BY <1>1, EtcFields
<1>5. /\ acme' = acme /\ acmeD' = acmeD /\ live' = live /\ etcD' = etcD
      /\ \/ etc' \in {etc, v} /\ Stays("journal") /\ faults' = faults
         \/ etc' = etc /\ Stays("finally") /\ faults' = faults + 1
  BY <1>1, <1>2, BackupDoes DEF Goes, Stays, Fails, Leaves, Same, Kept
<1> HIDE DEF v
<1>6. Binds'
  BY <1>1, <1>2, <1>4, <1>5, Numbers DEF Held, Publishes, Recovers, Binds, Guarded, Unaccepted, Started, Stays, Fails, Leaves, Same, Kept
<1>7. Durable'
  BY <1>1, <1>2, <1>4, <1>5, Numbers DEF Durable, FirstIsBound, Held, Publishes, Recovers, Binds, Guarded, Unaccepted, Started, Stays, Fails, Leaves, Same, Kept
<1>8. Losses'
  BY <1>1, <1>2, <1>4, <1>5, Numbers DEF Losses, Held, Publishes, Recovers, Binds, Guarded, Unaccepted, Started, Stays, Fails, Leaves, Same, Kept
<1>9. Serves'
  BY <1>1, <1>2, <1>4, <1>5, Numbers DEF Serves, Losses, Durable, FirstIsBound, ReloadAdmitted, BootAdmitted, Held, Publishes, Recovers, Binds, Guarded, Unaccepted, Started, Stays, Fails, Leaves, Same, Kept
<1>10. Bound'
  BY <1>1, <1>2, <1>4, <1>5, Numbers DEF Bound, Losses, Durable, FirstIsBound, Held, Publishes, Recovers, Binds, Guarded, Unaccepted, Started, Stays, Fails, Leaves, Same, Kept
<1>11. Orders'
  BY <1>1, <1>2, <1>4, <1>5, Numbers DEF Orders, Ordered, Durable, Held, Publishes, Recovers, Binds, Guarded, Unaccepted, Started, Stays, Fails, Leaves, Same, Kept
<1>12. Settled'
  BY <1>1, <1>2, <1>4, <1>5, Numbers DEF Settled, Losses, Bound, Orders, Ordered, Held, Publishes, Recovers, Binds, Guarded, Unaccepted, Started, Stays, Fails, Leaves, Same, Kept
<1>13. Records'
  BY <1>1, <1>2, <1>4, <1>5, Numbers DEF Records, Succeeding, Renewing, Orders, Ordered, Bound, Durable, FirstIsBound, Losses, Held, Publishes, Recovers, Binds, Guarded, Unaccepted, Started, Stays, Fails, Leaves, Same, Kept
<1> QED
  BY <1>3, <1>6, <1>7, <1>8, <1>9, <1>10, <1>11, <1>12, <1>13 DEF SInv

LEMMA JournalRecordServes == ASSUME SInv, JournalRecord PROVE SInv'
<1>1. /\ PInv /\ TypeOK /\ Held /\ Publishes /\ Recovers
      /\ Binds /\ Durable /\ Losses /\ Serves /\ Bound /\ Orders /\ Settled /\ Records
  BY DEF SInv, PInv
<1>2. pub.pc = "journal" /\ UNCHANGED <<lineage, ren, crashes>>
  BY DEF JournalRecord, At
<1>3. PInv'
  BY <1>1, JournalRecordKeeps
<1> DEFINE v == WithJournal(Started(pub.prev, pub.cand))
<1>4. v.journal = Started(pub.prev, pub.cand) /\ v.pem = etc.pem
  BY <1>1, EtcFields
<1>5. /\ acme' = acme /\ acmeD' = acmeD /\ live' = live
      /\ \/ etc' = v /\ etcD' = v /\ Stays("replace") /\ faults' = faults
         \/ etc' \in {etc, v} /\ etcD' = etcD /\ Stays("finally") /\ faults' = faults + 1
  BY <1>1, <1>2, JournalRecordDoes DEF Goes, Stays, Fails, Leaves, Same, Kept
<1> HIDE DEF v
<1>6. Binds'
  BY <1>1, <1>2, <1>4, <1>5, Numbers DEF Held, Publishes, Recovers, Binds, Guarded, Unaccepted, Started, Stays, Fails, Leaves, Same, Kept
<1>7. Durable'
  BY <1>1, <1>2, <1>4, <1>5, Numbers DEF Durable, FirstIsBound, Held, Publishes, Recovers, Binds, Guarded, Unaccepted, Started, Stays, Fails, Leaves, Same, Kept
<1>8. Losses'
  BY <1>1, <1>2, <1>4, <1>5, Numbers DEF Losses, Held, Publishes, Recovers, Binds, Guarded, Unaccepted, Started, Stays, Fails, Leaves, Same, Kept
<1>9. Serves'
  BY <1>1, <1>2, <1>4, <1>5, Numbers DEF Serves, Losses, Durable, FirstIsBound, ReloadAdmitted, BootAdmitted, Held, Publishes, Recovers, Binds, Guarded, Unaccepted, Started, Stays, Fails, Leaves, Same, Kept
<1>10. Bound'
  BY <1>1, <1>2, <1>4, <1>5, Numbers DEF Bound, Losses, Durable, FirstIsBound, Held, Publishes, Recovers, Binds, Guarded, Unaccepted, Started, Stays, Fails, Leaves, Same, Kept
<1>11. Orders'
  BY <1>1, <1>2, <1>4, <1>5, Numbers DEF Orders, Ordered, Durable, Held, Publishes, Recovers, Binds, Guarded, Unaccepted, Started, Stays, Fails, Leaves, Same, Kept
<1>12. Settled'
  BY <1>1, <1>2, <1>4, <1>5, Numbers DEF Settled, Losses, Bound, Orders, Ordered, Held, Publishes, Recovers, Binds, Guarded, Unaccepted, Started, Stays, Fails, Leaves, Same, Kept
<1>13. Records'
  BY <1>1, <1>2, <1>4, <1>5, Numbers DEF Records, Succeeding, Renewing, Orders, Ordered, Bound, Durable, FirstIsBound, Losses, Held, Publishes, Recovers, Binds, Guarded, Unaccepted, Started, Stays, Fails, Leaves, Same, Kept
<1> QED
  BY <1>3, <1>6, <1>7, <1>8, <1>9, <1>10, <1>11, <1>12, <1>13 DEF SInv

LEMMA ReplaceServes == ASSUME SInv, Replace PROVE SInv'
<1>1. /\ PInv /\ TypeOK /\ Held /\ Publishes /\ Recovers
      /\ Binds /\ Durable /\ Losses /\ Serves /\ Bound /\ Orders /\ Settled /\ Records
  BY DEF SInv, PInv
<1>2. pub.pc = "replace" /\ UNCHANGED <<lineage, ren, crashes>>
  BY DEF Replace, At
<1>3. PInv'
  BY <1>1, ReplaceKeeps
<1> DEFINE v == WithPem(pub.cand)
<1>4. v.pem = pub.cand /\ v.journal = etc.journal
  BY <1>1, EtcFields
<1>5. /\ acme' = acme /\ acmeD' = acmeD /\ live' = live
      /\ \/ etc' = v /\ etcD' = v /\ pub.op = "initial" /\ Stays("finally-ok") /\ faults' = faults
         \/ etc' = v /\ etcD' = v /\ pub.op # "initial" /\ Stays("reload") /\ faults' = faults
         \/ etc' = v /\ etcD' = etcD /\ Stays("rollback") /\ faults' = faults + 1
         \/ etc' = etc /\ etcD' = etcD /\ Stays("finally") /\ faults' = faults + 1
  BY <1>1, <1>2, ReplaceDoes DEF Goes, Stays, Fails, Leaves, Same, Kept
<1> HIDE DEF v
<1>6. Binds'
  BY <1>1, <1>2, <1>4, <1>5, Numbers DEF Held, Publishes, Recovers, Binds, Guarded, Unaccepted, Started, Stays, Fails, Leaves, Same, Kept
<1>7. Durable'
  BY <1>1, <1>2, <1>4, <1>5, Numbers DEF Durable, FirstIsBound, Held, Publishes, Recovers, Binds, Guarded, Unaccepted, Started, Stays, Fails, Leaves, Same, Kept
<1>8. Losses'
  BY <1>1, <1>2, <1>4, <1>5, Numbers DEF Losses, Held, Publishes, Recovers, Binds, Guarded, Unaccepted, Started, Stays, Fails, Leaves, Same, Kept
<1>9. Serves'
  BY <1>1, <1>2, <1>4, <1>5, Numbers DEF Serves, Losses, Durable, FirstIsBound, ReloadAdmitted, BootAdmitted, Held, Publishes, Recovers, Binds, Guarded, Unaccepted, Started, Stays, Fails, Leaves, Same, Kept
<1>10. Bound'
  BY <1>1, <1>2, <1>4, <1>5, Numbers DEF Bound, Losses, Durable, FirstIsBound, Held, Publishes, Recovers, Binds, Guarded, Unaccepted, Started, Stays, Fails, Leaves, Same, Kept
<1>11. Orders'
  BY <1>1, <1>2, <1>4, <1>5, Numbers DEF Orders, Ordered, Durable, Held, Publishes, Recovers, Binds, Guarded, Unaccepted, Started, Stays, Fails, Leaves, Same, Kept
<1>12. Settled'
  BY <1>1, <1>2, <1>4, <1>5, Numbers DEF Settled, Losses, Bound, Orders, Ordered, Held, Publishes, Recovers, Binds, Guarded, Unaccepted, Started, Stays, Fails, Leaves, Same, Kept
<1>13. Records'
  BY <1>1, <1>2, <1>4, <1>5, Numbers DEF Records, Succeeding, Renewing, Orders, Ordered, Bound, Durable, FirstIsBound, Losses, Held, Publishes, Recovers, Binds, Guarded, Unaccepted, Started, Stays, Fails, Leaves, Same, Kept
<1> QED
  BY <1>3, <1>6, <1>7, <1>8, <1>9, <1>10, <1>11, <1>12, <1>13 DEF SInv

LEMMA ReloadServes == ASSUME SInv, Reload PROVE SInv'
<1>1. /\ PInv /\ TypeOK /\ Held /\ Publishes /\ Recovers
      /\ Binds /\ Durable /\ Losses /\ Serves /\ Bound /\ Orders /\ Settled /\ Records
  BY DEF SInv, PInv
<1>2. pub.pc = "reload" /\ UNCHANGED <<lineage, ren, crashes>>
  BY DEF Reload, At
<1>3. PInv'
  BY <1>1, ReloadKeeps
<1>4. "accept" \in Moves /\ "rollback" \in Moves
  BY DEF Moves, Steps
<1>5. /\ etc' = etc /\ etcD' = etcD /\ acme' = acme /\ acmeD' = acmeD
      /\ \/ ReloadAdmitted /\ live # 0 /\ live' = etc.pem /\ Stays("accept") /\ faults' = faults
         \/ ReloadAdmitted /\ live # 0 /\ live' \in {live, etc.pem} /\ Stays("rollback") /\ faults' = faults + 1
         \/ live' = live /\ Stays("rollback") /\ faults' = faults
  BY <1>1, <1>2, <1>4, ReloadDoes DEF Goes, Stays, Fails, Leaves, Same, Kept
<1>6. Binds'
  BY <1>1, <1>2, <1>5, Numbers DEF Held, Publishes, Recovers, Binds, Guarded, Unaccepted, Started, Stays, Fails, Leaves, Same, Kept
<1>7. Durable'
  BY <1>1, <1>2, <1>5, Numbers DEF Durable, FirstIsBound, Held, Publishes, Recovers, Binds, Guarded, Unaccepted, Started, Stays, Fails, Leaves, Same, Kept
<1>8. Losses'
  BY <1>1, <1>2, <1>5, Numbers DEF Losses, Held, Publishes, Recovers, Binds, Guarded, Unaccepted, Started, Stays, Fails, Leaves, Same, Kept
<1>9. Serves'
  BY <1>1, <1>2, <1>5, Numbers DEF Serves, Losses, Durable, FirstIsBound, ReloadAdmitted, BootAdmitted, Held, Publishes, Recovers, Binds, Guarded, Unaccepted, Started, Stays, Fails, Leaves, Same, Kept
<1>10. Bound'
  BY <1>1, <1>2, <1>5, Numbers DEF Bound, Losses, Durable, FirstIsBound, Held, Publishes, Recovers, Binds, Guarded, Unaccepted, Started, Stays, Fails, Leaves, Same, Kept
<1>11. Orders'
  BY <1>1, <1>2, <1>5, Numbers DEF Orders, Ordered, Durable, Held, Publishes, Recovers, Binds, Guarded, Unaccepted, Started, Stays, Fails, Leaves, Same, Kept
<1>12. Settled'
  BY <1>1, <1>2, <1>5, Numbers DEF Settled, Losses, Bound, Orders, Ordered, Held, Publishes, Recovers, Binds, Guarded, Unaccepted, Started, Stays, Fails, Leaves, Same, Kept
<1>13. Records'
  BY <1>1, <1>2, <1>5, Numbers DEF Records, Succeeding, Renewing, Orders, Ordered, Bound, Durable, FirstIsBound, Losses, Held, Publishes, Recovers, Binds, Guarded, Unaccepted, Started, Stays, Fails, Leaves, Same, Kept
<1> QED
  BY <1>3, <1>6, <1>7, <1>8, <1>9, <1>10, <1>11, <1>12, <1>13 DEF SInv

LEMMA AgainServes == ASSUME SInv, Again PROVE SInv'
<1>1. /\ PInv /\ TypeOK /\ Held /\ Publishes /\ Recovers
      /\ Binds /\ Durable /\ Losses /\ Serves /\ Bound /\ Orders /\ Settled /\ Records
  BY DEF SInv, PInv
<1>2. pub.pc = "again" /\ UNCHANGED <<lineage, ren, crashes>>
  BY DEF Again, At
<1>3. PInv'
  BY <1>1, AgainKeeps
<1>4. "reaccept" \in Moves /\ "finally" \in Moves
  BY DEF Moves, Steps
<1>5. /\ etc' = etc /\ etcD' = etcD /\ acme' = acme /\ acmeD' = acmeD
      /\ \/ ReloadAdmitted /\ live # 0 /\ live' = etc.pem /\ Stays("reaccept") /\ faults' = faults
         \/ ReloadAdmitted /\ live # 0 /\ live' \in {live, etc.pem} /\ Stays("finally") /\ faults' = faults + 1
         \/ live' = live /\ Stays("finally") /\ faults' = faults
  BY <1>1, <1>2, <1>4, ReloadDoes DEF Goes, Stays, Fails, Leaves, Same, Kept
<1>6. Binds'
  BY <1>1, <1>2, <1>5, Numbers DEF Held, Publishes, Recovers, Binds, Guarded, Unaccepted, Started, Stays, Fails, Leaves, Same, Kept
<1>7. Durable'
  BY <1>1, <1>2, <1>5, Numbers DEF Durable, FirstIsBound, Held, Publishes, Recovers, Binds, Guarded, Unaccepted, Started, Stays, Fails, Leaves, Same, Kept
<1>8. Losses'
  BY <1>1, <1>2, <1>5, Numbers DEF Losses, Held, Publishes, Recovers, Binds, Guarded, Unaccepted, Started, Stays, Fails, Leaves, Same, Kept
<1>9. Serves'
  BY <1>1, <1>2, <1>5, Numbers DEF Serves, Losses, Durable, FirstIsBound, ReloadAdmitted, BootAdmitted, Held, Publishes, Recovers, Binds, Guarded, Unaccepted, Started, Stays, Fails, Leaves, Same, Kept
<1>10. Bound'
  BY <1>1, <1>2, <1>5, Numbers DEF Bound, Losses, Durable, FirstIsBound, Held, Publishes, Recovers, Binds, Guarded, Unaccepted, Started, Stays, Fails, Leaves, Same, Kept
<1>11. Orders'
  BY <1>1, <1>2, <1>5, Numbers DEF Orders, Ordered, Durable, Held, Publishes, Recovers, Binds, Guarded, Unaccepted, Started, Stays, Fails, Leaves, Same, Kept
<1>12. Settled'
  BY <1>1, <1>2, <1>5, Numbers DEF Settled, Losses, Bound, Orders, Ordered, Held, Publishes, Recovers, Binds, Guarded, Unaccepted, Started, Stays, Fails, Leaves, Same, Kept
<1>13. Records'
  BY <1>1, <1>2, <1>5, Numbers DEF Records, Succeeding, Renewing, Orders, Ordered, Bound, Durable, FirstIsBound, Losses, Held, Publishes, Recovers, Binds, Guarded, Unaccepted, Started, Stays, Fails, Leaves, Same, Kept
<1> QED
  BY <1>3, <1>6, <1>7, <1>8, <1>9, <1>10, <1>11, <1>12, <1>13 DEF SInv

LEMMA AcceptServes == ASSUME SInv, Accept PROVE SInv'
<1>1. /\ PInv /\ TypeOK /\ Held /\ Publishes /\ Recovers
      /\ Binds /\ Durable /\ Losses /\ Serves /\ Bound /\ Orders /\ Settled /\ Records
  BY DEF SInv, PInv
<1>2. pub.pc = "accept" /\ UNCHANGED <<lineage, ren, crashes>>
  BY DEF Accept, At
<1>3. PInv'
  BY <1>1, AcceptKeeps
<1>4. "unlink" \in Moves /\ "rollback" \in Moves
  BY DEF Moves, Steps
<1> DEFINE v == Accepted(pub.cand)
<1>5. v.receipt.fp = pub.cand /\ v.receipt # NoReceipt /\ v.renewal = acme.renewal
  BY <1>1, <1>2, Documents, AcceptedTypes DEF Held, Guarded
<1>6. /\ etc' = etc /\ etcD' = etcD /\ live' = live
      /\ \/ acme' = v /\ acmeD' = v /\ Stays("unlink") /\ faults' = faults
         \/ acme' \in {acme, v} /\ acmeD' = acmeD /\ Stays("rollback") /\ faults' = faults + 1
  BY <1>1, <1>2, <1>4, AcceptDoes DEF Goes, Stays, Fails, Leaves, Same, Kept
<1> HIDE DEF v
<1>7. Binds'
  BY <1>1, <1>2, <1>5, <1>6, Numbers DEF Held, Publishes, Recovers, Binds, Guarded, Unaccepted, Started, Stays, Fails, Leaves, Same, Kept
<1>8. Durable'
  BY <1>1, <1>2, <1>5, <1>6, Numbers DEF Durable, FirstIsBound, Held, Publishes, Recovers, Binds, Guarded, Unaccepted, Started, Stays, Fails, Leaves, Same, Kept
<1>9. Losses'
  BY <1>1, <1>2, <1>5, <1>6, Numbers DEF Losses, Held, Publishes, Recovers, Binds, Guarded, Unaccepted, Started, Stays, Fails, Leaves, Same, Kept
<1>10. Serves'
  BY <1>1, <1>2, <1>5, <1>6, Numbers DEF Serves, Losses, Durable, FirstIsBound, ReloadAdmitted, BootAdmitted, Held, Publishes, Recovers, Binds, Guarded, Unaccepted, Started, Stays, Fails, Leaves, Same, Kept
<1>11. Bound'
  BY <1>1, <1>2, <1>5, <1>6, Numbers DEF Bound, Losses, Durable, FirstIsBound, Held, Publishes, Recovers, Binds, Guarded, Unaccepted, Started, Stays, Fails, Leaves, Same, Kept
<1>12. Orders'
  BY <1>1, <1>2, <1>5, <1>6, Numbers DEF Orders, Ordered, Durable, Held, Publishes, Recovers, Binds, Guarded, Unaccepted, Started, Stays, Fails, Leaves, Same, Kept
<1>13. Settled'
  BY <1>1, <1>2, <1>5, <1>6, Numbers DEF Settled, Losses, Bound, Orders, Ordered, Held, Publishes, Recovers, Binds, Guarded, Unaccepted, Started, Stays, Fails, Leaves, Same, Kept
<1>14. Records'
  BY <1>1, <1>2, <1>5, <1>6, Numbers DEF Records, Succeeding, Renewing, Orders, Ordered, Bound, Durable, FirstIsBound, Losses, Held, Publishes, Recovers, Binds, Guarded, Unaccepted, Started, Stays, Fails, Leaves, Same, Kept
<1> QED
  BY <1>3, <1>7, <1>8, <1>9, <1>10, <1>11, <1>12, <1>13, <1>14 DEF SInv

LEMMA ReacceptServes == ASSUME SInv, Reaccept PROVE SInv'
<1>1. /\ PInv /\ TypeOK /\ Held /\ Publishes /\ Recovers
      /\ Binds /\ Durable /\ Losses /\ Serves /\ Bound /\ Orders /\ Settled /\ Records
  BY DEF SInv, PInv
<1>2. pub.pc = "reaccept" /\ UNCHANGED <<lineage, ren, crashes>>
  BY DEF Reaccept, At
<1>3. PInv'
  BY <1>1, ReacceptKeeps
<1>4. "finally-ok" \in Moves /\ "finally" \in Moves
  BY DEF Moves, Steps
<1> DEFINE v == Accepted(pub.cand)
<1>5. v.receipt.fp = pub.cand /\ v.receipt # NoReceipt /\ v.renewal = acme.renewal
  BY <1>1, <1>2, Documents, AcceptedTypes DEF Held, Guarded
<1>6. /\ etc' = etc /\ etcD' = etcD /\ live' = live
      /\ \/ acme' = v /\ acmeD' = v /\ Stays("finally-ok") /\ faults' = faults
         \/ acme' \in {acme, v} /\ acmeD' = acmeD /\ Stays("finally") /\ faults' = faults + 1
  BY <1>1, <1>2, <1>4, AcceptDoes DEF Goes, Stays, Fails, Leaves, Same, Kept
<1> HIDE DEF v
<1>7. Binds'
  BY <1>1, <1>2, <1>5, <1>6, Numbers DEF Held, Publishes, Recovers, Binds, Guarded, Unaccepted, Started, Stays, Fails, Leaves, Same, Kept
<1>8. Durable'
  BY <1>1, <1>2, <1>5, <1>6, Numbers DEF Durable, FirstIsBound, Held, Publishes, Recovers, Binds, Guarded, Unaccepted, Started, Stays, Fails, Leaves, Same, Kept
<1>9. Losses'
  BY <1>1, <1>2, <1>5, <1>6, Numbers DEF Losses, Held, Publishes, Recovers, Binds, Guarded, Unaccepted, Started, Stays, Fails, Leaves, Same, Kept
<1>10. Serves'
  BY <1>1, <1>2, <1>5, <1>6, Numbers DEF Serves, Losses, Durable, FirstIsBound, ReloadAdmitted, BootAdmitted, Held, Publishes, Recovers, Binds, Guarded, Unaccepted, Started, Stays, Fails, Leaves, Same, Kept
<1>11. Bound'
  BY <1>1, <1>2, <1>5, <1>6, Numbers DEF Bound, Losses, Durable, FirstIsBound, Held, Publishes, Recovers, Binds, Guarded, Unaccepted, Started, Stays, Fails, Leaves, Same, Kept
<1>12. Orders'
  BY <1>1, <1>2, <1>5, <1>6, Numbers DEF Orders, Ordered, Durable, Held, Publishes, Recovers, Binds, Guarded, Unaccepted, Started, Stays, Fails, Leaves, Same, Kept
<1>13. Settled'
  BY <1>1, <1>2, <1>5, <1>6, Numbers DEF Settled, Losses, Bound, Orders, Ordered, Held, Publishes, Recovers, Binds, Guarded, Unaccepted, Started, Stays, Fails, Leaves, Same, Kept
<1>14. Records'
  BY <1>1, <1>2, <1>5, <1>6, Numbers DEF Records, Succeeding, Renewing, Orders, Ordered, Bound, Durable, FirstIsBound, Losses, Held, Publishes, Recovers, Binds, Guarded, Unaccepted, Started, Stays, Fails, Leaves, Same, Kept
<1> QED
  BY <1>3, <1>7, <1>8, <1>9, <1>10, <1>11, <1>12, <1>13, <1>14 DEF SInv

LEMMA UnlinkServes == ASSUME SInv, Unlink PROVE SInv'
<1>1. /\ PInv /\ TypeOK /\ Held /\ Publishes /\ Recovers
      /\ Binds /\ Durable /\ Losses /\ Serves /\ Bound /\ Orders /\ Settled /\ Records
  BY DEF SInv, PInv
<1>2. pub.pc = "unlink" /\ UNCHANGED <<lineage, ren, crashes>>
  BY DEF Unlink, At
<1>3. PInv'
  BY <1>1, UnlinkKeeps
<1>4. "finally-ok" \in Moves /\ "rollback" \in Moves
  BY DEF Moves, Steps
<1> DEFINE v == WithJournal(NoJournal)
<1>5. v.journal = NoJournal /\ v.pem = etc.pem
  BY <1>1, EtcFields
<1>6. /\ acme' = acme /\ acmeD' = acmeD /\ live' = live
      /\ \/ etc' = v /\ etcD' = v /\ Stays("finally-ok") /\ faults' = faults
         \/ etc' \in {etc, v} /\ etcD' = etcD /\ Stays("rollback") /\ faults' = faults + 1
  BY <1>1, <1>2, <1>4, UnlinkDoes DEF Goes, Stays, Fails, Leaves, Same, Kept
<1> HIDE DEF v
<1>7. Binds'
  BY <1>1, <1>2, <1>5, <1>6, Numbers DEF Held, Publishes, Recovers, Binds, Guarded, Unaccepted, Started, Stays, Fails, Leaves, Same, Kept
<1>8. Durable'
  BY <1>1, <1>2, <1>5, <1>6, Numbers DEF Durable, FirstIsBound, Held, Publishes, Recovers, Binds, Guarded, Unaccepted, Started, Stays, Fails, Leaves, Same, Kept
<1>9. Losses'
  BY <1>1, <1>2, <1>5, <1>6, Numbers DEF Losses, Held, Publishes, Recovers, Binds, Guarded, Unaccepted, Started, Stays, Fails, Leaves, Same, Kept
<1>10. Serves'
  BY <1>1, <1>2, <1>5, <1>6, Numbers DEF Serves, Losses, Durable, FirstIsBound, ReloadAdmitted, BootAdmitted, Held, Publishes, Recovers, Binds, Guarded, Unaccepted, Started, Stays, Fails, Leaves, Same, Kept
<1>11. Bound'
  BY <1>1, <1>2, <1>5, <1>6, Numbers DEF Bound, Losses, Durable, FirstIsBound, Held, Publishes, Recovers, Binds, Guarded, Unaccepted, Started, Stays, Fails, Leaves, Same, Kept
<1>12. Orders'
  BY <1>1, <1>2, <1>5, <1>6, Numbers DEF Orders, Ordered, Durable, Held, Publishes, Recovers, Binds, Guarded, Unaccepted, Started, Stays, Fails, Leaves, Same, Kept
<1>13. Settled'
  BY <1>1, <1>2, <1>5, <1>6, Numbers DEF Settled, Losses, Bound, Orders, Ordered, Held, Publishes, Recovers, Binds, Guarded, Unaccepted, Started, Stays, Fails, Leaves, Same, Kept
<1>14. Records'
  BY <1>1, <1>2, <1>5, <1>6, Numbers DEF Records, Succeeding, Renewing, Orders, Ordered, Bound, Durable, FirstIsBound, Losses, Held, Publishes, Recovers, Binds, Guarded, Unaccepted, Started, Stays, Fails, Leaves, Same, Kept
<1> QED
  BY <1>3, <1>7, <1>8, <1>9, <1>10, <1>11, <1>12, <1>13, <1>14 DEF SInv

LEMMA RollbackServes == ASSUME SInv, Rollback PROVE SInv'
<1>1. /\ PInv /\ TypeOK /\ Held /\ Publishes /\ Recovers
      /\ Binds /\ Durable /\ Losses /\ Serves /\ Bound /\ Orders /\ Settled /\ Records
  BY DEF SInv, PInv
<1>2. pub.pc = "rollback" /\ UNCHANGED <<lineage, ren, crashes>>
  BY DEF Rollback, At
<1>3. PInv'
  BY <1>1, RollbackKeeps
<1> DEFINE v == WithPem(pub.prev)
<1>4. v.pem = pub.prev /\ v.journal = etc.journal
  BY <1>1, EtcFields
<1>5. /\ acme' = acme /\ acmeD' = acmeD /\ live' = live
      /\ \/ etc' = v /\ etcD' = v /\ Stays("rejournal") /\ faults' = faults
         \/ etc' = v /\ etcD' = etcD /\ Stays("rejournal") /\ faults' = faults + 1
         \/ etc' = etc /\ etcD' = etcD /\ Stays("finally") /\ faults' = faults + 1
  BY <1>1, <1>2, RollbackDoes DEF Goes, Stays, Fails, Leaves, Same, Kept
<1> HIDE DEF v
<1>6. Binds'
  BY <1>1, <1>2, <1>4, <1>5, Numbers DEF Held, Publishes, Recovers, Binds, Guarded, Unaccepted, Started, Stays, Fails, Leaves, Same, Kept
<1>7. Durable'
  BY <1>1, <1>2, <1>4, <1>5, Numbers DEF Durable, FirstIsBound, Held, Publishes, Recovers, Binds, Guarded, Unaccepted, Started, Stays, Fails, Leaves, Same, Kept
<1>8. Losses'
  BY <1>1, <1>2, <1>4, <1>5, Numbers DEF Losses, Held, Publishes, Recovers, Binds, Guarded, Unaccepted, Started, Stays, Fails, Leaves, Same, Kept
<1>9. Serves'
  BY <1>1, <1>2, <1>4, <1>5, Numbers DEF Serves, Losses, Durable, FirstIsBound, ReloadAdmitted, BootAdmitted, Held, Publishes, Recovers, Binds, Guarded, Unaccepted, Started, Stays, Fails, Leaves, Same, Kept
<1>10. Bound'
  BY <1>1, <1>2, <1>4, <1>5, Numbers DEF Bound, Losses, Durable, FirstIsBound, Held, Publishes, Recovers, Binds, Guarded, Unaccepted, Started, Stays, Fails, Leaves, Same, Kept
<1>11. Orders'
  BY <1>1, <1>2, <1>4, <1>5, Numbers DEF Orders, Ordered, Durable, Held, Publishes, Recovers, Binds, Guarded, Unaccepted, Started, Stays, Fails, Leaves, Same, Kept
<1>12. Settled'
  BY <1>1, <1>2, <1>4, <1>5, Numbers DEF Settled, Losses, Bound, Orders, Ordered, Held, Publishes, Recovers, Binds, Guarded, Unaccepted, Started, Stays, Fails, Leaves, Same, Kept
<1>13. Records'
  BY <1>1, <1>2, <1>4, <1>5, Numbers DEF Records, Succeeding, Renewing, Orders, Ordered, Bound, Durable, FirstIsBound, Losses, Held, Publishes, Recovers, Binds, Guarded, Unaccepted, Started, Stays, Fails, Leaves, Same, Kept
<1> QED
  BY <1>3, <1>6, <1>7, <1>8, <1>9, <1>10, <1>11, <1>12, <1>13 DEF SInv

LEMMA RejournalServes == ASSUME SInv, Rejournal PROVE SInv'
<1>1. /\ PInv /\ TypeOK /\ Held /\ Publishes /\ Recovers
      /\ Binds /\ Durable /\ Losses /\ Serves /\ Bound /\ Orders /\ Settled /\ Records
  BY DEF SInv, PInv
<1>2. pub.pc = "rejournal" /\ UNCHANGED <<lineage, ren, crashes>>
  BY DEF Rejournal, At
<1>3. PInv'
  BY <1>1, RejournalKeeps
<1> DEFINE v == WithJournal(Started(pub.prev, pub.cand))
<1>4. v.journal = Started(pub.prev, pub.cand) /\ v.pem = etc.pem
  BY <1>1, EtcFields
<1>5. /\ acme' = acme /\ acmeD' = acmeD /\ live' = live /\ Stays(AfterJournal)
      /\ \/ etc.journal # NoJournal /\ etc' = etc /\ etcD' = etcD /\ faults' = faults
         \/ etc.journal = NoJournal /\ etc' = v /\ etcD' = v /\ faults' = faults
         \/ etc.journal = NoJournal /\ etc' \in {etc, v} /\ etcD' = etcD /\ faults' = faults + 1
  BY <1>1, <1>2, RejournalDoes DEF Goes, Stays, Fails, Leaves, Same, Kept, AfterJournal, Held
<1> HIDE DEF v
<1>6. Binds'
  BY <1>1, <1>2, <1>4, <1>5, Numbers DEF Held, Publishes, Recovers, Binds, Guarded, Unaccepted, Started, Stays, Fails, Leaves, Same, Kept, AfterJournal
<1>7. Durable'
  BY <1>1, <1>2, <1>4, <1>5, Numbers DEF Durable, FirstIsBound, Held, Publishes, Recovers, Binds, Guarded, Unaccepted, Started, Stays, Fails, Leaves, Same, Kept, AfterJournal
<1>8. Losses'
  BY <1>1, <1>2, <1>4, <1>5, Numbers DEF Losses, Held, Publishes, Recovers, Binds, Guarded, Unaccepted, Started, Stays, Fails, Leaves, Same, Kept, AfterJournal
<1>9. Serves'
  BY <1>1, <1>2, <1>4, <1>5, Numbers DEF Serves, Losses, Durable, FirstIsBound, ReloadAdmitted, BootAdmitted, Held, Publishes, Recovers, Binds, Guarded, Unaccepted, Started, Stays, Fails, Leaves, Same, Kept, AfterJournal
<1>10. Bound'
  BY <1>1, <1>2, <1>4, <1>5, Numbers DEF Bound, Losses, Durable, FirstIsBound, Held, Publishes, Recovers, Binds, Guarded, Unaccepted, Started, Stays, Fails, Leaves, Same, Kept, AfterJournal
<1>11. Orders'
  BY <1>1, <1>2, <1>4, <1>5, Numbers DEF Orders, Ordered, Durable, Held, Publishes, Recovers, Binds, Guarded, Unaccepted, Started, Stays, Fails, Leaves, Same, Kept, AfterJournal
<1>12. Settled'
  BY <1>1, <1>2, <1>4, <1>5, Numbers DEF Settled, Losses, Bound, Orders, Ordered, Held, Publishes, Recovers, Binds, Guarded, Unaccepted, Started, Stays, Fails, Leaves, Same, Kept, AfterJournal
<1>13. Records'
  BY <1>1, <1>2, <1>4, <1>5, Numbers DEF Records, Succeeding, Renewing, Orders, Ordered, Bound, Durable, FirstIsBound, Losses, Held, Publishes, Recovers, Binds, Guarded, Unaccepted, Started, Stays, Fails, Leaves, Same, Kept, AfterJournal
<1> QED
  BY <1>3, <1>6, <1>7, <1>8, <1>9, <1>10, <1>11, <1>12, <1>13 DEF SInv

LEMMA CompensateServes == ASSUME SInv, Compensate PROVE SInv'
<1>1. /\ PInv /\ TypeOK /\ Held /\ Publishes /\ Recovers
      /\ Binds /\ Durable /\ Losses /\ Serves /\ Bound /\ Orders /\ Settled /\ Records
  BY DEF SInv, PInv
<1>2. pub.pc = "compensate" /\ UNCHANGED <<lineage, ren, crashes>>
  BY DEF Compensate, At
<1>3. PInv'
  BY <1>1, CompensateKeeps
<1> DEFINE v == WithReceipt(pub.receipt)
<1>4. v.receipt = pub.receipt /\ v.renewal = acme.renewal
  BY <1>1, AcmeFields
<1>5. /\ etc' = etc /\ etcD' = etcD /\ live' = live
      /\ \/ acme' = v /\ acmeD' = v /\ Stays("rereload") /\ faults' = faults
         \/ acme' \in {acme, v} /\ acmeD' = acmeD /\ Stays("finally") /\ faults' = faults + 1
  BY <1>1, <1>2, CompensateDoes DEF Goes, Stays, Fails, Leaves, Same, Kept
<1> HIDE DEF v
<1>6. Binds'
  BY <1>1, <1>2, <1>4, <1>5, Numbers DEF Held, Publishes, Recovers, Binds, Guarded, Unaccepted, Started, Stays, Fails, Leaves, Same, Kept
<1>7. Durable'
  BY <1>1, <1>2, <1>4, <1>5, Numbers DEF Durable, FirstIsBound, Held, Publishes, Recovers, Binds, Guarded, Unaccepted, Started, Stays, Fails, Leaves, Same, Kept
<1>8. Losses'
  BY <1>1, <1>2, <1>4, <1>5, Numbers DEF Losses, Held, Publishes, Recovers, Binds, Guarded, Unaccepted, Started, Stays, Fails, Leaves, Same, Kept
<1>9. Serves'
  BY <1>1, <1>2, <1>4, <1>5, Numbers DEF Serves, Losses, Durable, FirstIsBound, ReloadAdmitted, BootAdmitted, Held, Publishes, Recovers, Binds, Guarded, Unaccepted, Started, Stays, Fails, Leaves, Same, Kept
<1>10. Bound'
  BY <1>1, <1>2, <1>4, <1>5, Numbers DEF Bound, Losses, Durable, FirstIsBound, Held, Publishes, Recovers, Binds, Guarded, Unaccepted, Started, Stays, Fails, Leaves, Same, Kept
<1>11. Orders'
  BY <1>1, <1>2, <1>4, <1>5, Numbers DEF Orders, Ordered, Durable, Held, Publishes, Recovers, Binds, Guarded, Unaccepted, Started, Stays, Fails, Leaves, Same, Kept
<1>12. Settled'
  BY <1>1, <1>2, <1>4, <1>5, Numbers DEF Settled, Losses, Bound, Orders, Ordered, Held, Publishes, Recovers, Binds, Guarded, Unaccepted, Started, Stays, Fails, Leaves, Same, Kept
<1>13. Records'
  BY <1>1, <1>2, <1>4, <1>5, Numbers DEF Records, Succeeding, Renewing, Orders, Ordered, Bound, Durable, FirstIsBound, Losses, Held, Publishes, Recovers, Binds, Guarded, Unaccepted, Started, Stays, Fails, Leaves, Same, Kept
<1> QED
  BY <1>3, <1>6, <1>7, <1>8, <1>9, <1>10, <1>11, <1>12, <1>13 DEF SInv

LEMMA RereloadServes == ASSUME SInv, Rereload PROVE SInv'
<1>1. /\ PInv /\ TypeOK /\ Held /\ Publishes /\ Recovers
      /\ Binds /\ Durable /\ Losses /\ Serves /\ Bound /\ Orders /\ Settled /\ Records
  BY DEF SInv, PInv
<1>2. pub.pc = "rereload" /\ UNCHANGED <<lineage, ren, crashes>>
  BY DEF Rereload, At
<1>3. PInv'
  BY <1>1, RereloadKeeps
<1>4. "unjournal" \in Moves /\ "finally" \in Moves
  BY DEF Moves, Steps
<1>5. /\ etc' = etc /\ etcD' = etcD /\ acme' = acme /\ acmeD' = acmeD
      /\ \/ ReloadAdmitted /\ live # 0 /\ live' = etc.pem /\ Stays("unjournal") /\ faults' = faults
         \/ ReloadAdmitted /\ live # 0 /\ live' \in {live, etc.pem} /\ Stays("finally") /\ faults' = faults + 1
         \/ live' = live /\ Stays("finally") /\ faults' = faults
  BY <1>1, <1>2, <1>4, ReloadDoes DEF Goes, Stays, Fails, Leaves, Same, Kept
<1>6. Binds'
  BY <1>1, <1>2, <1>5, Numbers DEF Held, Publishes, Recovers, Binds, Guarded, Unaccepted, Started, Stays, Fails, Leaves, Same, Kept
<1>7. Durable'
  BY <1>1, <1>2, <1>5, Numbers DEF Durable, FirstIsBound, Held, Publishes, Recovers, Binds, Guarded, Unaccepted, Started, Stays, Fails, Leaves, Same, Kept
<1>8. Losses'
  BY <1>1, <1>2, <1>5, Numbers DEF Losses, Held, Publishes, Recovers, Binds, Guarded, Unaccepted, Started, Stays, Fails, Leaves, Same, Kept
<1>9. Serves'
  BY <1>1, <1>2, <1>5, Numbers DEF Serves, Losses, Durable, FirstIsBound, ReloadAdmitted, BootAdmitted, Held, Publishes, Recovers, Binds, Guarded, Unaccepted, Started, Stays, Fails, Leaves, Same, Kept
<1>10. Bound'
  BY <1>1, <1>2, <1>5, Numbers DEF Bound, Losses, Durable, FirstIsBound, Held, Publishes, Recovers, Binds, Guarded, Unaccepted, Started, Stays, Fails, Leaves, Same, Kept
<1>11. Orders'
  BY <1>1, <1>2, <1>5, Numbers DEF Orders, Ordered, Durable, Held, Publishes, Recovers, Binds, Guarded, Unaccepted, Started, Stays, Fails, Leaves, Same, Kept
<1>12. Settled'
  BY <1>1, <1>2, <1>5, Numbers DEF Settled, Losses, Bound, Orders, Ordered, Held, Publishes, Recovers, Binds, Guarded, Unaccepted, Started, Stays, Fails, Leaves, Same, Kept
<1>13. Records'
  BY <1>1, <1>2, <1>5, Numbers DEF Records, Succeeding, Renewing, Orders, Ordered, Bound, Durable, FirstIsBound, Losses, Held, Publishes, Recovers, Binds, Guarded, Unaccepted, Started, Stays, Fails, Leaves, Same, Kept
<1> QED
  BY <1>3, <1>6, <1>7, <1>8, <1>9, <1>10, <1>11, <1>12, <1>13 DEF SInv

LEMMA UnjournalServes == ASSUME SInv, Unjournal PROVE SInv'
<1>1. /\ PInv /\ TypeOK /\ Held /\ Publishes /\ Recovers
      /\ Binds /\ Durable /\ Losses /\ Serves /\ Bound /\ Orders /\ Settled /\ Records
  BY DEF SInv, PInv
<1>2. pub.pc = "unjournal" /\ UNCHANGED <<lineage, ren, crashes>>
  BY DEF Unjournal, At
<1>3. PInv'
  BY <1>1, UnjournalKeeps
<1>4. "finally" \in Moves
  BY DEF Moves, Steps
<1> DEFINE v == WithJournal(NoJournal)
<1>5. v.journal = NoJournal /\ v.pem = etc.pem
  BY <1>1, EtcFields
<1>6. /\ acme' = acme /\ acmeD' = acmeD /\ live' = live /\ Stays("finally")
      /\ \/ etc' = v /\ etcD' = v /\ faults' = faults
         \/ etc' \in {etc, v} /\ etcD' = etcD /\ faults' = faults + 1
         \/ etc' = etc /\ etcD' = etcD /\ faults' = faults
  BY <1>1, <1>2, <1>4, UnlinkDoes, UnjournalDoes DEF Goes, Stays, Fails, Leaves, Same, Kept
<1> HIDE DEF v
<1>7. Binds'
  BY <1>1, <1>2, <1>5, <1>6, Numbers DEF Held, Publishes, Recovers, Binds, Guarded, Unaccepted, Started, Stays, Fails, Leaves, Same, Kept
<1>8. Durable'
  BY <1>1, <1>2, <1>5, <1>6, Numbers DEF Durable, FirstIsBound, Held, Publishes, Recovers, Binds, Guarded, Unaccepted, Started, Stays, Fails, Leaves, Same, Kept
<1>9. Losses'
  BY <1>1, <1>2, <1>5, <1>6, Numbers DEF Losses, Held, Publishes, Recovers, Binds, Guarded, Unaccepted, Started, Stays, Fails, Leaves, Same, Kept
<1>10. Serves'
  BY <1>1, <1>2, <1>5, <1>6, Numbers DEF Serves, Losses, Durable, FirstIsBound, ReloadAdmitted, BootAdmitted, Held, Publishes, Recovers, Binds, Guarded, Unaccepted, Started, Stays, Fails, Leaves, Same, Kept
<1>11. Bound'
  BY <1>1, <1>2, <1>5, <1>6, Numbers DEF Bound, Losses, Durable, FirstIsBound, Held, Publishes, Recovers, Binds, Guarded, Unaccepted, Started, Stays, Fails, Leaves, Same, Kept
<1>12. Orders'
  BY <1>1, <1>2, <1>5, <1>6, Numbers DEF Orders, Ordered, Durable, Held, Publishes, Recovers, Binds, Guarded, Unaccepted, Started, Stays, Fails, Leaves, Same, Kept
<1>13. Settled'
  BY <1>1, <1>2, <1>5, <1>6, Numbers DEF Settled, Losses, Bound, Orders, Ordered, Held, Publishes, Recovers, Binds, Guarded, Unaccepted, Started, Stays, Fails, Leaves, Same, Kept
<1>14. Records'
  BY <1>1, <1>2, <1>5, <1>6, Numbers DEF Records, Succeeding, Renewing, Orders, Ordered, Bound, Durable, FirstIsBound, Losses, Held, Publishes, Recovers, Binds, Guarded, Unaccepted, Started, Stays, Fails, Leaves, Same, Kept
<1> QED
  BY <1>3, <1>7, <1>8, <1>9, <1>10, <1>11, <1>12, <1>13, <1>14 DEF SInv

LEMMA FinallyServes == ASSUME SInv, Finally PROVE SInv'
<1>1. /\ PInv /\ TypeOK /\ Held /\ Publishes /\ Recovers
      /\ Binds /\ Durable /\ Losses /\ Serves /\ Bound /\ Orders /\ Settled /\ Records
  BY DEF SInv, PInv
<1>2. pub.pc \in {"finally", "finally-ok"} /\ pub.op \in {"initial", "deploy"} /\ UNCHANGED <<lineage, ren, crashes>>
  BY <1>1 DEF Finally, Held
<1>3. PInv'
  BY <1>1, FinallyKeeps
<1> DEFINE v == WithBackup(0)
<1>4. v.backup = 0 /\ v.pem = etc.pem /\ v.journal = etc.journal
  BY <1>1, EtcFields
<1>5. /\ acme' = acme /\ acmeD' = acmeD /\ live' = live /\ etcD' = etcD /\ faults' = faults /\ etc' \in {etc, v}
      /\ \/ pub.pc = "finally" /\ Fails
         \/ pub.pc = "finally-ok" /\ pub.op = "initial" /\ Leaves
         \/ pub.pc = "finally-ok" /\ pub.op = "deploy" /\ Stays("forget")
  BY <1>1, <1>2, FinallyDoes DEF Goes, Stays, Fails, Leaves, Same, Kept, AfterFinally
<1> HIDE DEF v
<1>6. Binds'
  BY <1>1, <1>2, <1>4, <1>5, Numbers DEF Held, Publishes, Recovers, Binds, Guarded, Unaccepted, Started, Stays, Fails, Leaves, Same, Kept
<1>7. Durable'
  BY <1>1, <1>2, <1>4, <1>5, Numbers DEF Durable, FirstIsBound, Held, Publishes, Recovers, Binds, Guarded, Unaccepted, Started, Stays, Fails, Leaves, Same, Kept
<1>8. Losses'
  BY <1>1, <1>2, <1>4, <1>5, Numbers DEF Losses, Held, Publishes, Recovers, Binds, Guarded, Unaccepted, Started, Stays, Fails, Leaves, Same, Kept
<1>9. Serves'
  BY <1>1, <1>2, <1>4, <1>5, Numbers DEF Serves, Losses, Durable, FirstIsBound, ReloadAdmitted, BootAdmitted, Held, Publishes, Recovers, Binds, Guarded, Unaccepted, Started, Stays, Fails, Leaves, Same, Kept
<1>10. Bound'
  BY <1>1, <1>2, <1>4, <1>5, Numbers DEF Bound, Losses, Durable, FirstIsBound, Held, Publishes, Recovers, Binds, Guarded, Unaccepted, Started, Stays, Fails, Leaves, Same, Kept
<1>11. Orders'
  BY <1>1, <1>2, <1>4, <1>5, Numbers DEF Orders, Ordered, Durable, Held, Publishes, Recovers, Binds, Guarded, Unaccepted, Started, Stays, Fails, Leaves, Same, Kept
<1>12. Settled'
  BY <1>1, <1>2, <1>4, <1>5, Numbers DEF Settled, Losses, Bound, Orders, Ordered, Held, Publishes, Recovers, Binds, Guarded, Unaccepted, Started, Stays, Fails, Leaves, Same, Kept
<1>13. Records'
  BY <1>1, <1>2, <1>4, <1>5, Numbers DEF Records, Succeeding, Renewing, Orders, Ordered, Bound, Durable, FirstIsBound, Losses, Held, Publishes, Recovers, Binds, Guarded, Unaccepted, Started, Stays, Fails, Leaves, Same, Kept
<1> QED
  BY <1>3, <1>6, <1>7, <1>8, <1>9, <1>10, <1>11, <1>12, <1>13 DEF SInv

LEMMA ForgetServes == ASSUME SInv, Forget PROVE SInv'
<1>1. /\ PInv /\ TypeOK /\ Held /\ Publishes /\ Recovers
      /\ Binds /\ Durable /\ Losses /\ Serves /\ Bound /\ Orders /\ Settled /\ Records
  BY DEF SInv, PInv
<1>2. pub.pc = "forget" /\ UNCHANGED <<lineage, ren, crashes>>
  BY DEF Forget, At
<1>3. PInv'
  BY <1>1, ForgetKeeps
<1> DEFINE v == WithSnapshot(NoReceipt)
<1>4. v.snapshot = NoReceipt /\ v.pem = etc.pem /\ v.journal = etc.journal
  BY <1>1, EtcFields
<1>5. /\ acme' = acme /\ acmeD' = acmeD /\ live' = live
      /\ \/ etc' = v /\ etcD' = v /\ Leaves /\ faults' = faults
         \/ etc' \in {etc, v} /\ etcD' = etcD /\ Fails /\ faults' = faults + 1
  BY <1>1, <1>2, ForgetDoes DEF Goes, Stays, Fails, Leaves, Same, Kept
<1> HIDE DEF v
<1>6. Binds'
  BY <1>1, <1>2, <1>4, <1>5, Numbers DEF Held, Publishes, Recovers, Binds, Guarded, Unaccepted, Started, Stays, Fails, Leaves, Same, Kept
<1>7. Durable'
  BY <1>1, <1>2, <1>4, <1>5, Numbers DEF Durable, FirstIsBound, Held, Publishes, Recovers, Binds, Guarded, Unaccepted, Started, Stays, Fails, Leaves, Same, Kept
<1>8. Losses'
  BY <1>1, <1>2, <1>4, <1>5, Numbers DEF Losses, Held, Publishes, Recovers, Binds, Guarded, Unaccepted, Started, Stays, Fails, Leaves, Same, Kept
<1>9. Serves'
  BY <1>1, <1>2, <1>4, <1>5, Numbers DEF Serves, Losses, Durable, FirstIsBound, ReloadAdmitted, BootAdmitted, Held, Publishes, Recovers, Binds, Guarded, Unaccepted, Started, Stays, Fails, Leaves, Same, Kept
<1>10. Bound'
  BY <1>1, <1>2, <1>4, <1>5, Numbers DEF Bound, Losses, Durable, FirstIsBound, Held, Publishes, Recovers, Binds, Guarded, Unaccepted, Started, Stays, Fails, Leaves, Same, Kept
<1>11. Orders'
  BY <1>1, <1>2, <1>4, <1>5, Numbers DEF Orders, Ordered, Durable, Held, Publishes, Recovers, Binds, Guarded, Unaccepted, Started, Stays, Fails, Leaves, Same, Kept
<1>12. Settled'
  BY <1>1, <1>2, <1>4, <1>5, Numbers DEF Settled, Losses, Bound, Orders, Ordered, Held, Publishes, Recovers, Binds, Guarded, Unaccepted, Started, Stays, Fails, Leaves, Same, Kept
<1>13. Records'
  BY <1>1, <1>2, <1>4, <1>5, Numbers DEF Records, Succeeding, Renewing, Orders, Ordered, Bound, Durable, FirstIsBound, Losses, Held, Publishes, Recovers, Binds, Guarded, Unaccepted, Started, Stays, Fails, Leaves, Same, Kept
<1> QED
  BY <1>3, <1>6, <1>7, <1>8, <1>9, <1>10, <1>11, <1>12, <1>13 DEF SInv

LEMMA RecoverAdmitServes == ASSUME SInv, RecoverAdmit PROVE SInv'
<1>1. /\ PInv /\ TypeOK /\ Held /\ Publishes /\ Recovers
      /\ Binds /\ Durable /\ Losses /\ Serves /\ Bound /\ Orders /\ Settled /\ Records
  BY DEF SInv, PInv
<1>2. pub.pc = "recover" /\ UNCHANGED <<lineage, ren, crashes>>
  BY DEF RecoverAdmit, At
<1>3. PInv'
  BY <1>1, RecoverAdmitKeeps
<1>4. /\ etc' = etc /\ etcD' = etcD /\ acme' = acme /\ acmeD' = acmeD /\ live' = live /\ faults' = faults
      /\ \/ etc.journal = NoJournal /\ Leaves
         \/ Fails
         \/ etc.journal # NoJournal /\ Stays("restore")
  BY <1>1, <1>2, RecoverAdmitDoes DEF Goes, Stays, Fails, Leaves, Same, Kept
<1>5. Binds'
  BY <1>1, <1>2, <1>4, Numbers DEF Held, Publishes, Recovers, Binds, Guarded, Unaccepted, Started, Stays, Fails, Leaves, Same, Kept
<1>6. Durable'
  BY <1>1, <1>2, <1>4, Numbers DEF Durable, FirstIsBound, Held, Publishes, Recovers, Binds, Guarded, Unaccepted, Started, Stays, Fails, Leaves, Same, Kept
<1>7. Losses'
  BY <1>1, <1>2, <1>4, Numbers DEF Losses, Held, Publishes, Recovers, Binds, Guarded, Unaccepted, Started, Stays, Fails, Leaves, Same, Kept
<1>8. Serves'
  BY <1>1, <1>2, <1>4, Numbers DEF Serves, Losses, Durable, FirstIsBound, ReloadAdmitted, BootAdmitted, Held, Publishes, Recovers, Binds, Guarded, Unaccepted, Started, Stays, Fails, Leaves, Same, Kept
<1>9. Bound'
  BY <1>1, <1>2, <1>4, Numbers DEF Bound, Losses, Durable, FirstIsBound, Held, Publishes, Recovers, Binds, Guarded, Unaccepted, Started, Stays, Fails, Leaves, Same, Kept
<1>10. Orders'
  BY <1>1, <1>2, <1>4, Numbers DEF Orders, Ordered, Durable, Held, Publishes, Recovers, Binds, Guarded, Unaccepted, Started, Stays, Fails, Leaves, Same, Kept
<1>11. Settled'
  BY <1>1, <1>2, <1>4, Numbers DEF Settled, Losses, Bound, Orders, Ordered, Held, Publishes, Recovers, Binds, Guarded, Unaccepted, Started, Stays, Fails, Leaves, Same, Kept
<1>12. Records'
  BY <1>1, <1>2, <1>4, Numbers DEF Records, Succeeding, Renewing, Orders, Ordered, Bound, Durable, FirstIsBound, Losses, Held, Publishes, Recovers, Binds, Guarded, Unaccepted, Started, Stays, Fails, Leaves, Same, Kept
<1> QED
  BY <1>3, <1>5, <1>6, <1>7, <1>8, <1>9, <1>10, <1>11, <1>12 DEF SInv

LEMMA RecoverRestoreServes == ASSUME SInv, RecoverRestore PROVE SInv'
<1>1. /\ PInv /\ TypeOK /\ Held /\ Publishes /\ Recovers
      /\ Binds /\ Durable /\ Losses /\ Serves /\ Bound /\ Orders /\ Settled /\ Records
  BY DEF SInv, PInv
<1>2. pub.pc = "restore" /\ UNCHANGED <<lineage, ren, crashes>>
  BY DEF RecoverRestore, At
<1>3. PInv'
  BY <1>1, RecoverRestoreKeeps
<1> DEFINE v == WithPem(etc.journal.previous)
<1>4. v.pem = etc.journal.previous /\ v.journal = etc.journal
  BY <1>1, EtcFields
<1>5. /\ acme' = acme /\ acmeD' = acmeD /\ live' = live
      /\ \/ etc' = v /\ etcD' = v /\ Stays("restore-receipt") /\ faults' = faults
         \/ etc' \in {etc, v} /\ etcD' = etcD /\ Fails /\ faults' = faults + 1
         \/ etc' = etc /\ etcD' = etcD /\ Fails /\ faults' = faults
  BY <1>1, <1>2, RecoverRestoreDoes DEF Goes, Stays, Fails, Leaves, Same, Kept
<1> HIDE DEF v
<1>6. Binds'
  BY <1>1, <1>2, <1>4, <1>5, Numbers DEF Held, Publishes, Recovers, Binds, Guarded, Unaccepted, Started, Stays, Fails, Leaves, Same, Kept
<1>7. Durable'
  BY <1>1, <1>2, <1>4, <1>5, Numbers DEF Durable, FirstIsBound, Held, Publishes, Recovers, Binds, Guarded, Unaccepted, Started, Stays, Fails, Leaves, Same, Kept
<1>8. Losses'
  BY <1>1, <1>2, <1>4, <1>5, Numbers DEF Losses, Held, Publishes, Recovers, Binds, Guarded, Unaccepted, Started, Stays, Fails, Leaves, Same, Kept
<1>9. Serves'
  BY <1>1, <1>2, <1>4, <1>5, Numbers DEF Serves, Losses, Durable, FirstIsBound, ReloadAdmitted, BootAdmitted, Held, Publishes, Recovers, Binds, Guarded, Unaccepted, Started, Stays, Fails, Leaves, Same, Kept
<1>10. Bound'
  BY <1>1, <1>2, <1>4, <1>5, Numbers DEF Bound, Losses, Durable, FirstIsBound, Held, Publishes, Recovers, Binds, Guarded, Unaccepted, Started, Stays, Fails, Leaves, Same, Kept
<1>11. Orders'
  BY <1>1, <1>2, <1>4, <1>5, Numbers DEF Orders, Ordered, Durable, Held, Publishes, Recovers, Binds, Guarded, Unaccepted, Started, Stays, Fails, Leaves, Same, Kept
<1>12. Settled'
  BY <1>1, <1>2, <1>4, <1>5, Numbers DEF Settled, Losses, Bound, Orders, Ordered, Held, Publishes, Recovers, Binds, Guarded, Unaccepted, Started, Stays, Fails, Leaves, Same, Kept
<1>13. Records'
  BY <1>1, <1>2, <1>4, <1>5, Numbers DEF Records, Succeeding, Renewing, Orders, Ordered, Bound, Durable, FirstIsBound, Losses, Held, Publishes, Recovers, Binds, Guarded, Unaccepted, Started, Stays, Fails, Leaves, Same, Kept
<1> QED
  BY <1>3, <1>6, <1>7, <1>8, <1>9, <1>10, <1>11, <1>12, <1>13 DEF SInv

LEMMA RecoverReceiptServes == ASSUME SInv, RecoverReceipt PROVE SInv'
<1>1. /\ PInv /\ TypeOK /\ Held /\ Publishes /\ Recovers
      /\ Binds /\ Durable /\ Losses /\ Serves /\ Bound /\ Orders /\ Settled /\ Records
  BY DEF SInv, PInv
<1>2. pub.pc = "restore-receipt" /\ UNCHANGED <<lineage, ren, crashes>>
  BY DEF RecoverReceipt, At
<1>3. PInv'
  BY <1>1, RecoverReceiptKeeps
<1> DEFINE v == WithReceipt(etc.snapshot)
<1>4. v.receipt = etc.snapshot /\ v.renewal = acme.renewal
  BY <1>1, AcmeFields
<1>5. /\ etc' = etc /\ etcD' = etcD /\ live' = live
      /\ \/ etc.journal.previous = 0 /\ Stays("drop-journal") /\ acme' = acme /\ acmeD' = acmeD /\ faults' = faults
         \/ /\ etc.journal.previous # 0 /\ etc.snapshot # NoReceipt /\ etc.snapshot.fp = etc.pem
            /\ acme' = v /\ acmeD' = v /\ Stays("recover-reload") /\ faults' = faults
         \/ /\ etc.journal.previous # 0 /\ etc.snapshot # NoReceipt /\ etc.snapshot.fp = etc.pem
            /\ acme' \in {acme, v} /\ acmeD' = acmeD /\ Fails /\ faults' = faults + 1
         \/ Fails /\ acme' = acme /\ acmeD' = acmeD /\ faults' = faults
  BY <1>1, <1>2, RecoverReceiptDoes DEF Goes, Stays, Fails, Leaves, Same, Kept
<1> HIDE DEF v
<1>6. Binds'
  BY <1>1, <1>2, <1>4, <1>5, Numbers DEF Held, Publishes, Recovers, Binds, Guarded, Unaccepted, Started, Stays, Fails, Leaves, Same, Kept
<1>7. Durable'
  BY <1>1, <1>2, <1>4, <1>5, Numbers DEF Durable, FirstIsBound, Held, Publishes, Recovers, Binds, Guarded, Unaccepted, Started, Stays, Fails, Leaves, Same, Kept
<1>8. Losses'
  BY <1>1, <1>2, <1>4, <1>5, Numbers DEF Losses, Held, Publishes, Recovers, Binds, Guarded, Unaccepted, Started, Stays, Fails, Leaves, Same, Kept
<1>9. Serves'
  BY <1>1, <1>2, <1>4, <1>5, Numbers DEF Serves, Losses, Durable, FirstIsBound, ReloadAdmitted, BootAdmitted, Held, Publishes, Recovers, Binds, Guarded, Unaccepted, Started, Stays, Fails, Leaves, Same, Kept
<1>10. Bound'
  BY <1>1, <1>2, <1>4, <1>5, Numbers DEF Bound, Losses, Durable, FirstIsBound, Held, Publishes, Recovers, Binds, Guarded, Unaccepted, Started, Stays, Fails, Leaves, Same, Kept
<1>11. Orders'
  BY <1>1, <1>2, <1>4, <1>5, Numbers DEF Orders, Ordered, Durable, Held, Publishes, Recovers, Binds, Guarded, Unaccepted, Started, Stays, Fails, Leaves, Same, Kept
<1>12. Settled'
  BY <1>1, <1>2, <1>4, <1>5, Numbers DEF Settled, Losses, Bound, Orders, Ordered, Held, Publishes, Recovers, Binds, Guarded, Unaccepted, Started, Stays, Fails, Leaves, Same, Kept
<1>13. Records'
  BY <1>1, <1>2, <1>4, <1>5, Numbers DEF Records, Succeeding, Renewing, Orders, Ordered, Bound, Durable, FirstIsBound, Losses, Held, Publishes, Recovers, Binds, Guarded, Unaccepted, Started, Stays, Fails, Leaves, Same, Kept
<1> QED
  BY <1>3, <1>6, <1>7, <1>8, <1>9, <1>10, <1>11, <1>12, <1>13 DEF SInv

LEMMA RecoverReloadServes == ASSUME SInv, RecoverReload PROVE SInv'
<1>1. /\ PInv /\ TypeOK /\ Held /\ Publishes /\ Recovers
      /\ Binds /\ Durable /\ Losses /\ Serves /\ Bound /\ Orders /\ Settled /\ Records
  BY DEF SInv, PInv
<1>2. pub.pc = "recover-reload" /\ UNCHANGED <<lineage, ren, crashes>>
  BY DEF RecoverReload, At
<1>3. PInv'
  BY <1>1, RecoverReloadKeeps
<1>4. /\ etc' = etc /\ etcD' = etcD /\ acme' = acme /\ acmeD' = acmeD
      /\ \/ live = 0 /\ live' = 0 /\ Stays("drop-journal") /\ faults' = faults
         \/ ReloadAdmitted /\ live # 0 /\ live' = etc.pem /\ Stays("drop-journal") /\ faults' = faults
         \/ ReloadAdmitted /\ live # 0 /\ live' \in {live, etc.pem} /\ Fails /\ faults' = faults + 1
         \/ live' = live /\ Fails /\ faults' = faults
  BY <1>1, <1>2, RecoverReloadDoes DEF Goes, Stays, Fails, Leaves, Same, Kept
<1>5. Binds'
  BY <1>1, <1>2, <1>4, Numbers DEF Held, Publishes, Recovers, Binds, Guarded, Unaccepted, Started, Stays, Fails, Leaves, Same, Kept
<1>6. Durable'
  BY <1>1, <1>2, <1>4, Numbers DEF Durable, FirstIsBound, Held, Publishes, Recovers, Binds, Guarded, Unaccepted, Started, Stays, Fails, Leaves, Same, Kept
<1>7. Losses'
  BY <1>1, <1>2, <1>4, Numbers DEF Losses, Held, Publishes, Recovers, Binds, Guarded, Unaccepted, Started, Stays, Fails, Leaves, Same, Kept
<1>8. Serves'
  BY <1>1, <1>2, <1>4, Numbers DEF Serves, Losses, Durable, FirstIsBound, ReloadAdmitted, BootAdmitted, Held, Publishes, Recovers, Binds, Guarded, Unaccepted, Started, Stays, Fails, Leaves, Same, Kept
<1>9. Bound'
  BY <1>1, <1>2, <1>4, Numbers DEF Bound, Losses, Durable, FirstIsBound, Held, Publishes, Recovers, Binds, Guarded, Unaccepted, Started, Stays, Fails, Leaves, Same, Kept
<1>10. Orders'
  BY <1>1, <1>2, <1>4, Numbers DEF Orders, Ordered, Durable, Held, Publishes, Recovers, Binds, Guarded, Unaccepted, Started, Stays, Fails, Leaves, Same, Kept
<1>11. Settled'
  BY <1>1, <1>2, <1>4, Numbers DEF Settled, Losses, Bound, Orders, Ordered, Held, Publishes, Recovers, Binds, Guarded, Unaccepted, Started, Stays, Fails, Leaves, Same, Kept
<1>12. Records'
  BY <1>1, <1>2, <1>4, Numbers DEF Records, Succeeding, Renewing, Orders, Ordered, Bound, Durable, FirstIsBound, Losses, Held, Publishes, Recovers, Binds, Guarded, Unaccepted, Started, Stays, Fails, Leaves, Same, Kept
<1> QED
  BY <1>3, <1>5, <1>6, <1>7, <1>8, <1>9, <1>10, <1>11, <1>12 DEF SInv

LEMMA RecoverUnlinkServes == ASSUME SInv, RecoverUnlink PROVE SInv'
<1>1. /\ PInv /\ TypeOK /\ Held /\ Publishes /\ Recovers
      /\ Binds /\ Durable /\ Losses /\ Serves /\ Bound /\ Orders /\ Settled /\ Records
  BY DEF SInv, PInv
<1>2. pub.pc = "drop-journal" /\ UNCHANGED <<lineage, ren, crashes>>
  BY DEF RecoverUnlink, At
<1>3. PInv'
  BY <1>1, RecoverUnlinkKeeps
<1>4. "drop-backup" \in Moves /\ "raise" \in Moves
  BY DEF Moves, Steps
<1> DEFINE v == WithJournal(NoJournal)
<1>5. v.journal = NoJournal /\ v.pem = etc.pem
  BY <1>1, EtcFields
<1>6. /\ acme' = acme /\ acmeD' = acmeD /\ live' = live
      /\ \/ etc' = v /\ etcD' = v /\ Stays("drop-backup") /\ faults' = faults
         \/ etc' \in {etc, v} /\ etcD' = etcD /\ Fails /\ faults' = faults + 1
  BY <1>1, <1>2, <1>4, UnlinkDoes DEF Goes, Stays, Fails, Leaves, Same, Kept
<1> HIDE DEF v
<1>7. Binds'
  BY <1>1, <1>2, <1>5, <1>6, Numbers DEF Held, Publishes, Recovers, Binds, Guarded, Unaccepted, Started, Stays, Fails, Leaves, Same, Kept
<1>8. Durable'
  BY <1>1, <1>2, <1>5, <1>6, Numbers DEF Durable, FirstIsBound, Held, Publishes, Recovers, Binds, Guarded, Unaccepted, Started, Stays, Fails, Leaves, Same, Kept
<1>9. Losses'
  BY <1>1, <1>2, <1>5, <1>6, Numbers DEF Losses, Held, Publishes, Recovers, Binds, Guarded, Unaccepted, Started, Stays, Fails, Leaves, Same, Kept
<1>10. Serves'
  BY <1>1, <1>2, <1>5, <1>6, Numbers DEF Serves, Losses, Durable, FirstIsBound, ReloadAdmitted, BootAdmitted, Held, Publishes, Recovers, Binds, Guarded, Unaccepted, Started, Stays, Fails, Leaves, Same, Kept
<1>11. Bound'
  BY <1>1, <1>2, <1>5, <1>6, Numbers DEF Bound, Losses, Durable, FirstIsBound, Held, Publishes, Recovers, Binds, Guarded, Unaccepted, Started, Stays, Fails, Leaves, Same, Kept
<1>12. Orders'
  BY <1>1, <1>2, <1>5, <1>6, Numbers DEF Orders, Ordered, Durable, Held, Publishes, Recovers, Binds, Guarded, Unaccepted, Started, Stays, Fails, Leaves, Same, Kept
<1>13. Settled'
  BY <1>1, <1>2, <1>5, <1>6, Numbers DEF Settled, Losses, Bound, Orders, Ordered, Held, Publishes, Recovers, Binds, Guarded, Unaccepted, Started, Stays, Fails, Leaves, Same, Kept
<1>14. Records'
  BY <1>1, <1>2, <1>5, <1>6, Numbers DEF Records, Succeeding, Renewing, Orders, Ordered, Bound, Durable, FirstIsBound, Losses, Held, Publishes, Recovers, Binds, Guarded, Unaccepted, Started, Stays, Fails, Leaves, Same, Kept
<1> QED
  BY <1>3, <1>7, <1>8, <1>9, <1>10, <1>11, <1>12, <1>13, <1>14 DEF SInv

LEMMA RecoverDropServes == ASSUME SInv, RecoverDrop PROVE SInv'
<1>1. /\ PInv /\ TypeOK /\ Held /\ Publishes /\ Recovers
      /\ Binds /\ Durable /\ Losses /\ Serves /\ Bound /\ Orders /\ Settled /\ Records
  BY DEF SInv, PInv
<1>2. pub.pc = "drop-backup" /\ UNCHANGED <<lineage, ren, crashes>>
  BY DEF RecoverDrop, At
<1>3. PInv'
  BY <1>1, RecoverDropKeeps
<1> DEFINE v == WithBackup(0)
<1>4. v.backup = 0 /\ v.pem = etc.pem /\ v.journal = etc.journal
  BY <1>1, EtcFields
<1>5. /\ acme' = acme /\ acmeD' = acmeD /\ live' = live
      /\ \/ etc' = v /\ etcD' = v /\ Stays("drop-snapshot") /\ faults' = faults
         \/ etc' \in {etc, v} /\ etcD' = etcD /\ Fails /\ faults' = faults + 1
  BY <1>1, <1>2, RecoverDropDoes DEF Goes, Stays, Fails, Leaves, Same, Kept
<1> HIDE DEF v
<1>6. Binds'
  BY <1>1, <1>2, <1>4, <1>5, Numbers DEF Held, Publishes, Recovers, Binds, Guarded, Unaccepted, Started, Stays, Fails, Leaves, Same, Kept
<1>7. Durable'
  BY <1>1, <1>2, <1>4, <1>5, Numbers DEF Durable, FirstIsBound, Held, Publishes, Recovers, Binds, Guarded, Unaccepted, Started, Stays, Fails, Leaves, Same, Kept
<1>8. Losses'
  BY <1>1, <1>2, <1>4, <1>5, Numbers DEF Losses, Held, Publishes, Recovers, Binds, Guarded, Unaccepted, Started, Stays, Fails, Leaves, Same, Kept
<1>9. Serves'
  BY <1>1, <1>2, <1>4, <1>5, Numbers DEF Serves, Losses, Durable, FirstIsBound, ReloadAdmitted, BootAdmitted, Held, Publishes, Recovers, Binds, Guarded, Unaccepted, Started, Stays, Fails, Leaves, Same, Kept
<1>10. Bound'
  BY <1>1, <1>2, <1>4, <1>5, Numbers DEF Bound, Losses, Durable, FirstIsBound, Held, Publishes, Recovers, Binds, Guarded, Unaccepted, Started, Stays, Fails, Leaves, Same, Kept
<1>11. Orders'
  BY <1>1, <1>2, <1>4, <1>5, Numbers DEF Orders, Ordered, Durable, Held, Publishes, Recovers, Binds, Guarded, Unaccepted, Started, Stays, Fails, Leaves, Same, Kept
<1>12. Settled'
  BY <1>1, <1>2, <1>4, <1>5, Numbers DEF Settled, Losses, Bound, Orders, Ordered, Held, Publishes, Recovers, Binds, Guarded, Unaccepted, Started, Stays, Fails, Leaves, Same, Kept
<1>13. Records'
  BY <1>1, <1>2, <1>4, <1>5, Numbers DEF Records, Succeeding, Renewing, Orders, Ordered, Bound, Durable, FirstIsBound, Losses, Held, Publishes, Recovers, Binds, Guarded, Unaccepted, Started, Stays, Fails, Leaves, Same, Kept
<1> QED
  BY <1>3, <1>6, <1>7, <1>8, <1>9, <1>10, <1>11, <1>12, <1>13 DEF SInv

LEMMA RecoverForgetServes == ASSUME SInv, RecoverForget PROVE SInv'
<1>1. /\ PInv /\ TypeOK /\ Held /\ Publishes /\ Recovers
      /\ Binds /\ Durable /\ Losses /\ Serves /\ Bound /\ Orders /\ Settled /\ Records
  BY DEF SInv, PInv
<1>2. pub.pc = "drop-snapshot" /\ UNCHANGED <<lineage, ren, crashes>>
  BY DEF RecoverForget, At
<1>3. PInv'
  BY <1>1, RecoverForgetKeeps
<1> DEFINE v == WithSnapshot(NoReceipt)
<1>4. v.snapshot = NoReceipt /\ v.pem = etc.pem /\ v.journal = etc.journal
  BY <1>1, EtcFields
<1>5. /\ acme' = acme /\ acmeD' = acmeD /\ live' = live
      /\ etc' = v /\ etcD' = etcD /\ Leaves /\ faults' = faults
  BY <1>1, <1>2, RecoverForgetDoes DEF Goes, Stays, Fails, Leaves, Same, Kept
<1> HIDE DEF v
<1>6. Binds'
  BY <1>1, <1>2, <1>4, <1>5, Numbers DEF Held, Publishes, Recovers, Binds, Guarded, Unaccepted, Started, Stays, Fails, Leaves, Same, Kept
<1>7. Durable'
  BY <1>1, <1>2, <1>4, <1>5, Numbers DEF Durable, FirstIsBound, Held, Publishes, Recovers, Binds, Guarded, Unaccepted, Started, Stays, Fails, Leaves, Same, Kept
<1>8. Losses'
  BY <1>1, <1>2, <1>4, <1>5, Numbers DEF Losses, Held, Publishes, Recovers, Binds, Guarded, Unaccepted, Started, Stays, Fails, Leaves, Same, Kept
<1>9. Serves'
  BY <1>1, <1>2, <1>4, <1>5, Numbers DEF Serves, Losses, Durable, FirstIsBound, ReloadAdmitted, BootAdmitted, Held, Publishes, Recovers, Binds, Guarded, Unaccepted, Started, Stays, Fails, Leaves, Same, Kept
<1>10. Bound'
  BY <1>1, <1>2, <1>4, <1>5, Numbers DEF Bound, Losses, Durable, FirstIsBound, Held, Publishes, Recovers, Binds, Guarded, Unaccepted, Started, Stays, Fails, Leaves, Same, Kept
<1>11. Orders'
  BY <1>1, <1>2, <1>4, <1>5, Numbers DEF Orders, Ordered, Durable, Held, Publishes, Recovers, Binds, Guarded, Unaccepted, Started, Stays, Fails, Leaves, Same, Kept
<1>12. Settled'
  BY <1>1, <1>2, <1>4, <1>5, Numbers DEF Settled, Losses, Bound, Orders, Ordered, Held, Publishes, Recovers, Binds, Guarded, Unaccepted, Started, Stays, Fails, Leaves, Same, Kept
<1>13. Records'
  BY <1>1, <1>2, <1>4, <1>5, Numbers DEF Records, Succeeding, Renewing, Orders, Ordered, Bound, Durable, FirstIsBound, Losses, Held, Publishes, Recovers, Binds, Guarded, Unaccepted, Started, Stays, Fails, Leaves, Same, Kept
<1> QED
  BY <1>3, <1>6, <1>7, <1>8, <1>9, <1>10, <1>11, <1>12, <1>13 DEF SInv

LEMMA InitialAdmitServes == ASSUME SInv, InitialAdmit PROVE SInv'
<1>1. /\ PInv /\ TypeOK /\ Held /\ Publishes /\ Recovers
      /\ Binds /\ Durable /\ Losses /\ Serves /\ Bound /\ Orders /\ Settled /\ Records
  BY DEF SInv, PInv
<1>2. pub.pc = "initial" /\ UNCHANGED <<lineage, ren, crashes>>
  BY DEF InitialAdmit, At
<1>3. PInv'
  BY <1>1, InitialAdmitKeeps
<1>4. /\ etc' = etc /\ etcD' = etcD /\ acme' = acme /\ acmeD' = acmeD /\ live' = live /\ faults' = faults
      /\ \/ Fails
         \/ etc.pem # 0 /\ live = etc.pem /\ etc.journal = Started(0, etc.pem) /\ Stays("initial-accept")
  BY <1>1, <1>2, InitialAdmitDoes DEF Goes, Stays, Fails, Leaves, Same, Kept
<1>5. Binds'
  BY <1>1, <1>2, <1>4, Numbers DEF Held, Publishes, Recovers, Binds, Guarded, Unaccepted, Started, Stays, Fails, Leaves, Same, Kept
<1>6. Durable'
  BY <1>1, <1>2, <1>4, Numbers DEF Durable, FirstIsBound, Held, Publishes, Recovers, Binds, Guarded, Unaccepted, Started, Stays, Fails, Leaves, Same, Kept
<1>7. Losses'
  BY <1>1, <1>2, <1>4, Numbers DEF Losses, Held, Publishes, Recovers, Binds, Guarded, Unaccepted, Started, Stays, Fails, Leaves, Same, Kept
<1>8. Serves'
  BY <1>1, <1>2, <1>4, Numbers DEF Serves, Losses, Durable, FirstIsBound, ReloadAdmitted, BootAdmitted, Held, Publishes, Recovers, Binds, Guarded, Unaccepted, Started, Stays, Fails, Leaves, Same, Kept
<1>9. Bound'
  BY <1>1, <1>2, <1>4, Numbers DEF Bound, Losses, Durable, FirstIsBound, Held, Publishes, Recovers, Binds, Guarded, Unaccepted, Started, Stays, Fails, Leaves, Same, Kept
<1>10. Orders'
  BY <1>1, <1>2, <1>4, Numbers DEF Orders, Ordered, Durable, Held, Publishes, Recovers, Binds, Guarded, Unaccepted, Started, Stays, Fails, Leaves, Same, Kept
<1>11. Settled'
  BY <1>1, <1>2, <1>4, Numbers DEF Settled, Losses, Bound, Orders, Ordered, Held, Publishes, Recovers, Binds, Guarded, Unaccepted, Started, Stays, Fails, Leaves, Same, Kept
<1>12. Records'
  BY <1>1, <1>2, <1>4, Numbers DEF Records, Succeeding, Renewing, Orders, Ordered, Bound, Durable, FirstIsBound, Losses, Held, Publishes, Recovers, Binds, Guarded, Unaccepted, Started, Stays, Fails, Leaves, Same, Kept
<1> QED
  BY <1>3, <1>5, <1>6, <1>7, <1>8, <1>9, <1>10, <1>11, <1>12 DEF SInv

LEMMA InitialAcceptServes == ASSUME SInv, InitialAccept PROVE SInv'
<1>1. /\ PInv /\ TypeOK /\ Held /\ Publishes /\ Recovers
      /\ Binds /\ Durable /\ Losses /\ Serves /\ Bound /\ Orders /\ Settled /\ Records
  BY DEF SInv, PInv
<1>2. pub.pc = "initial-accept" /\ UNCHANGED <<lineage, ren, crashes>>
  BY DEF InitialAccept, At
<1>3. PInv'
  BY <1>1, InitialAcceptKeeps
<1> DEFINE v == Accepted(etc.pem)
<1>4. v.receipt.fp = etc.pem /\ v.receipt # NoReceipt /\ v.renewal = acme.renewal
  BY <1>1, <1>2, Documents, AcceptedTypes DEF Recovers
<1>5. /\ etc' = etc /\ etcD' = etcD /\ live' = live
      /\ \/ acme' = v /\ acmeD' = v /\ Stays("initial-unlink") /\ faults' = faults
         \/ acme' \in {acme, v} /\ acmeD' = acmeD /\ Fails /\ faults' = faults + 1
  BY <1>1, <1>2, InitialAcceptDoes DEF Goes, Stays, Fails, Leaves, Same, Kept
<1> HIDE DEF v
<1>6. Binds'
  BY <1>1, <1>2, <1>4, <1>5, Numbers DEF Held, Publishes, Recovers, Binds, Guarded, Unaccepted, Started, Stays, Fails, Leaves, Same, Kept
<1>7. Durable'
  BY <1>1, <1>2, <1>4, <1>5, Numbers DEF Durable, FirstIsBound, Held, Publishes, Recovers, Binds, Guarded, Unaccepted, Started, Stays, Fails, Leaves, Same, Kept
<1>8. Losses'
  BY <1>1, <1>2, <1>4, <1>5, Numbers DEF Losses, Held, Publishes, Recovers, Binds, Guarded, Unaccepted, Started, Stays, Fails, Leaves, Same, Kept
<1>9. Serves'
  BY <1>1, <1>2, <1>4, <1>5, Numbers DEF Serves, Losses, Durable, FirstIsBound, ReloadAdmitted, BootAdmitted, Held, Publishes, Recovers, Binds, Guarded, Unaccepted, Started, Stays, Fails, Leaves, Same, Kept
<1>10. Bound'
  BY <1>1, <1>2, <1>4, <1>5, Numbers DEF Bound, Losses, Durable, FirstIsBound, Held, Publishes, Recovers, Binds, Guarded, Unaccepted, Started, Stays, Fails, Leaves, Same, Kept
<1>11. Orders'
  BY <1>1, <1>2, <1>4, <1>5, Numbers DEF Orders, Ordered, Durable, Held, Publishes, Recovers, Binds, Guarded, Unaccepted, Started, Stays, Fails, Leaves, Same, Kept
<1>12. Settled'
  BY <1>1, <1>2, <1>4, <1>5, Numbers DEF Settled, Losses, Bound, Orders, Ordered, Held, Publishes, Recovers, Binds, Guarded, Unaccepted, Started, Stays, Fails, Leaves, Same, Kept
<1>13. Records'
  BY <1>1, <1>2, <1>4, <1>5, Numbers DEF Records, Succeeding, Renewing, Orders, Ordered, Bound, Durable, FirstIsBound, Losses, Held, Publishes, Recovers, Binds, Guarded, Unaccepted, Started, Stays, Fails, Leaves, Same, Kept
<1> QED
  BY <1>3, <1>6, <1>7, <1>8, <1>9, <1>10, <1>11, <1>12, <1>13 DEF SInv

LEMMA InitialUnlinkServes == ASSUME SInv, InitialUnlink PROVE SInv'
<1>1. /\ PInv /\ TypeOK /\ Held /\ Publishes /\ Recovers
      /\ Binds /\ Durable /\ Losses /\ Serves /\ Bound /\ Orders /\ Settled /\ Records
  BY DEF SInv, PInv
<1>2. pub.pc = "initial-unlink" /\ UNCHANGED <<lineage, ren, crashes>>
  BY DEF InitialUnlink, At
<1>3. PInv'
  BY <1>1, InitialUnlinkKeeps
<1>4. "ok" \in Moves /\ "raise" \in Moves
  BY DEF Moves, Steps
<1> DEFINE v == WithJournal(NoJournal)
<1>5. v.journal = NoJournal /\ v.pem = etc.pem
  BY <1>1, EtcFields
<1>6. /\ acme' = acme /\ acmeD' = acmeD /\ live' = live
      /\ \/ etc' = v /\ etcD' = v /\ Leaves /\ faults' = faults
         \/ etc' \in {etc, v} /\ etcD' = etcD /\ Fails /\ faults' = faults + 1
  BY <1>1, <1>2, <1>4, UnlinkDoes DEF Goes, Stays, Fails, Leaves, Same, Kept
<1> HIDE DEF v
<1>7. Binds'
  BY <1>1, <1>2, <1>5, <1>6, Numbers DEF Held, Publishes, Recovers, Binds, Guarded, Unaccepted, Started, Stays, Fails, Leaves, Same, Kept
<1>8. Durable'
  BY <1>1, <1>2, <1>5, <1>6, Numbers DEF Durable, FirstIsBound, Held, Publishes, Recovers, Binds, Guarded, Unaccepted, Started, Stays, Fails, Leaves, Same, Kept
<1>9. Losses'
  BY <1>1, <1>2, <1>5, <1>6, Numbers DEF Losses, Held, Publishes, Recovers, Binds, Guarded, Unaccepted, Started, Stays, Fails, Leaves, Same, Kept
<1>10. Serves'
  BY <1>1, <1>2, <1>5, <1>6, Numbers DEF Serves, Losses, Durable, FirstIsBound, ReloadAdmitted, BootAdmitted, Held, Publishes, Recovers, Binds, Guarded, Unaccepted, Started, Stays, Fails, Leaves, Same, Kept
<1>11. Bound'
  BY <1>1, <1>2, <1>5, <1>6, Numbers DEF Bound, Losses, Durable, FirstIsBound, Held, Publishes, Recovers, Binds, Guarded, Unaccepted, Started, Stays, Fails, Leaves, Same, Kept
<1>12. Orders'
  BY <1>1, <1>2, <1>5, <1>6, Numbers DEF Orders, Ordered, Durable, Held, Publishes, Recovers, Binds, Guarded, Unaccepted, Started, Stays, Fails, Leaves, Same, Kept
<1>13. Settled'
  BY <1>1, <1>2, <1>5, <1>6, Numbers DEF Settled, Losses, Bound, Orders, Ordered, Held, Publishes, Recovers, Binds, Guarded, Unaccepted, Started, Stays, Fails, Leaves, Same, Kept
<1>14. Records'
  BY <1>1, <1>2, <1>5, <1>6, Numbers DEF Records, Succeeding, Renewing, Orders, Ordered, Bound, Durable, FirstIsBound, Losses, Held, Publishes, Recovers, Binds, Guarded, Unaccepted, Started, Stays, Fails, Leaves, Same, Kept
<1> QED
  BY <1>3, <1>7, <1>8, <1>9, <1>10, <1>11, <1>12, <1>13, <1>14 DEF SInv

LEMMA PublisherServes == SInv /\ Publisher => SInv'
BY AdmitServes, SnapshotServes, GateServes, BackupServes, JournalRecordServes, ReplaceServes, ReloadServes, AgainServes,
   AcceptServes, ReacceptServes, UnlinkServes, RollbackServes, RejournalServes, CompensateServes, RereloadServes,
   UnjournalServes, FinallyServes, ForgetServes, RecoverAdmitServes, RecoverRestoreServes, RecoverReceiptServes,
   RecoverReloadServes, RecoverUnlinkServes, RecoverDropServes, RecoverForgetServes, InitialAdmitServes,
   InitialAcceptServes, InitialUnlinkServes DEF Publisher

-----------------------------------------------------------------------------
(* The other processes keep them as well.                                  *)

\* HAProxy serves what it served, nothing, or the bytes a reload admits.
Loads == live' \in {0, live} \/ (live' = etc.pem /\ ReloadAdmitted)

LEMMA ElsewiseServes ==
  ASSUME TypeOK, Held, Elsewise
  PROVE  /\ Loads /\ crashes' \in Nat /\ crashes' >= crashes
         /\ pub' = pub \/ pub.pc = "idle" \/ crashes' > crashes
         /\ ren'.pc \in {ren.pc, "begin", "idle"}
<1> USE DEF disk, spent
<1>1. crashes \in Nat /\ crashes >= crashes /\ crashes + 1 \in Nat /\ crashes + 1 > crashes /\ crashes + 1 >= crashes
  BY BoundsAssumption DEF TypeOK
<1>2. ASSUME NEW obtain \in BOOLEAN, Renew(obtain)
      PROVE  UNCHANGED <<live, crashes, pub>> /\ ren'.pc = "begin"
  BY <1>2 DEF Renew
<1>3. ASSUME NEW op \in {"initial", "accept", "deploy", "recover"}, Operate(op)
      PROVE  UNCHANGED <<live, crashes, ren>> /\ pub.pc = "idle"
  BY <1>3 DEF Operate, Held
<1>4. CASE Start \/ SharedReload \/ Stop
  <2>1. UNCHANGED <<crashes, pub, ren>> /\ Loads
    BY <1>4 DEF Start, SharedReload, Stop, Loads, ReloadAdmitted
  <2> QED
    BY <1>1, <2>1
<1>5. CASE Expire \/ Flush
  <2>1. UNCHANGED <<live, crashes, pub, ren>>
    BY <1>5 DEF Expire, Flush
  <2> QED
    BY <1>1, <2>1 DEF Loads
<1>6. CASE KillPublisher \/ KillRenewer
  <2>1. UNCHANGED live /\ crashes' = crashes + 1 /\ ren' \in {Resting, ren}
    BY <1>6 DEF KillPublisher, KillRenewer, Crashing
  <2>2. Resting.pc = "idle"
    BY DEF Resting
  <2> QED
    BY <1>1, <2>1, <2>2 DEF Loads
<1> QED
  BY <1>1, <1>2, <1>3, <1>4, <1>5, <1>6 DEF Elsewise, Loads

\* Whatever leaves the files on disk alone keeps what the publication relies on.
LEMMA OpensServes ==
  ASSUME SInv, Opens, Loads, UNCHANGED etc, etcD' \in {etc, etcD},
         acme'.receipt = acme.receipt, acmeD'.receipt \in {acmeD.receipt, acme.receipt},
         faults' \in Nat, faults' >= faults, crashes' \in Nat, crashes' >= crashes,
         lineage' \in Nat, lineage' >= lineage,
         faults' = 0 => acmeD' = acme' \/ (acmeD' = acmeD /\ acme' = acme),
         pub' = pub \/ pub.pc = "idle" \/ crashes' > crashes
  PROVE  Binds' /\ Durable' /\ Losses' /\ Serves' /\ Bound' /\ Orders' /\ Settled'
<1>1. /\ PInv /\ TypeOK /\ Held /\ Publishes /\ Recovers
      /\ Binds /\ Durable /\ Losses /\ Serves /\ Bound /\ Orders /\ Settled
  BY DEF SInv, PInv
<1>2. \/ pub' = pub
      \/ /\ pub'.pc \in {"idle", "admit", "recover", "initial"} /\ pub'.prev = 0 /\ pub'.cand = 0
         /\ pub'.owner = "renewer" => pub'.op # "initial" /\ etc.journal = NoJournal
  BY DEF Opens
<1>3. Binds'
  BY <1>1, <1>2 DEF Binds, Guarded, Unaccepted
<1>4. Durable'
  BY <1>1, <1>2, Numbers DEF Durable, FirstIsBound, Publishes, Guarded
<1>5. Losses'
  BY <1>1, <1>2, Numbers DEF Losses
<1>6. Serves'
  BY <1>1, <1>2, Numbers DEF Serves, Held, Publishes, Recovers, Durable, FirstIsBound, Binds, Loads, ReloadAdmitted,
     BootAdmitted, Guarded, Unaccepted, Started
<1>7. Bound'
  BY <1>1, <1>2, Numbers DEF Bound, Losses
<1>8. Orders'
  BY <1>1, <1>2, Numbers DEF Orders, Ordered, Guarded
<1>9. Settled'
  BY <1>1, <1>2, Numbers DEF Settled, Losses, Guarded
<1> QED
  BY <1>3, <1>4, <1>5, <1>6, <1>7, <1>8, <1>9

\* A success is recorded for the lineage that serves; the lineage only moves on after UNKNOWN.
LEMMA RenewerRecords == ASSUME SInv, Renewer PROVE Records'
<1>1. /\ PInv /\ TypeOK /\ Held /\ Settled /\ Records
  BY DEF SInv, PInv
<1>2. /\ UNCHANGED <<etc, etcD, expired, live, crashes>> /\ Opens
      /\ acme'.receipt = acme.receipt /\ acmeD'.receipt \in {acmeD.receipt, acme.receipt}
      /\ faults' >= faults /\ faults' \in Nat
  BY <1>1, RenewerDoes, BoundsAssumption
<1>3. pub' = pub \/ pub'.pc \in {"idle", "admit", "recover", "initial"}
  BY <1>2 DEF Opens
<1> USE DEF RenAt
<1>4. CASE RenewBegin
  <2>1. ren.pc = "begin" /\ lineage' = lineage /\ RenWrite("UNKNOWN", "check", "idle")
    BY <1>4 DEF RenewBegin
  <2>2. /\ acme'.renewal \in {acme.renewal, "UNKNOWN"}
        /\ \/ acmeD' = acme' /\ acme'.renewal = "UNKNOWN" /\ ren'.pc = "check"
           \/ acmeD' = acmeD /\ ren'.pc = "idle"
    BY <1>1, <2>1, RenWrites DEF Statuses
  <2> QED
    BY <1>1, <1>2, <1>3, <2>1, <2>2, Numbers DEF Records, Renewing, Succeeding, Guarded
<1>5. CASE RenewCheck \/ RenewHooked
  <2>1. /\ ren.pc \in Renewing /\ UNCHANGED <<acme, acmeD, lineage>>
        /\ RenGo("certbot") \/ RenGo("lock") \/ RenGo("failure")
    BY <1>5 DEF RenewCheck, RenewHooked, Renewing
  <2>2. ren'.pc \in {"certbot", "lock", "failure"}
    BY <1>1, <2>1, RenGoes DEF Statuses
  <2> QED
    BY <1>1, <2>1, <2>2 DEF Records, Renewing, Succeeding
<1>6. CASE RenewCertbot
  <2>1. /\ ren.pc \in Renewing /\ UNCHANGED <<acme, acmeD>>
        /\ RenGo("idle") \/ RenGo("hook") \/ RenGo("lock") \/ RenGo("failure")
    BY <1>6 DEF RenewCertbot, Renewing
  <2>2. ren'.pc \in {"idle", "hook", "lock", "failure"}
    BY <1>1, <2>1, RenGoes DEF Statuses
  <2> QED
    BY <1>1, <2>1, <2>2 DEF Records, Renewing, Succeeding
<1>7. CASE RenewHook \/ RenewLock
  <2>1. /\ ren.pc \in Renewing /\ UNCHANGED <<acme, acmeD, lineage>>
        /\ RenGo("hooked") \/ RenGo("lock") \/ RenGo("verify") \/ RenGo("failure")
    BY <1>7 DEF RenewHook, RenewLock, Renewing
  <2>2. ren'.pc \in {"hooked", "lock", "verify", "failure"}
    BY <1>1, <2>1, RenGoes DEF Statuses
  <2> QED
    BY <1>1, <2>1, <2>2 DEF Records, Renewing, Succeeding
<1>8. CASE RenewVerify
  <2>1. /\ ren.pc \in Renewing /\ UNCHANGED <<acme, acmeD, lineage>> /\ pub.owner = "renewer" /\ pub.pc = "idle"
        /\ RenGo("success") \/ RenGo("failure")
    BY <1>8 DEF RenewVerify, Renewing
  <2>2. ren'.pc \in {"success", "failure"}
    BY <1>1, <2>1, RenGoes DEF Statuses
  <2>3. pub'.pc = "idle"
    BY <1>8 DEF RenewVerify, Idle
  <2>4. ren'.pc = "success" => pub.ok /\ etc.pem = lineage /\ acme.receipt.fp = etc.pem /\ Served(etc.pem)
    <3>1. CASE RenGo("success") /\ ~(pub.ok /\ etc.pem = lineage /\ acme.receipt.fp = etc.pem /\ Served(etc.pem))
      <4>1. RenGo("failure")
        BY <1>8, <3>1 DEF RenewVerify
      <4> QED
        BY <1>1, <4>1, RenGoes DEF Statuses
    <3>2. CASE RenGo("failure")
      BY <1>1, <3>2, RenGoes DEF Statuses
    <3> QED
      BY <2>1, <3>1, <3>2
  <2>5. Served(etc.pem) => etc.pem # 0
    BY <1>1, BoundsAssumption DEF Served, Valid, TypeOK, Gen0
  <2>6. ren'.pc = "success" => etc.journal = NoJournal /\ lineage # 0
    BY <1>1, <2>1, <2>4, <2>5 DEF Settled
  <2> QED
    BY <1>1, <1>2, <2>1, <2>2, <2>3, <2>4, <2>6, Numbers DEF Records, Renewing, Succeeding, Guarded
<1>9. CASE RenewSuccess
  <2>1. ren.pc = "success" /\ lineage' = lineage /\ RenWrite("SUCCESS", "idle", "failure")
    BY <1>9 DEF RenewSuccess
  <2>2. /\ acme'.renewal \in {acme.renewal, "SUCCESS"}
        /\ \/ acmeD' = acme' /\ acme'.renewal = "SUCCESS" /\ ren'.pc = "idle"
           \/ acmeD' = acmeD /\ ren'.pc = "failure"
    BY <1>1, <2>1, RenWrites DEF Statuses
  <2> QED
    BY <1>1, <1>2, <1>3, <2>1, <2>2, Numbers DEF Records, Renewing, Succeeding, Guarded
<1>10. CASE RenewFailure
  <2>1. ren.pc = "failure" /\ lineage' = lineage /\ RenWrite("FAILURE", "idle", "idle")
    BY <1>10 DEF RenewFailure
  <2>2. /\ acme'.renewal \in {acme.renewal, "FAILURE"}
        /\ \/ acmeD' = acme' /\ acme'.renewal = "FAILURE" /\ ren'.pc = "idle"
           \/ acmeD' = acmeD /\ ren'.pc = "idle"
    BY <1>1, <2>1, RenWrites DEF Statuses
  <2> QED
    BY <1>1, <1>2, <1>3, <2>1, <2>2, Numbers DEF Records, Renewing, Succeeding, Guarded
<1> QED
  BY <1>4, <1>5, <1>6, <1>7, <1>8, <1>9, <1>10 DEF Renewer

\* After a power failure the durable copy says the same.
LEMMA PowerFailServes ==
  ASSUME SInv, PowerFail
  PROVE  Binds' /\ Durable' /\ Losses' /\ Serves' /\ Bound' /\ Orders' /\ Settled' /\ Records'
<1>1. /\ PInv /\ TypeOK /\ Held /\ Publishes /\ Recovers
      /\ Binds /\ Durable /\ Losses /\ Serves /\ Bound /\ Orders /\ Settled /\ Records
  BY DEF SInv, PInv
<1>2. /\ etc' = etcD /\ etcD' = etcD /\ acme' = acmeD /\ acmeD' = acmeD
      /\ live' = 0 /\ pub' = Idle /\ ren' = Resting /\ UNCHANGED <<lineage, faults>> /\ crashes' = crashes + 1
  BY <1>1, PowerFailDoes
<1>3. /\ Idle.pc = "idle" /\ Idle.op = "none" /\ Idle.owner = "none" /\ Idle.prev = 0 /\ Idle.cand = 0
      /\ Resting.pc = "idle"
  BY DEF Idle, Resting
<1> HIDE DEF Idle, Resting
<1>4. Binds' /\ Losses' /\ Serves'
  BY <1>2, <1>3 DEF Binds, Losses, Serves, Guarded, Unaccepted
<1>5. Durable'
  BY <1>1, <1>2, <1>3 DEF Durable, FirstIsBound, Guarded
<1>6. Bound'
  BY <1>1, <1>2, <1>3, Numbers DEF Bound, Losses
<1>7. Orders'
  BY <1>1, <1>2, <1>3, Numbers DEF Orders, Ordered, Guarded
<1>8. Settled'
  BY <1>1, <1>2, <1>3, Numbers DEF Settled
<1>9. Records'
  <2>1. CASE (crashes + 1 <= 1 /\ faults <= 1) /\ acmeD.renewal = "SUCCESS"
    BY <1>1, <1>2, <1>3, <2>1, Numbers DEF Records, Succeeding, Renewing, Settled, Orders, Ordered, Guarded
  <2>2. CASE ~((crashes + 1 <= 1 /\ faults <= 1) /\ acmeD.renewal = "SUCCESS")
    BY <1>1, <1>2, <1>3, <2>2, Numbers DEF Records, Succeeding, Renewing
  <2> QED
    BY <2>1, <2>2
<1> QED
  BY <1>4, <1>5, <1>6, <1>7, <1>8, <1>9

LEMMA ServingKeeps == SInv /\ [Next]_vars => SInv'
<1> SUFFICES ASSUME SInv, [Next]_vars PROVE SInv'
  OBVIOUS
<1>1. /\ PInv /\ TypeOK /\ Held /\ Publishes /\ Recovers
      /\ Binds /\ Durable /\ Losses /\ Serves /\ Bound /\ Orders /\ Settled /\ Records
  BY DEF SInv, PInv
<1>2. PInv'
  BY <1>1, PublicationKeeps
<1>3. CASE Publisher
  BY <1>3, PublisherServes
<1>4. CASE Renewer
  <2>1. /\ UNCHANGED <<etc, etcD, live, crashes>> /\ Opens
        /\ acme'.receipt = acme.receipt /\ acmeD'.receipt \in {acmeD.receipt, acme.receipt}
        /\ faults' \in Nat /\ faults' >= faults
        /\ faults' = 0 => acmeD' = acme' \/ (acmeD' = acmeD /\ acme' = acme)
        /\ lineage' \in Nat /\ lineage' >= lineage
        /\ pub' = pub \/ pub.pc = "idle"
    BY <1>1, <1>4, RenewerDoes, BoundsAssumption DEF Gen0
  <2>2. Loads /\ crashes' \in Nat /\ crashes' >= crashes
    BY <1>1, <2>1, Numbers DEF Loads
  <2> QED
    BY <1>2, <1>4, <2>1, <2>2, OpensServes, RenewerRecords DEF SInv
<1>5. CASE Elsewise
  <2>1. /\ Opens /\ UNCHANGED <<etc, acme, lineage, faults>>
        /\ etcD' \in {etc, etcD} /\ acmeD' \in {acme, acmeD}
    BY <1>1, <1>5, ElsewiseDoes
  <2>2. /\ Loads /\ crashes' \in Nat /\ crashes' >= crashes
        /\ pub' = pub \/ pub.pc = "idle" \/ crashes' > crashes
        /\ ren'.pc \in {ren.pc, "begin", "idle"}
    BY <1>1, <1>5, ElsewiseServes
  <2>3. faults' \in Nat /\ faults' >= faults /\ lineage' \in Nat /\ lineage' >= lineage
    BY <1>1, <2>1, Numbers
  <2>4. faults' = 0 => acmeD' = acme' \/ (acmeD' = acmeD /\ acme' = acme)
    BY <2>1
  <2>5. acme'.receipt = acme.receipt /\ acmeD'.receipt \in {acmeD.receipt, acme.receipt}
    BY <2>1
  <2>6. Binds' /\ Durable' /\ Losses' /\ Serves' /\ Bound' /\ Orders' /\ Settled'
    BY <2>1, <2>2, <2>3, <2>4, <2>5, OpensServes
  <2>7. pub' = pub \/ pub'.pc \in {"idle", "admit", "recover", "initial"}
    BY <2>1 DEF Opens
  <2>8. Records'
    BY <1>1, <2>1, <2>2, <2>7, Numbers DEF Records, Renewing, Succeeding, Guarded
  <2> QED
    BY <1>2, <2>6, <2>8 DEF SInv
<1>6. CASE PowerFail
  BY <1>2, <1>6, PowerFailServes DEF SInv
<1>7. CASE UNCHANGED vars
  BY <1>1, <1>2, <1>7 DEF vars, SInv, Binds, Durable, FirstIsBound, Losses, Serves, Bound, Orders, Ordered, Settled,
     Records, Succeeding
<1> QED
  BY <1>3, <1>4, <1>5, <1>6, <1>7 DEF Next, Elsewise

LEMMA ServingInitially == Init => SInv
<1> SUFFICES ASSUME Init PROVE SInv
  OBVIOUS
<1>1. PInv
  BY PublicationInitially
<1>2. /\ etc.pem = 0 /\ etc.journal = NoJournal /\ etcD = etc /\ acme.receipt = NoReceipt /\ acme.renewal = "NONE"
      /\ acmeD = acme /\ lineage = 0 /\ live = 0 /\ faults = 0 /\ crashes = 0
      /\ pub.pc = "idle" /\ pub.owner = "none" /\ pub.prev = 0 /\ pub.cand = 0 /\ ren.pc = "idle"
  BY DEF Init, Idle, Resting
<1>3. Binds /\ Losses /\ Serves
  BY <1>2 DEF Binds, Losses, Serves, Guarded, Unaccepted
<1>4. Durable /\ Bound /\ Settled
  BY <1>1, <1>2, Numbers DEF PInv, Durable, FirstIsBound, Bound, Settled, Guarded
<1>5. Orders
  BY <1>2 DEF Orders, Ordered, NoJournal, Guarded
<1>6. Records
  BY <1>2 DEF Records, Renewing, Succeeding
<1> QED
  BY <1>1, <1>3, <1>4, <1>5, <1>6 DEF SInv

\* The receipt, the served certificate and the renewal record agree with the files at every
\* step, up to the failures each clause names.
THEOREM ServingHolds == Spec => []SInv
<1>1. Init => SInv
  BY ServingInitially
<1>2. SInv /\ [Next]_vars => SInv'
  BY ServingKeeps
<1> QED
  BY <1>1, <1>2, PTL DEF Spec

\* deploy() and its compensation: after at most one failure and any number of crashes, HAProxy
\* serves the accepted certificate or one of the two of a publication that is still pending.
THEOREM AcceptedIsServed == Spec => []ServesTheAccepted
<1>1. SInv => ServesTheAccepted
  BY DEF SInv, Serves, ServesTheAccepted
<1> QED
  BY <1>1, ServingHolds, PTL

\* publish() with accept(): once nothing runs and nothing is pending, the receipt is that of the
\* serving file, after any number of crashes without a failure or two failures without a crash.
THEOREM ReceiptIsBound == Spec => []QuietIsBound
<1>1. SInv => QuietIsBound
  BY DEF SInv, PInv, Held, Bound, QuietIsBound, Quiet
<1> QED
  BY <1>1, ServingHolds, PTL

\* renew(): what is recorded as a success is, whatever runs since, about the lineage's current
\* certificate, after any number of failures without a crash or after at most one of each.
THEOREM SuccessStaysCurrent == Spec => []SuccessIsCurrent
<1>1. SInv => SuccessIsCurrent
  BY DEF SInv, Records, Succeeding, SuccessIsCurrent
<1> QED
  BY <1>1, ServingHolds, PTL
=============================================================================
