--------------------------- MODULE HostEnrollment ---------------------------
(***************************************************************************)
(* Host enrollment, scripts/host_enrollment.py: the host's local identity  *)
(* (LocalHost), the Enrollment Authority with its PostgreSQL store and the *)
(* pin file outside the database, and the verifier that authenticates an   *)
(* enrolled host.                                                          *)
(*                                                                         *)
(* Grants and credentials travel over unreliable channels: once made they  *)
(* stay available, so that they can be delayed, repeated and never         *)
(* delivered.  A transaction holds the directory lock and the advisory     *)
(* lock and is one step, but its pin and its commit can come apart;        *)
(* everything the authority or the verifier learns before a transaction    *)
(* (an inspection of the provider, an earlier read) is a step of its own.  *)
(* Keys, machine facts and signatures are ideal: a request or a proof can  *)
(* be made exactly where the identity is usable.                           *)
(***************************************************************************)
EXTENDS Integers, FiniteSets

CONSTANTS
  Proc,        \* calls of the authority and the verifier in progress
  Machine,     \* machines, by machine-id and SSH host key
  Key,         \* host identities: key pair and host_id
  Slot,        \* provider resources that can be enrolled
  NoDir,       \* no local identity directory
  NoDoc,       \* the call holds no document
  Ttl,         \* MAX_GRANT_SECONDS
  Age,         \* MAX_OBSERVATION_AGE
  MaxClock,    \* bound on time
  MaxGrants,   \* bound on issued grants
  MaxInc,      \* bound on provider incarnations of a resource
  MaxRestores  \* bound on database restorations

ASSUME BoundsAssumption ==
  /\ Ttl \in Nat \ {0} /\ Age \in Nat /\ MaxClock \in Nat
  /\ MaxGrants \in Nat /\ MaxInc \in Nat \ {0} /\ MaxRestores \in Nat

VARIABLES
  disk,      \* Machine -> the identity directory on it
  at,        \* Slot -> the machine and the incarnation the provider runs there
  db, pin,   \* the authority's tables, and the tables whose digest is pinned
  restores,  \* restorations so far
  call,      \* per call: what it does next, and what it has read
  issued,    \* history: grants that were ever committed
  enrolled,  \* history: enrollments that were ever committed
  clock

store == <<db, pin, restores>>
vars  == <<disk, at, db, pin, restores, call, issued, enrolled, clock>>

Time == 0 .. MaxClock
Request == [key : Key, machine : Machine, slot : Slot, made : Time]
Purpose == {"enroll", "recover"}
Grant == [id : 1 .. MaxGrants, key : Key, machine : Machine, slot : Slot, made : Time,
          gen : 1 .. MaxGrants, inc : 1 .. MaxInc, purpose : Purpose,
          from : Time, to : 1 .. MaxClock + Ttl]
Local == [key : Key, machine : Machine, slot : Slot, accepted : 0 .. MaxGrants]

Idle == [pc |-> "idle", doc |-> NoDoc, purpose |-> "enroll", inc |-> 0, seen |-> 0]

-----------------------------------------------------------------------------
(* Admission of documents.                                                 *)

\* _grant(): the signed grant is within its lifetime.
Valid(g) == g.from <= clock /\ clock < g.to

\* _request(): neither from the future nor older than a grant may live.
Fresh(r) == r.made <= clock /\ clock - r.made <= Ttl

\* The six fields that bind a grant to a local identity or to a request.
Binds(g, x) == g.key = x.key /\ g.machine = x.machine /\ g.slot = x.slot

\* _metadata(): an identity directory is used on the machine that made it only.
Usable(m) == disk[m] # NoDir /\ disk[m].machine = m

\* admit_management(): the provider runs that machine, and was asked recently.
Management(d, seen) == clock - seen \in 0 .. Age

-----------------------------------------------------------------------------
(* The host: class LocalHost.                                              *)

\* create(): the directory is exclusive and never regenerated.
Create(m, k, s) ==
  /\ disk[m] = NoDir
  /\ \A n \in Machine : disk[n] # NoDir => disk[n].key # k
  /\ disk' = [disk EXCEPT ![m] = [key |-> k, machine |-> m, slot |-> s, accepted |-> 0]]
  /\ UNCHANGED <<at, store, call, issued, enrolled, clock>>

\* request(): made now, from the identity on this machine.
RequestOf(m) == [key |-> disk[m].key, machine |-> m, slot |-> disk[m].slot, made |-> clock]

\* prove() and prove_identity(): some machine can use the key the document names.
Provable(x) == \E m \in Machine : Usable(m) /\ Binds(x, disk[m])

\* Mutant: a second credential is taken like the first one.
AcceptAny(m, g) ==
  /\ Usable(m) /\ Binds(g, disk[m]) /\ Valid(g)
  /\ disk' = [disk EXCEPT ![m].accepted = g.gen]
  /\ UNCHANGED <<at, store, call, issued, enrolled, clock>>

\* accept(): a host that holds an enrollment takes only a newer recovery.
Accept(m, g) ==
  /\ Usable(m) /\ Binds(g, disk[m]) /\ Valid(g)
  /\ disk[m].accepted # 0 => g.purpose = "recover" /\ g.gen > disk[m].accepted
  /\ disk' = [disk EXCEPT ![m].accepted = g.gen]
  /\ UNCHANGED <<at, store, call, issued, enrolled, clock>>

-----------------------------------------------------------------------------
(* The authority's transactions.                                           *)

\* Mutant: the database is trusted as it is found.
IntactAlways == TRUE

\* _transaction(): the tables are those whose digest was pinned.
Intact == pin = db

\* The newest enrollment of a resource, as a set.
Newest(rows, s) ==
  {r \in rows : r.slot = s /\ \A q \in rows : q.slot = s => q.gen <= r.gen}

\* Mutant: a known key may come back with another incarnation.
KeyIsAnyones(x, inc) == TRUE

\* A known key stays with its resource, machine and provider incarnation.
KeyIsFree(x, inc) ==
  \A r \in db.rows : r.key = x.key => r.inc = inc /\ Binds(r, x)

\* _generation(): enroll is for a resource without enrollment, recover for one
\* with; the generation a grant for x gets now, or 0 when it is refused.
Generation(x, purpose, inc) ==
  LET old == Newest(db.rows, x.slot)
  IN  IF (purpose = "enroll") # (old = {}) \/ ~KeyIsFree(x, inc) THEN 0
      ELSE IF old = {} THEN 1 ELSE (CHOOSE r \in old : TRUE).gen + 1

Done(p) == call' = [call EXCEPT ![p] = Idle]

\* _publish(): the pin file is replaced and its directory synchronized.
Publish(new) == pin' = new

\* The end of a write transaction: the new digest is pinned before the commit.  The
\* commit may fail, or the process die between the two: "ambiguity poisons
\* admission rather than silently trusting".
Ends(p, new) ==
  /\ Done(p)
  /\ Publish(new)
  /\ db' \in {db, new}

\* _observe() for a request or a granted request: the provider is inspected and
\* answers which machine and incarnation it runs.
Observed(p, pc, d, purpose) ==
  /\ call[p] = Idle
  /\ at[d.slot].machine = d.machine
  /\ call' = [call EXCEPT ![p] = [pc |-> pc, doc |-> d, purpose |-> purpose,
                                  inc |-> at[d.slot].inc, seen |-> clock]]
  /\ UNCHANGED <<disk, at, store, issued, enrolled, clock>>

\* grant() before its transaction.
GrantObserve(p, m, purpose) ==
  Usable(m) /\ Observed(p, "grant", RequestOf(m), purpose)

\* The transaction of grant(): issues the grant of the next generation.
GrantCommit(p, ttl) ==
  LET c == call[p]
      r == c.doc
      n == Cardinality(issued) + 1
      gen == Generation(r, c.purpose, c.inc)
      g == [id |-> n, key |-> r.key, machine |-> r.machine, slot |-> r.slot, made |-> r.made,
            gen |-> gen, inc |-> c.inc, purpose |-> c.purpose, from |-> clock, to |-> clock + ttl]
  IN  /\ c.pc = "grant" /\ Intact
      /\ n <= MaxGrants /\ gen # 0 /\ Management(r, c.seen)
      /\ Ends(p, [db EXCEPT !.grants = @ \cup {g}])
      /\ issued' = issued \cup db'.grants
      /\ UNCHANGED <<disk, at, restores, enrolled, clock>>

\* consume() before its transaction: the grant is valid, its request still fresh,
\* the proof verifies and the incarnation is the granted one.
ConsumeObserve(p, g) ==
  /\ Valid(g) /\ Provable(g) /\ Fresh(g)
  /\ at[g.slot].inc = g.inc
  /\ Observed(p, "consume", g, g.purpose)

\* The row of the grant is the issued envelope, and not consumed.
NotConsumed(g) == g \in db.grants /\ g \notin db.rows

\* The transaction of consume(): everything is checked again, the certificate is
\* issued and the enrollment inserted.
ConsumeCommit(p) ==
  LET c == call[p]
      g == c.doc
  IN  /\ c.pc = "consume" /\ Intact
      /\ NotConsumed(g)
      /\ Generation(g, g.purpose, c.inc) = g.gen
      /\ Management(g, c.seen) /\ Valid(g)
      /\ Ends(p, [db EXCEPT !.rows = @ \cup {g}])
      /\ enrolled' = enrolled \cup db'.rows
      /\ UNCHANGED <<disk, at, restores, issued, clock>>

\* A precondition fails, a callback raises or the process dies: the transaction,
\* if any, is rolled back.
GiveUp(p) ==
  /\ call[p] # Idle
  /\ Done(p)
  /\ UNCHANGED <<disk, at, store, issued, enrolled, clock>>

-----------------------------------------------------------------------------
(* class EnrollmentVerifier; current_identity() is a read transaction.     *)

Current(g) == Intact /\ g \in Newest(db.rows, g.slot)

\* verify() and authenticate() up to the inspection: the identity is current, and
\* a host proves possession of its key for this challenge.
AuthBegin(p, g, verify) ==
  /\ call[p] = Idle
  /\ verify => Valid(g)
  /\ Current(g)
  /\ Provable(g)
  /\ call' = [call EXCEPT ![p] = [Idle EXCEPT !.pc = "inspect", !.doc = g]]
  /\ UNCHANGED <<disk, at, store, issued, enrolled, clock>>

\* The inspection: the provider runs the registered machine and incarnation.
AuthObserve(p) ==
  LET g == call[p].doc
  IN  /\ call[p].pc = "inspect"
      /\ at[g.slot] = [machine |-> g.machine, inc |-> g.inc]
      /\ call' = [call EXCEPT ![p].pc = "confirm", ![p].inc = g.inc, ![p].seen = clock]
      /\ UNCHANGED <<disk, at, store, issued, enrolled, clock>>

\* Mutant: the first read of the registration is good enough.
AuthConfirmStale(p) ==
  /\ call[p].pc = "confirm"
  /\ Management(call[p].doc, call[p].seen)
  /\ call' = [call EXCEPT ![p].pc = "authenticated"]
  /\ UNCHANGED <<disk, at, store, issued, enrolled, clock>>

\* The final linearization point: the identity is still the current one.
AuthConfirm(p) ==
  /\ call[p].pc = "confirm"
  /\ Current(call[p].doc)
  /\ Management(call[p].doc, call[p].seen)
  /\ call' = [call EXCEPT ![p].pc = "authenticated"]
  /\ UNCHANGED <<disk, at, store, issued, enrolled, clock>>

-----------------------------------------------------------------------------
(* The environment.                                                        *)

\* The provider replaces the machine of a resource, or recreates it from its disk.
Reprovision(s, m) ==
  /\ at[s].inc < MaxInc
  /\ \A t \in Slot \ {s} : at[t].machine # m
  /\ at' = [at EXCEPT ![s] = [machine |-> m, inc |-> at[s].inc + 1]]
  /\ UNCHANGED <<disk, store, call, issued, enrolled, clock>>

\* A directory is copied to another machine.
Copy(m, n) ==
  /\ disk[m] # NoDir /\ disk[n] = NoDir
  /\ disk' = [disk EXCEPT ![n] = disk[m]]
  /\ UNCHANGED <<at, store, call, issued, enrolled, clock>>

\* The database is restored to earlier tables; the pin file "is deliberately outside
\* the database restoration domain".
Restore(n, r) ==
  /\ restores < MaxRestores /\ restores' = restores + 1
  /\ db' = [grants |-> {g \in db.grants : g.id <= n}, rows |-> {g \in db.rows : g.id <= r}]
  /\ db' # db
  /\ UNCHANGED <<disk, at, pin, call, issued, enrolled, clock>>

Tick ==
  /\ clock < MaxClock
  /\ clock' = clock + 1
  /\ UNCHANGED <<disk, at, store, call, issued, enrolled>>

-----------------------------------------------------------------------------
NoTables == [grants |-> {}, rows |-> {}]

\* initialize_authority_store() has run: the schema and its pin exist.
Init ==
  /\ disk = [m \in Machine |-> NoDir]
  /\ at \in [Slot -> [machine : Machine, inc : {1}]]
  /\ \A s, t \in Slot : at[s].machine = at[t].machine => s = t
  /\ db = NoTables /\ pin = NoTables /\ restores = 0
  /\ call = [p \in Proc |-> Idle]
  /\ issued = {} /\ enrolled = {}
  /\ clock = 0

Host ==
  \/ \E m \in Machine, k \in Key, s \in Slot : Create(m, k, s)
  \/ \E m \in Machine, g \in enrolled : Accept(m, g)
  \/ \E m, n \in Machine : Copy(m, n)

Authority ==
  \/ \E p \in Proc, m \in Machine, u \in Purpose : GrantObserve(p, m, u)
  \/ \E p \in Proc, t \in 1 .. Ttl : GrantCommit(p, t)
  \/ \E p \in Proc, g \in issued : ConsumeObserve(p, g)
  \/ \E p \in Proc : ConsumeCommit(p) \/ GiveUp(p)

Verifier ==
  \/ \E p \in Proc, g \in enrolled, v \in BOOLEAN : AuthBegin(p, g, v)
  \/ \E p \in Proc : AuthObserve(p) \/ AuthConfirm(p)

Next ==
  \/ Host \/ Authority \/ Verifier
  \/ \E s \in Slot, m \in Machine : Reprovision(s, m)
  \/ \E n, r \in 0 .. MaxGrants : r <= n /\ Restore(n, r)
  \/ Tick

Spec == Init /\ [][Next]_vars

-----------------------------------------------------------------------------
(* Properties.                                                             *)

\* Every variable has its type.
TypeOK ==
  /\ disk \in [Machine -> Local \cup {NoDir}]
  /\ at \in [Slot -> [machine : Machine, inc : 1 .. MaxInc]]
  /\ db.grants \subseteq issued /\ db.rows \subseteq enrolled
  /\ issued \subseteq Grant /\ enrolled \subseteq issued
  /\ \A p \in Proc : call[p].doc \in Request \cup Grant \cup {NoDoc} /\ call[p].seen \in Time
  /\ clock \in Time

\* "a grant is consumed once": over its whole history, and although its database
\* can be restored to an earlier state, the authority enrolls at most one identity
\* per resource and generation.
OneIdentityPerGeneration ==
  \A g, h \in enrolled : g.slot = h.slot /\ g.gen = h.gen => g = h

\* "A known key cannot migrate to another resource/machine/host identity": a key
\* enrolls one machine in one incarnation, across copies of its directory,
\* recreated machines, crossing grants and recoveries.
KeyStaysBound ==
  \A g, h \in enrolled : g.key = h.key => Binds(g, h) /\ g.inc = h.inc

\* "The fresh current-registration read is the final generation linearization
\* point": who is authenticated is the newest enrollment that was ever committed
\* for its resource, whatever recovered or was restored during the verification.
AuthenticatedIsCurrent ==
  [][\A p \in Proc : call[p].pc = "confirm" /\ call'[p].pc = "authenticated" =>
       call[p].doc \in Newest(enrolled, call[p].doc.slot)]_vars

\* A host never falls back to an older enrollment while it keeps its directory,
\* although old credentials stay deliverable.
AcceptedMovesForward ==
  [][\A m \in Machine :
       disk[m] # NoDir /\ disk'[m] # NoDir => disk'[m].accepted >= disk[m].accepted]_vars
=============================================================================
