------------------------ MODULE HostEnrollmentProofs ------------------------
(***************************************************************************)
(* Proofs about HostEnrollment for every set of calls, machines, keys and  *)
(* resources and for every bound.                                          *)
(***************************************************************************)
EXTENDS HostEnrollment, FiniteSetTheorems, TLAPS

-----------------------------------------------------------------------------
(* The inductive invariant.                                                *)

Tables == [grants : SUBSET Grant, rows : SUBSET Grant]
CallRecord ==
  [pc : {"idle", "grant", "consume", "inspect", "confirm", "authenticated"},
   doc : Request \cup Grant \cup {NoDoc}, purpose : Purpose, inc : 0 .. MaxInc, seen : Time]

Types ==
  /\ disk \in [Machine -> Local \cup {NoDir}]
  /\ at \in [Slot -> [machine : Machine, inc : 1 .. MaxInc]]
  /\ db \in Tables /\ pin \in Tables
  /\ call \in [Proc -> CallRecord]
  /\ clock \in Time

\* A call holds the document that its next transaction needs.
CallsFit ==
  \A p \in Proc :
    /\ call[p].pc = "grant" => call[p].doc \in Request /\ call[p].inc # 0
    /\ call[p].pc = "consume" => call[p].doc \in issued /\ call[p].inc = call[p].doc.inc
    /\ call[p].pc \in {"inspect", "confirm", "authenticated"} => call[p].doc \in enrolled

\* The histories contain the tables, and a database that agrees with its pin has
\* forgotten nothing.
History ==
  /\ db.grants \subseteq issued /\ db.rows \subseteq enrolled
  /\ enrolled \subseteq issued /\ issued \subseteq Grant
  /\ IsFiniteSet(issued)
  /\ Intact => db.grants = issued /\ db.rows = enrolled

\* What is pinned is never behind the database: a database that differs from its pin
\* has lost something, and no restoration brings it back.
PinIsAhead == db.grants \subseteq pin.grants /\ db.rows \subseteq pin.rows

\* Grants are numbered, and generations do not outrun them.
Numbered == \A g \in issued : g.gen <= g.id /\ g.id <= Cardinality(issued)

\* A resource with enrollments has a newest one.
NewestExists == \A g \in enrolled : Newest(enrolled, g.slot) # {}

IInv ==
  /\ Types
  /\ CallsFit
  /\ History
  /\ PinIsAhead
  /\ Numbered
  /\ NewestExists
  /\ OneIdentityPerGeneration
  /\ KeyStaysBound

-----------------------------------------------------------------------------
(* Lemmas.                                                                 *)

LEMMA IdleIsACall == Idle \in CallRecord
BY BoundsAssumption DEF Idle, CallRecord, Purpose, Time

\* The generation of a grant is behind every enrollment of its resource, and its key
\* is new or stays where it was enrolled.
LEMMA GenerationIsNew ==
  ASSUME Types, History, Numbered, NewestExists, Intact,
         NEW x, NEW u, NEW i, Generation(x, u, i) # 0
  PROVE  /\ Generation(x, u, i) \in 1 .. Cardinality(issued) + 1
         /\ \A r \in enrolled : r.slot = x.slot => r.gen < Generation(x, u, i)
         /\ \A r \in enrolled : r.key = x.key => r.inc = i /\ Binds(r, x)
<1> DEFINE old == Newest(enrolled, x.slot)
<1>1. db.rows = enrolled /\ enrolled \subseteq issued /\ issued \subseteq Grant
  BY DEF History
<1>2. Cardinality(issued) \in Nat
  BY FS_CardinalityType DEF History
<1>3. KeyIsFree(x, i) /\ Generation(x, u, i) = IF old = {} THEN 1 ELSE (CHOOSE r \in old : TRUE).gen + 1
  BY <1>1 DEF Generation
<1>4. \A r \in enrolled : r.gen \in Nat
  BY <1>1, BoundsAssumption DEF Grant
<1>5. CASE old = {}
  <2>1. \A r \in enrolled : r.slot # x.slot
    BY <1>5 DEF NewestExists
  <2> QED BY <1>1, <1>2, <1>3, <1>5, <2>1 DEF KeyIsFree
<1>6. CASE old # {}
  <2> DEFINE n == CHOOSE r \in old : TRUE
  <2>1. n \in old
    BY <1>6
  <2>2. n \in enrolled /\ \A r \in enrolled : r.slot = x.slot => r.gen <= n.gen
    BY <2>1 DEF Newest
  <2>3. n.gen \in Nat /\ n.id \in Nat /\ n.gen <= n.id /\ n.id <= Cardinality(issued)
    BY <2>2, <1>1, BoundsAssumption DEF Numbered, Grant
  <2>4. Generation(x, u, i) = n.gen + 1
    BY <1>3, <1>6
  <2> HIDE DEF n, old
  <2>5. Generation(x, u, i) \in 1 .. Cardinality(issued) + 1
    BY <2>3, <2>4, <1>2
  <2>6. \A r \in enrolled : r.slot = x.slot => r.gen < Generation(x, u, i)
    BY <2>2, <2>3, <2>4, <1>4
  <2> QED BY <1>1, <1>3, <2>5, <2>6 DEF KeyIsFree
<1> QED BY <1>5, <1>6

\* A step that leaves the store and the histories alone.
LEMMA StoreUnchanged ==
  ASSUME IInv, Types', CallsFit', UNCHANGED <<db, pin, issued, enrolled>>
  PROVE  IInv'
BY DEF IInv, History, Intact, PinIsAhead, Numbered, NewestExists, Newest,
       OneIdentityPerGeneration, KeyStaysBound, Binds

-----------------------------------------------------------------------------
(* Every action keeps the invariant.                                       *)

LEMMA InvInit == Init => IInv
<1> SUFFICES ASSUME Init PROVE IInv
  OBVIOUS
<1>1. Types
  <2>1. call \in [Proc -> CallRecord]
    BY IdleIsACall DEF Init
  <2>2. db \in Tables /\ pin \in Tables
    BY DEF Init, NoTables, Tables
  <2>3. at \in [Slot -> [machine : Machine, inc : 1 .. MaxInc]] /\ clock \in Time
    BY BoundsAssumption DEF Init, Time
  <2> QED BY <2>1, <2>2, <2>3 DEF Types, Init
<1>2. CallsFit
  BY DEF CallsFit, Init, Idle
<1>3. History /\ PinIsAhead /\ Numbered
  BY FS_EmptySet DEF History, PinIsAhead, Numbered, Init, NoTables, Intact
<1>4. NewestExists /\ OneIdentityPerGeneration /\ KeyStaysBound
  BY DEF Init, NewestExists, OneIdentityPerGeneration, KeyStaysBound
<1> QED BY <1>1, <1>2, <1>3, <1>4 DEF IInv

LEMMA HostKeeps == ASSUME IInv, Host PROVE IInv'
<1>1. UNCHANGED <<at, db, pin, call, issued, enrolled, clock>>
  BY DEF Host, Create, Accept, Copy, store
<1>2. disk' \in [Machine -> Local \cup {NoDir}]
  <2>0. disk \in [Machine -> Local \cup {NoDir}] /\ enrolled \subseteq Grant
    BY DEF IInv, Types, History
  <2>1. CASE \E m \in Machine, k \in Key, s \in Slot : Create(m, k, s)
    BY <2>0, <2>1, BoundsAssumption DEF Create, Local
  <2>2. ASSUME NEW m \in Machine, NEW g \in enrolled, Accept(m, g)
        PROVE  disk' \in [Machine -> Local \cup {NoDir}]
    <3>1. disk[m] \in Local /\ g.gen \in 0 .. MaxGrants
      BY <2>0, <2>2, BoundsAssumption DEF Accept, Usable, Grant
    <3>2. [disk[m] EXCEPT !.accepted = g.gen] \in Local
      BY <3>1 DEF Local
    <3> QED BY <2>0, <2>2, <3>2 DEF Accept
  <2>3. CASE \E m, n \in Machine : Copy(m, n)
    BY <2>0, <2>3 DEF Copy
  <2> QED BY <2>1, <2>2, <2>3 DEF Host
<1>3. Types' /\ CallsFit'
  BY <1>1, <1>2 DEF IInv, Types, CallsFit
<1> QED BY <1>1, <1>3, StoreUnchanged

\* A call that becomes c, with everything else as it is.
LEMMA CallKeeps ==
  ASSUME IInv, NEW p \in Proc, NEW c \in CallRecord, call' = [call EXCEPT ![p] = c],
         c.pc = "grant" => c.doc \in Request /\ c.inc # 0,
         c.pc = "consume" => c.doc \in issued /\ c.inc = c.doc.inc,
         c.pc \in {"inspect", "confirm", "authenticated"} => c.doc \in enrolled,
         UNCHANGED <<disk, at, db, pin, issued, enrolled, clock>>
  PROVE  IInv'
<1>1. call \in [Proc -> CallRecord] /\ CallsFit
  BY DEF IInv, Types
<1>2. call' \in [Proc -> CallRecord] /\ call'[p] = c /\ \A q \in Proc \ {p} : call'[q] = call[q]
  BY <1>1
<1>3. Types'
  BY <1>2 DEF IInv, Types
<1>4. CallsFit'
  BY <1>1, <1>2 DEF CallsFit
<1> QED BY <1>3, <1>4, StoreUnchanged

LEMMA ObservedKeeps ==
  ASSUME IInv, NEW p \in Proc, NEW u \in Purpose, NEW d, NEW l,
         \/ l = "grant" /\ d \in Request
         \/ l = "consume" /\ d \in issued /\ at[d.slot].inc = d.inc,
         Observed(p, l, d, u)
  PROVE  IInv'
<1>1. d \in Request \cup Grant /\ d.slot \in Slot
  BY DEF IInv, History, Request, Grant
<1>2. at[d.slot].inc \in 1 .. MaxInc /\ clock \in Time
  BY <1>1 DEF IInv, Types
<1> DEFINE c == [pc |-> l, doc |-> d, purpose |-> u, inc |-> at[d.slot].inc, seen |-> clock]
<1>3. c \in CallRecord /\ c.inc # 0 /\ c.inc = at[d.slot].inc /\ c.pc = l /\ c.doc = d
  BY <1>1, <1>2, BoundsAssumption DEF CallRecord
<1>4. call' = [call EXCEPT ![p] = c] /\ UNCHANGED <<disk, at, db, pin, issued, enrolled, clock>>
  BY DEF Observed, store
<1> HIDE DEF c
<1> QED BY <1>3, <1>4, CallKeeps

LEMMA GiveUpKeeps == ASSUME IInv, NEW p \in Proc, GiveUp(p) PROVE IInv'
BY IdleIsACall, CallKeeps DEF GiveUp, Done, Idle, store

LEMMA AuthKeeps == ASSUME IInv, Verifier PROVE IInv'
<1>0. call \in [Proc -> CallRecord] /\ clock \in Time /\ enrolled \subseteq Grant
  BY DEF IInv, Types, History
<1>1. ASSUME NEW p \in Proc, NEW g \in enrolled, NEW v \in BOOLEAN, AuthBegin(p, g, v) PROVE IInv'
  <2> DEFINE c == [Idle EXCEPT !.pc = "inspect", !.doc = g]
  <2>1. c \in CallRecord /\ c.pc = "inspect" /\ c.doc = g
    BY <1>0, IdleIsACall DEF CallRecord
  <2>2. call' = [call EXCEPT ![p] = c] /\ UNCHANGED <<disk, at, db, pin, issued, enrolled, clock>>
    BY <1>1 DEF AuthBegin, store
  <2> HIDE DEF c
  <2> QED BY <2>1, <2>2, CallKeeps
<1>2. ASSUME NEW p \in Proc, AuthObserve(p) PROVE IInv'
  <2> DEFINE c == [call[p] EXCEPT !.pc = "confirm", !.inc = call[p].doc.inc, !.seen = clock]
  <2>1. call[p].doc \in enrolled /\ call[p].doc.inc \in 0 .. MaxInc
    BY <1>0, <1>2, BoundsAssumption DEF IInv, CallsFit, AuthObserve, Grant
  <2>2. c \in CallRecord /\ c.pc = "confirm" /\ c.doc \in enrolled
    BY <1>0, <2>1 DEF CallRecord
  <2>3. call' = [call EXCEPT ![p] = c] /\ UNCHANGED <<disk, at, db, pin, issued, enrolled, clock>>
    BY <1>0, <1>2 DEF AuthObserve, store, CallRecord
  <2> HIDE DEF c
  <2> QED BY <2>2, <2>3, CallKeeps
<1>3. ASSUME NEW p \in Proc, AuthConfirm(p) PROVE IInv'
  <2> DEFINE c == [call[p] EXCEPT !.pc = "authenticated"]
  <2>1. call[p].doc \in enrolled
    BY <1>3 DEF IInv, CallsFit, AuthConfirm
  <2>2. c \in CallRecord /\ c.pc = "authenticated" /\ c.doc \in enrolled
    BY <1>0, <2>1 DEF CallRecord
  <2>3. call' = [call EXCEPT ![p] = c] /\ UNCHANGED <<disk, at, db, pin, issued, enrolled, clock>>
    BY <1>3 DEF AuthConfirm, store
  <2> HIDE DEF c
  <2> QED BY <2>2, <2>3, CallKeeps
<1> QED BY <1>1, <1>2, <1>3 DEF Verifier

LEMMA GrantCommitKeeps ==
  ASSUME IInv, NEW p \in Proc, NEW t \in 1 .. Ttl, GrantCommit(p, t)
  PROVE  IInv'
<1> DEFINE c == call[p]
           n == Cardinality(issued) + 1
           gen == Generation(c.doc, c.purpose, c.inc)
           g == [id |-> n, key |-> c.doc.key, machine |-> c.doc.machine, slot |-> c.doc.slot,
                 made |-> c.doc.made, gen |-> gen, inc |-> c.inc, purpose |-> c.purpose,
                 from |-> clock, to |-> clock + t]
           new == [db EXCEPT !.grants = @ \cup {g}]
<1>1. /\ c.pc = "grant" /\ Intact /\ n <= MaxGrants /\ gen # 0
      /\ call' = [call EXCEPT ![p] = Idle] /\ pin' = new /\ db' \in {db, new}
      /\ issued' = issued \cup db'.grants
      /\ UNCHANGED <<disk, at, restores, enrolled, clock>>
  BY DEF GrantCommit, Ends, Done, Publish
<1>2. Types /\ CallsFit /\ History /\ Numbered /\ NewestExists
  BY DEF IInv
<1>3. Cardinality(issued) \in Nat /\ n \in 1 .. MaxGrants
  BY <1>1, <1>2, FS_CardinalityType, BoundsAssumption DEF History
<1>4. gen \in 1 .. n
  BY <1>1, <1>2, GenerationIsNew
<1>5. c \in CallRecord /\ c.doc \in Request /\ c.inc \in 1 .. MaxInc /\ clock \in Time
  BY <1>1, <1>2 DEF Types, CallsFit, CallRecord
<1>6. g \in Grant
  <2>1. gen \in 1 .. MaxGrants
    BY <1>3, <1>4, BoundsAssumption
  <2>2. clock + t \in 1 .. MaxClock + Ttl
    BY <1>5, BoundsAssumption DEF Time
  <2>3. c.purpose \in Purpose
    BY <1>5 DEF CallRecord
  <2> HIDE DEF c, gen, n
  <2> QED BY <1>3, <1>5, <2>1, <2>2, <2>3 DEF Grant, Request
<1>7. g.id = n /\ g.gen = gen
  OBVIOUS
<1> HIDE DEF g, gen, n
<1>8. new \in Tables /\ new.grants = db.grants \cup {g} /\ new.rows = db.rows
  BY <1>2, <1>6 DEF Types, Tables
<1> HIDE DEF new
<1>9. db \in Tables /\ db.grants = issued /\ db.rows = enrolled
  BY <1>1, <1>2 DEF Types, History
<1>10. issued' = issued \/ issued' = issued \cup {g}
  BY <1>1, <1>8, <1>9
<1>11. Types' /\ CallsFit'
  <2>1. Types'
    BY <1>1, <1>2, <1>8, IdleIsACall DEF Types
  <2>2. CallsFit'
    BY <1>1, <1>2, <1>10 DEF Types, CallsFit, Idle
  <2> QED BY <2>1, <2>2
<1>12. History'
  <2>1. IsFiniteSet(issued')
    BY <1>2, <1>10, FS_AddElement DEF History
  <2>2. issued' \subseteq Grant /\ enrolled' \subseteq issued'
    BY <1>1, <1>2, <1>6, <1>10 DEF History
  <2>3. db'.grants \subseteq issued' /\ db'.rows \subseteq enrolled'
    BY <1>1, <1>8, <1>9
  <2>4. Intact' => db'.grants = issued' /\ db'.rows = enrolled'
    BY <1>1, <1>8, <1>9 DEF Intact
  <2> QED BY <2>1, <2>2, <2>3, <2>4 DEF History
<1>13. PinIsAhead'
  BY <1>1, <1>8 DEF PinIsAhead
<1>14. Numbered'
  <2>1. CASE issued' = issued
    BY <2>1, <1>2 DEF Numbered
  <2>2. CASE issued' = issued \cup {g} /\ g \notin issued
    <3>1. Cardinality(issued') = n
      BY <2>2, <1>2, FS_AddElement DEF History, n
    <3>2. \A h \in issued : h.gen \in Nat /\ h.id \in Nat /\ h.gen <= h.id /\ h.id <= n
      BY <1>2, <1>3, BoundsAssumption DEF Numbered, History, Grant, n
    <3> QED BY <2>2, <3>1, <3>2, <1>3, <1>4, <1>7 DEF Numbered
  <2> QED BY <1>10, <2>1, <2>2
<1>15. NewestExists' /\ OneIdentityPerGeneration' /\ KeyStaysBound'
  BY <1>1 DEF IInv, NewestExists, Newest, OneIdentityPerGeneration, KeyStaysBound, Binds
<1> QED BY <1>11, <1>12, <1>13, <1>14, <1>15 DEF IInv

LEMMA ConsumeCommitKeeps ==
  ASSUME IInv, NEW p \in Proc, ConsumeCommit(p)
  PROVE  IInv'
<1> DEFINE c == call[p]
           g == c.doc
           new == [db EXCEPT !.rows = @ \cup {g}]
<1>1. /\ c.pc = "consume" /\ Intact /\ g \in db.grants /\ Generation(g, g.purpose, c.inc) = g.gen
      /\ call' = [call EXCEPT ![p] = Idle] /\ pin' = new /\ db' \in {db, new}
      /\ enrolled' = enrolled \cup db'.rows
      /\ UNCHANGED <<disk, at, restores, issued, clock>>
  BY DEF ConsumeCommit, NotConsumed, Ends, Done, Publish
<1>2. Types /\ CallsFit /\ History /\ Numbered /\ NewestExists
  BY DEF IInv
<1>3. g \in issued /\ issued \subseteq Grant /\ enrolled \subseteq issued
  BY <1>1, <1>2 DEF History
<1>4. g.gen # 0
  BY <1>3, BoundsAssumption DEF Grant
<1>5. /\ \A r \in enrolled : r.slot = g.slot => r.gen < g.gen
      /\ \A r \in enrolled : r.key = g.key => r.inc = c.inc /\ Binds(r, g)
  BY <1>1, <1>2, <1>4, GenerationIsNew
<1>6. new \in Tables /\ new.grants = db.grants /\ new.rows = db.rows \cup {g}
  BY <1>2, <1>3 DEF Types, Tables
<1>7. c.inc = g.inc /\ db \in Tables /\ db.grants = issued /\ db.rows = enrolled
  BY <1>1, <1>2 DEF Types, History, CallsFit
<1>8. /\ \A r \in enrolled : r.key = g.key => r.inc = g.inc /\ Binds(r, g)
      /\ \A r \in enrolled : r.gen \in Nat
      /\ g.gen \in Nat
  BY <1>3, <1>5, <1>7, BoundsAssumption DEF Grant
<1> HIDE DEF new, g
<1>9. enrolled' = enrolled \/ enrolled' = enrolled \cup {g}
  BY <1>1, <1>6, <1>7
<1>10. Types' /\ CallsFit'
  <2>1. Types'
    BY <1>1, <1>2, <1>6, IdleIsACall DEF Types
  <2>2. CallsFit'
    BY <1>1, <1>2, <1>9 DEF Types, CallsFit, Idle
  <2> QED BY <2>1, <2>2
<1>11. History' /\ PinIsAhead'
  <2>1. issued' = issued /\ IsFiniteSet(issued') /\ enrolled' \subseteq issued' /\ issued' \subseteq Grant
    BY <1>1, <1>2, <1>3, <1>9 DEF History
  <2>2. db'.grants \subseteq issued' /\ db'.rows \subseteq enrolled'
    BY <1>1, <1>6, <1>7
  <2>3. Intact' => db'.grants = issued' /\ db'.rows = enrolled'
    BY <1>1, <1>6, <1>7 DEF Intact
  <2>4. PinIsAhead'
    BY <1>1, <1>6 DEF PinIsAhead
  <2> QED BY <2>1, <2>2, <2>3, <2>4 DEF History
<1>12. Numbered'
  BY <1>1, <1>2 DEF Numbered
<1>13. CASE enrolled' = enrolled
  BY <1>10, <1>11, <1>12, <1>13
     DEF IInv, NewestExists, Newest, OneIdentityPerGeneration, KeyStaysBound, Binds
<1>14. CASE enrolled' = enrolled \cup {g}
  <2>1. NewestExists'
    <3> SUFFICES ASSUME NEW h \in enrolled' PROVE Newest(enrolled', h.slot) # {}
      BY DEF NewestExists
    <3>1. CASE h.slot = g.slot
      <4>1. g \in Newest(enrolled', g.slot)
        BY <1>5, <1>8, <1>14 DEF Newest
      <4> QED BY <3>1, <4>1
    <3>2. CASE h.slot # g.slot
      <4>1. h \in enrolled /\ Newest(enrolled, h.slot) # {}
        BY <1>2, <1>14, <3>2 DEF NewestExists
      <4>2. PICK r \in enrolled : r.slot = h.slot /\ \A q \in enrolled : q.slot = h.slot => q.gen <= r.gen
        BY <4>1 DEF Newest
      <4>3. r \in Newest(enrolled', h.slot)
        BY <1>14, <3>2, <4>2 DEF Newest
      <4> QED BY <4>3
    <3> QED BY <3>1, <3>2
  <2>2. OneIdentityPerGeneration'
    BY <1>5, <1>8, <1>14 DEF IInv, OneIdentityPerGeneration
  <2>3. KeyStaysBound'
    BY <1>8, <1>14 DEF IInv, KeyStaysBound, Binds
  <2> QED BY <1>10, <1>11, <1>12, <2>1, <2>2, <2>3 DEF IInv
<1> QED BY <1>9, <1>13, <1>14

LEMMA RestoreKeeps ==
  ASSUME IInv, NEW n \in 0 .. MaxGrants, NEW r \in 0 .. MaxGrants, Restore(n, r)
  PROVE  IInv'
<1>1. /\ UNCHANGED <<disk, at, pin, call, issued, enrolled, clock>>
      /\ db' # db
      /\ db' = [grants |-> {g \in db.grants : g.id <= n}, rows |-> {g \in db.rows : g.id <= r}]
  BY DEF Restore
<1>2. db \in Tables /\ pin \in Tables /\ History /\ PinIsAhead
  BY DEF IInv, Types
<1>3. db' \in Tables /\ db'.grants \subseteq db.grants /\ db'.rows \subseteq db.rows
  BY <1>1, <1>2 DEF Tables
<1>4. ~Intact'
  <2> SUFFICES ASSUME pin = db' PROVE FALSE
    BY <1>1 DEF Intact
  <2>1. db'.grants = db.grants /\ db'.rows = db.rows
    BY <1>2, <1>3 DEF PinIsAhead
  <2> QED BY <1>1, <1>2, <1>3, <2>1 DEF Tables
<1>5. Types' /\ CallsFit'
  BY <1>1, <1>3 DEF IInv, Types, CallsFit
<1>6. History' /\ PinIsAhead'
  BY <1>1, <1>2, <1>3, <1>4 DEF History, PinIsAhead
<1>7. Numbered' /\ NewestExists' /\ OneIdentityPerGeneration' /\ KeyStaysBound'
  BY <1>1 DEF IInv, Numbered, NewestExists, Newest, OneIdentityPerGeneration, KeyStaysBound, Binds
<1> QED BY <1>5, <1>6, <1>7 DEF IInv

LEMMA AuthorityKeeps == ASSUME IInv, Authority PROVE IInv'
<1>1. ASSUME NEW p \in Proc, NEW m \in Machine, NEW u \in Purpose, GrantObserve(p, m, u) PROVE IInv'
  <2>1. disk[m] \in Local /\ clock \in Time
    BY <1>1 DEF GrantObserve, Usable, IInv, Types
  <2>2. RequestOf(m) \in Request
    BY <2>1 DEF RequestOf, Request, Local
  <2> QED BY <1>1, <2>2, ObservedKeeps DEF GrantObserve
<1>2. ASSUME NEW p \in Proc, NEW g \in issued, ConsumeObserve(p, g) PROVE IInv'
  <2>1. g.purpose \in Purpose
    BY DEF IInv, History, Grant
  <2> QED BY <1>2, <2>1, ObservedKeeps DEF ConsumeObserve
<1> QED BY <1>1, <1>2, GrantCommitKeeps, ConsumeCommitKeeps, GiveUpKeeps DEF Authority

LEMMA EnvironmentKeeps ==
  ASSUME IInv, (\E s \in Slot, m \in Machine : Reprovision(s, m)) \/ Tick
  PROVE  IInv'
<1>1. UNCHANGED <<disk, db, pin, call, issued, enrolled>>
  BY DEF Reprovision, Tick, store
<1>2. at' \in [Slot -> [machine : Machine, inc : 1 .. MaxInc]] /\ clock' \in Time
  BY BoundsAssumption DEF IInv, Types, Reprovision, Tick, Time
<1>3. Types' /\ CallsFit'
  BY <1>1, <1>2 DEF IInv, Types, CallsFit
<1> QED BY <1>1, <1>3, StoreUnchanged

LEMMA InvNext == IInv /\ [Next]_vars => IInv'
<1> SUFFICES ASSUME IInv, [Next]_vars PROVE IInv'
  OBVIOUS
<1>1. CASE UNCHANGED vars
  <2>1. Types' /\ CallsFit' /\ UNCHANGED <<db, pin, issued, enrolled>>
    BY <1>1 DEF vars, IInv, Types, CallsFit
  <2> QED BY <2>1, StoreUnchanged
<1> QED
  BY <1>1, HostKeeps, AuthorityKeeps, AuthKeeps, RestoreKeeps, EnvironmentKeeps DEF Next

-----------------------------------------------------------------------------
(* Theorems.                                                               *)

LEMMA Invariance == Spec => []IInv
BY InvInit, InvNext, PTL DEF Spec

\* Every call of the host, the authority and the verifier keeps the variables in
\* their types and the tables inside what was ever committed.
THEOREM TypeCorrect == Spec => []TypeOK
<1>1. IInv => TypeOK
  BY DEF IInv, Types, History, CallRecord, TypeOK
<1> QED BY <1>1, Invariance, PTL

\* grant(), consume() and any restoration of the database: one identity per resource
\* and generation, over everything that was ever committed.
THEOREM GenerationsAreUnique == Spec => []OneIdentityPerGeneration
<1>1. IInv => OneIdentityPerGeneration
  BY DEF IInv
<1> QED BY <1>1, Invariance, PTL

\* _generation(): a key that was ever enrolled stays with its resource, machine and
\* provider incarnation.
THEOREM KeysStayBound == Spec => []KeyStaysBound
<1>1. IInv => KeyStaysBound
  BY DEF IInv
<1> QED BY <1>1, Invariance, PTL

LEMMA ConfirmIsCurrent ==
  ASSUME IInv, Next, NEW p \in Proc, call[p].pc = "confirm", call'[p].pc = "authenticated"
  PROVE  call[p].doc \in Newest(enrolled, call[p].doc.slot)
<1>0. call \in [Proc -> CallRecord] /\ History
  BY DEF IInv, Types
<1>1. \E q \in Proc : AuthConfirm(q) /\ q = p
  <2>1. CASE Host \/ (\E s \in Slot, m \in Machine : Reprovision(s, m)) \/ Tick
             \/ \E n, r \in 0 .. MaxGrants : r <= n /\ Restore(n, r)
    BY <2>1 DEF Host, Create, Accept, Copy, Reprovision, Tick, Restore
  <2>2. CASE Authority
    <3>1. ASSUME NEW q \in Proc, NEW c, call' = [call EXCEPT ![q] = c],
                 c.pc \in {"idle", "grant", "consume"}
          PROVE  FALSE
      BY <1>0, <3>1
    <3>2. ASSUME NEW q \in Proc, NEW l \in {"grant", "consume"}, NEW d, NEW u, Observed(q, l, d, u)
          PROVE  FALSE
      BY <3>1, <3>2 DEF Observed
    <3>3. ASSUME NEW q \in Proc, Done(q) PROVE FALSE
      BY <3>1, <3>3 DEF Done, Idle
    <3> QED BY <2>2, <3>2, <3>3 DEF Authority, GrantObserve, ConsumeObserve, GrantCommit,
                                    ConsumeCommit, Ends, GiveUp
  <2>3. CASE Verifier
    <3>1. ASSUME NEW q \in Proc, NEW g \in enrolled, NEW v \in BOOLEAN, AuthBegin(q, g, v) PROVE FALSE
      BY <1>0, <3>1 DEF AuthBegin, Idle
    <3>2. ASSUME NEW q \in Proc, AuthObserve(q) PROVE FALSE
      BY <1>0, <3>2 DEF AuthObserve, CallRecord
    <3>3. ASSUME NEW q \in Proc, AuthConfirm(q) PROVE q = p
      BY <1>0, <3>3 DEF AuthConfirm, CallRecord
    <3> QED BY <2>3, <3>1, <3>2, <3>3 DEF Verifier
  <2> QED BY <2>1, <2>2, <2>3 DEF Next
<1>2. Intact /\ call[p].doc \in Newest(db.rows, call[p].doc.slot)
  BY <1>1 DEF AuthConfirm, Current
<1> QED BY <1>0, <1>2 DEF History

\* EnrollmentVerifier: the identity that the last read confirms is the newest that was
\* ever committed, although the database may have been restored during the call.
THEOREM AuthenticationIsCurrent == Spec => AuthenticatedIsCurrent
<1>1. IInv /\ [Next]_vars =>
        [\A p \in Proc : call[p].pc = "confirm" /\ call'[p].pc = "authenticated" =>
           call[p].doc \in Newest(enrolled, call[p].doc.slot)]_vars
  BY ConfirmIsCurrent
<1> QED BY <1>1, Invariance, PTL DEF Spec, AuthenticatedIsCurrent

LEMMA AcceptMovesForward ==
  ASSUME IInv, Next, NEW m \in Machine, disk[m] # NoDir, disk'[m] # NoDir
  PROVE  disk'[m].accepted >= disk[m].accepted
<1>0. /\ disk \in [Machine -> Local \cup {NoDir}] /\ enrolled \subseteq Grant
      /\ disk[m].accepted \in Nat
  <2>1. disk \in [Machine -> Local \cup {NoDir}] /\ enrolled \subseteq Grant
    BY DEF IInv, Types, History
  <2> QED BY <2>1, BoundsAssumption DEF Local
<1>1. ASSUME NEW n \in Machine, NEW g \in enrolled, Accept(n, g)
      PROVE  disk'[m].accepted >= disk[m].accepted
  <2>1. g.gen \in Nat /\ (disk[n].accepted # 0 => g.gen > disk[n].accepted)
    BY <1>0, <1>1, BoundsAssumption DEF Accept, Grant
  <2>2. CASE n = m
    <3>1. disk[m] \in Local /\ disk'[m] = [disk[m] EXCEPT !.accepted = g.gen]
      BY <1>0, <1>1, <2>2 DEF Accept
    <3>2. disk'[m].accepted = g.gen
      BY <3>1 DEF Local
    <3> QED BY <1>0, <2>1, <2>2, <3>2
  <2>3. CASE n # m
    <3>1. disk'[m] = disk[m]
      BY <1>0, <1>1, <2>3 DEF Accept
    <3> QED BY <1>0, <3>1
  <2> QED BY <2>2, <2>3
<1>2. ASSUME ~ \E n \in Machine, g \in enrolled : Accept(n, g) PROVE disk'[m] = disk[m]
  <2>1. CASE Host
    BY <1>0, <1>2, <2>1 DEF Host, Create, Copy
  <2>2. CASE Authority
    BY <2>2 DEF Authority, GrantObserve, ConsumeObserve, Observed, GrantCommit, ConsumeCommit, GiveUp
  <2>3. CASE Verifier
    BY <2>3 DEF Verifier, AuthBegin, AuthObserve, AuthConfirm
  <2> QED BY <2>1, <2>2, <2>3 DEF Next, Reprovision, Restore, Tick
<1> QED BY <1>0, <1>1, <1>2

\* LocalHost.accept(): a host never falls back to an older enrollment.
THEOREM AcceptanceMovesForward == Spec => AcceptedMovesForward
<1>1. IInv /\ [Next]_vars =>
        [\A m \in Machine :
           disk[m] # NoDir /\ disk'[m] # NoDir => disk'[m].accepted >= disk[m].accepted]_vars
  BY AcceptMovesForward
<1> QED BY <1>1, Invariance, PTL DEF Spec, AcceptedMovesForward
=============================================================================
