------------------------------- MODULE IdMaps -------------------------------
(***************************************************************************)
(* The user-namespace id maps of scripts/ci-cloud/collect-workload-        *)
(* evidence.py and the decision workload-admission.py takes on them.  A    *)
(* map is a sequence of ranges; ids are 0 .. MaxId (2^32 - 1 in the code). *)
(***************************************************************************)
EXTENDS Integers, Sequences, FiniteSets, SequencesExt, FiniteSetsExt

CONSTANTS MaxId, MaxRanges

ASSUME IdAssumption == MaxId \in Nat /\ MaxRanges \in Nat

Id == 0 .. MaxId
Range3(c, h, s) == [container |-> c, host |-> h, size |-> s]
Unmapped == -1

\* The ranges of a map: non-empty, no longer than the largest id, within the id space.
IdRange == {r \in [container : Id, host : Id, size : 1 .. MaxId] :
              r.container + r.size <= MaxId + 1 /\ r.host + r.size <= MaxId + 1}

Overlap(a, b, size1, size2) == a < b + size2 /\ b < a + size1

\* id_map_is_bounded(): ordered, at most MaxRanges ranges (16 in the code), and no two
\* of them overlap on either side.
IdMapIsBounded(m, allowEmpty) ==
  /\ Len(m) <= MaxRanges /\ (allowEmpty \/ m # <<>>)
  /\ \A i \in DOMAIN m : m[i] \in IdRange
  /\ \A i, j \in DOMAIN m : i < j =>
       /\ \/ m[i].container < m[j].container
          \/ m[i].container = m[j].container /\ m[i].host <= m[j].host
       /\ ~Overlap(m[i].container, m[j].container, m[i].size, m[j].size)
       /\ ~Overlap(m[i].host, m[j].host, m[i].size, m[j].size)

\* What is not a range: an id without a place.
NoRange == Range3(0, 0, 0)
Reject == <<NoRange>>

\* parse_id_map(), configured_id_maps() and the end of compose_id_maps(): the ranges, in any
\* order there, sorted; Reject when that is no bounded map.
ParseIdMap(ranges) ==
  LET maps == {m \in [1 .. Cardinality(ranges) -> ranges] :
                 ToSet(m) = ranges /\ IdMapIsBounded(m, FALSE)}
  IN IF maps = {} THEN Reject ELSE CHOOSE m \in maps : TRUE

Matching(m, id) == {i \in DOMAIN m : m[i].container <= id /\ id < m[i].container + m[i].size}

\* id_to_host() and id_from_host(): Unmapped unless exactly one range holds the id.
IdToHost(m, id) ==
  LET found == Matching(m, id)
  IN IF Cardinality(found) = 1
     THEN LET r == m[CHOOSE i \in found : TRUE] IN r.host + id - r.container
     ELSE Unmapped

IdFromHost(m, id) ==
  LET found == {i \in DOMAIN m : m[i].host <= id /\ id < m[i].host + m[i].size}
  IN IF Cardinality(found) = 1
     THEN LET r == m[CHOOSE i \in found : TRUE] IN r.container + id - r.host
     ELSE Unmapped

\* Mutant: the composition forgets that an outer range ends.
PieceUncut(left, room) == left

\* How much of an inner range goes into one outer range.
PieceSize(left, room) == IF left < room THEN left ELSE room

\* One round of the loop of compose_id_maps(): how much of an inner range goes into the
\* outer range that its id number done falls into, and where.
NextPiece(item, outer, done) ==
  LET id == item.host + done
      found == Matching(outer, id)
  IN IF found = {} THEN NoRange
     ELSE LET r == outer[Min(found)]
          IN Range3(item.container + done, r.host + id - r.container,
                    PieceSize(item.size - done, r.container + r.size - id))

\* The loop on one inner range: it is cut where the outer ranges end, and given up at an
\* id that has no outer range.
Pieces(item, outer) ==
  LET cut[done \in 0 .. MaxId + 1] ==
        IF done >= item.size THEN {}
        ELSE LET p == NextPiece(item, outer, done)
             IN IF p = NoRange THEN {NoRange} ELSE {p} \cup cut[done + p.size]
  IN cut[0]

\* compose_id_maps(): where the ids of a container end up on the host.
ComposeIdMaps(inner, outer) ==
  ParseIdMap(UNION {Pieces(inner[i], outer) : i \in DOMAIN inner})

IdMapCovers(m, id) == Cardinality(Matching(m, id)) = 1

\* id_map_is_within_collector(): every range lies in one range of the collector.
IdMapIsWithin(m, collector) ==
  \A i \in DOMAIN m : Cardinality({j \in DOMAIN collector :
     /\ collector[j].container <= m[i].host
     /\ m[i].host + m[i].size <= collector[j].container + collector[j].size}) = 1

\* user_namespace_contract_matches() of a running container: n holds the configured
\* maps, Podman's own map, the map in effect and the collector's; user is the id the
\* role must have, effective the id the collector computed for it.
UserNamespaceMatches(n, user, effective) ==
  LET default == n.options = "none" /\ n.configured = <<>> IN
  /\ IdMapIsBounded(n.configured, TRUE)
  /\ IdMapIsBounded(n.podman, FALSE)
  /\ IdMapIsBounded(n.collector, FALSE)
  /\ n.configured # <<>> => IdMapCovers(n.configured, user)
  /\ IdMapIsBounded(n.effective, FALSE)
  /\ n.effective # n.collector
  /\ IdMapIsWithin(n.effective, n.collector)
  /\ \/ default /\ n.effective = n.podman
     \/ n.configured # <<>> /\ n.effective = ComposeIdMaps(n.configured, n.podman)
     \/ ~default /\ n.configured = <<>> /\ n.effective # n.podman
  /\ effective = user
  /\ IdMapCovers(n.effective, user)

\* The same for an exited container, whose map can only be derived.
ExitedNamespaceMatches(n, user) ==
  LET derived == IF n.configured = <<>> THEN n.podman ELSE ComposeIdMaps(n.configured, n.podman) IN
  /\ IdMapIsBounded(n.configured, TRUE) /\ IdMapIsBounded(n.podman, FALSE)
  /\ n.effective = <<>> /\ n.options = "none"
  /\ derived # Reject
  /\ IdMapIsWithin(derived, n.collector)
  /\ IdMapCovers(derived, user)
=============================================================================
