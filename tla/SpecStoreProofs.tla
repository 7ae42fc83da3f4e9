-------------------------- MODULE SpecStoreProofs --------------------------
(* What the store of specs keeps, however the saves of its replicas overtake  *)
(* each other.  Every save puts a whole state in place, made by one operation *)
(* from a state that was loaded: the invariant is therefore said of one       *)
(* state, of that which is stored and of every one a request has loaded, and  *)
(* every operation preserves it.                                              *)
EXTENDS SpecStore, TLAPS

(* Versions have been made up to m.                                           *)
Known(s, m) == \A v \in Versions : Status(s, v) # "none" => v <= m

(* PointersAgree, of one identity.                                            *)
PointsRight(s, i) ==
  /\ \A v \in Versions : IsOf(s, v, i) /\ Status(s, v) = "deployed" => v = s.idents[i].deployed
  /\ s.idents[i].deployed # None =>
       /\ s.idents[i].deployed \in Versions
       /\ IsOf(s, s.idents[i].deployed, i)
       /\ Status(s, s.idents[i].deployed) = "deployed"
  /\ s.idents[i].draft # None =>
       /\ s.idents[i].draft \in Versions
       /\ IsOf(s, s.idents[i].draft, i)
       /\ Status(s, s.idents[i].draft) \in {"draft", "proposed", "rejected"}

(* NumberedInOrder, of one identity.                                          *)
Listed(s, i, v) == \E k \in 1 .. Len(s.idents[i].ids) : s.idents[i].ids[k] = v
Numbered(s, i) ==
  /\ s.idents[i].cursor = Len(s.idents[i].ids)
  /\ \A k \in 1 .. Len(s.idents[i].ids) :
       /\ s.idents[i].ids[k] \in Versions
       /\ IsOf(s, s.idents[i].ids[k], i)
       /\ s.versions[s.idents[i].ids[k]].num = k
  /\ \A v \in Versions : IsOf(s, v, i) => Listed(s, i, v)

(* What waits for an administrator is in the queue.                           *)
Queued(s) == \A v \in Versions : Status(s, v) = "proposed" => v \in s.proposals

(* What serves under the gate has been approved, or bypassed it; what is      *)
(* about to has been approved (ap: the versions an administrator approved).   *)
Cleared(s, ap) == \A v \in Versions :
  /\ Status(s, v) \in {"draft", "proposed"} /\ s.versions[v].approved => v \in ap
  /\ gate /\ Status(s, v) = "deployed" => v \in ap \/ s.versions[v].bypass

Sound(s, m, ap) ==
  /\ s \in Stores
  /\ Known(s, m)
  /\ \A i \in Identities : PointsRight(s, i) /\ Numbered(s, i)
  /\ Queued(s) /\ Cleared(s, ap)

(* What a request has loaded is sound, and its operation applies to it.       *)
RequestRecords == [op : {"none", "delete"} \union CreatingOps \union VersionOps,
                   ident : Identities \union {<<System, None>>}, vid : Versions \union {None},
                   pc : {"idle", "check", "load", "save", "release"}, snap : Stores]
RequestOK(q) ==
  /\ q \in RequestRecords
  /\ q.pc # "idle" => q.ident \in Identities
  /\ q.op \in VersionOps => q.vid \in Versions
  /\ q.pc \in {"check", "load"} => q.op = "create"
  /\ q.pc = "save" => q.op # "none" /\ Sound(q.snap, made, approvals) /\ Applies(q, q.snap)

StoreInv ==
  /\ backend \in {"file", "redis"} /\ gate \in BOOLEAN
  /\ made \in 0 .. MaxVersions
  /\ shown \subseteq Identities /\ vacant \subseteq Identities
  /\ Sound(store, made, approvals)
  /\ DOMAIN req = Requests
  /\ \A r \in Requests : RequestOK(req[r])

-----------------------------------------------------------------------------
(* States that differ in what their versions have become, not in what they    *)
(* are.                                                                       *)
SameVersions(s, s2) == \A v \in Versions :
  /\ s2.versions[v].ident = s.versions[v].ident
  /\ s2.versions[v].num = s.versions[v].num
  /\ s2.versions[v].bypass = s.versions[v].bypass
  /\ Status(s2, v) = "none" <=> Status(s, v) = "none"
SameLists(s, s2) == \A i \in Identities :
  s2.idents[i].ids = s.idents[i].ids /\ s2.idents[i].cursor = s.idents[i].cursor

(* The identity and the number of a version never change, and the lists of    *)
(* versions change only where one is made.                                    *)
LEMMA SameAreNumbered ==
  ASSUME NEW s, NEW s2, NEW m, Known(s, m), \A i \in Identities : Numbered(s, i),
         SameVersions(s, s2), SameLists(s, s2)
  PROVE  Known(s2, m) /\ \A i \in Identities : Numbered(s2, i)
<1>1. Known(s2, m)
  BY DEF Known, SameVersions
<1>2. \A v \in Versions, i \in Identities : IsOf(s2, v, i) <=> IsOf(s, v, i)
  BY DEF IsOf, SameVersions
<1>3. ASSUME NEW i \in Identities PROVE Numbered(s2, i)
  <2> DEFINE ids == s.idents[i].ids
  <2>1. s2.idents[i].ids = ids /\ s2.idents[i].cursor = s.idents[i].cursor
    BY DEF SameLists
  <2>2. s2.idents[i].cursor = Len(ids)
    BY <2>1 DEF Numbered
  <2>3. \A k \in 1 .. Len(ids) : /\ ids[k] \in Versions /\ IsOf(s2, ids[k], i)
                                 /\ s2.versions[ids[k]].num = k
    <3> SUFFICES ASSUME NEW k \in 1 .. Len(ids)
                 PROVE  ids[k] \in Versions /\ IsOf(s2, ids[k], i) /\ s2.versions[ids[k]].num = k
      OBVIOUS
    <3>1. ids[k] \in Versions /\ IsOf(s, ids[k], i) /\ s.versions[ids[k]].num = k
      BY DEF Numbered
    <3> QED
      BY <1>2, <3>1 DEF SameVersions
  <2>4. \A v \in Versions : IsOf(s2, v, i) => \E k \in 1 .. Len(ids) : ids[k] = v
    BY <1>2 DEF Numbered, Listed
  <2> HIDE DEF ids
  <2> QED
    BY <2>1, <2>2, <2>3, <2>4 DEF Numbered, Listed
<1> QED
  BY <1>1, <1>3

(* The types, of the parts of a state.                                        *)
VersionRecords == [ident : Identities \union {<<System, None>>}, num : Nat, status : Statuses,
                   approved : BOOLEAN, bypass : BOOLEAN]
MetaRecords == [deployed : Versions \union {None}, draft : Versions \union {None},
                cursor : Nat, ids : Seq(Versions)]
(* A state is the record of its parts, each of its type.                      *)
LEMMA StoreParts ==
  ASSUME NEW s \in Stores
  PROVE  /\ s.versions \in [Versions -> VersionRecords]
         /\ s.idents \in [Identities -> MetaRecords]
         /\ s.proposals \in SUBSET Versions
         /\ s = [versions |-> s.versions, idents |-> s.idents, proposals |-> s.proposals]
BY DEF Stores, Identities, VersionRecords, MetaRecords
(* Parts of the right types make a state.                                     *)
LEMMA StoreOfParts ==
  ASSUME NEW V \in [Versions -> VersionRecords], NEW I \in [Identities -> MetaRecords],
         NEW P \in SUBSET Versions
  PROVE  /\ [versions |-> V, idents |-> I, proposals |-> P] \in Stores
BY DEF Stores, Identities, VersionRecords, MetaRecords

(* An operation on one version changes what that version has become.          *)
OneChanges(s, s2, v) ==
  /\ s2.idents = s.idents
  /\ \A w \in Versions : /\ s2.versions[w].ident = s.versions[w].ident
                         /\ s2.versions[w].num = s.versions[w].num
                         /\ s2.versions[w].bypass = s.versions[w].bypass
                         /\ w # v => /\ Status(s2, w) = Status(s, w)
                                     /\ s2.versions[w].approved = s.versions[w].approved
(* A change to one version keeps the state sound when it neither deploys nor  *)
(* retires what the identity serves (propose, approve, reject).               *)
LEMMA OneVersionKeeps ==
  ASSUME NEW s, NEW s2 \in Stores, NEW m, NEW ap, NEW ap2, Sound(s, m, ap), ap \subseteq ap2,
         NEW v \in Versions, OneChanges(s, s2, v),
         Status(s, v) \in {"draft", "proposed"}, Status(s2, v) \in {"proposed", "rejected"},
         Queued(s2),
         Status(s2, v) = "proposed" /\ s2.versions[v].approved => v \in ap2
  PROVE  Sound(s2, m, ap2)
<1>1. s \in Stores /\ Known(s, m) /\ Cleared(s, ap) /\ \A i \in Identities : Numbered(s, i)
  BY DEF Sound
<1>2. SameVersions(s, s2) /\ SameLists(s, s2)
  BY DEF OneChanges, SameVersions, SameLists
<1>3. Known(s2, m) /\ \A i \in Identities : Numbered(s2, i)
  BY <1>1, <1>2, SameAreNumbered
<1>4. ASSUME NEW i \in Identities PROVE PointsRight(s2, i)
  <2>1. PointsRight(s, i) /\ s2.idents[i] = s.idents[i]
    BY DEF Sound, OneChanges
  <2>2. \A w \in Versions : IsOf(s2, w, i) <=> IsOf(s, w, i)
    BY <1>2 DEF SameVersions, IsOf
  <2>3. \A w \in Versions : Status(s2, w) = "deployed" <=> Status(s, w) = "deployed"
    BY DEF OneChanges
  <2>4. \A w \in Versions : Status(s, w) \in {"draft", "proposed", "rejected"}
                              => Status(s2, w) \in {"draft", "proposed", "rejected"}
    BY DEF OneChanges
  <2> QED
    BY <2>1, <2>2, <2>3, <2>4 DEF PointsRight
<1>5. Cleared(s2, ap2)
  BY <1>1 DEF Cleared, OneChanges
<1> QED
  BY <1>3, <1>4, <1>5 DEF Sound

(* A draft is proposed; nobody has approved it yet.                           *)
LEMMA ProposeKeeps ==
  ASSUME NEW s, NEW m, NEW ap, Sound(s, m, ap), NEW v \in Versions, Status(s, v) = "draft"
  PROVE  /\ Sound(ProposeVersion(s, v), m, ap)
         /\ OneChanges(s, ProposeVersion(s, v), v) /\ Status(ProposeVersion(s, v), v) = "proposed"
<1> DEFINE s2 == ProposeVersion(s, v)
           r2 == [s.versions[v] EXCEPT !.status = "proposed"]
           V2 == [s.versions EXCEPT ![v] = r2]
           P2 == s.proposals \union {v}
<1>0. /\ s.versions \in [Versions -> VersionRecords] /\ s.idents \in [Identities -> MetaRecords]
      /\ s.proposals \in SUBSET Versions
      /\ s = [versions |-> s.versions, idents |-> s.idents, proposals |-> s.proposals]
  BY StoreParts DEF Sound
<1>1. r2 \in VersionRecords /\ V2 \in [Versions -> VersionRecords]
  <2>1. s.versions[v] \in VersionRecords
    BY <1>0
  <2>2. r2 \in VersionRecords
    BY <2>1 DEF VersionRecords, Statuses
  <2> HIDE DEF r2
  <2> QED
    BY <1>0, <2>2
<1>2. s2 = [versions |-> V2, idents |-> s.idents, proposals |-> P2]
  <2>1. s2 = [s EXCEPT !.versions = V2, !.proposals = P2]
    BY DEF ProposeVersion
  <2> HIDE DEF V2, P2, s2
  <2> QED
    BY <1>0, <2>1
<1>3. s2 \in Stores
  <2> HIDE DEF V2, s2
  <2> QED
    BY <1>0, <1>1, <1>2, StoreOfParts
<1>4. s2.idents = s.idents /\ s2.proposals = P2 /\ s2.versions = V2
  BY <1>2
<1>5. /\ OneChanges(s, s2, v) /\ Status(s2, v) = "proposed"
      /\ s2.versions[v].approved = s.versions[v].approved
  <2>1. s.versions[v] \in VersionRecords
    BY <1>0
  <2>2. /\ r2.ident = s.versions[v].ident /\ r2.num = s.versions[v].num
        /\ r2.bypass = s.versions[v].bypass /\ r2.status = "proposed" /\ r2.approved = s.versions[v].approved
    BY <2>1 DEF VersionRecords
  <2> HIDE DEF r2
  <2>3. V2[v] = r2 /\ \A w \in Versions \ {v} : V2[w] = s.versions[w]
    BY <1>0
  <2> HIDE DEF V2, s2
  <2> QED
    BY <1>4, <2>2, <2>3 DEF OneChanges, Status
<1>6. Queued(s2)
  BY <1>4, <1>5 DEF Sound, Queued, OneChanges
<1>7. Status(s2, v) = "proposed" /\ s2.versions[v].approved => v \in ap
  BY <1>5 DEF Sound, Cleared
<1>8. ap \subseteq ap /\ Status(s, v) \in {"draft", "proposed"} /\ Status(s2, v) \in {"proposed", "rejected"}
  BY <1>5
<1> HIDE DEF s2
<1>9. Sound(s2, m, ap)
  BY <1>3, <1>5, <1>6, <1>7, <1>8, OneVersionKeeps
<1> QED
  BY <1>5, <1>9 DEF s2

(* A proposal is approved, and the approval is remembered.                    *)
LEMMA ApproveKeeps ==
  ASSUME NEW s, NEW m, NEW ap, Sound(s, m, ap), NEW v \in Versions, Status(s, v) = "proposed"
  PROVE  /\ Sound(ApproveVersion(s, v), m, ap \union {v})
         /\ OneChanges(s, ApproveVersion(s, v), v) /\ Status(ApproveVersion(s, v), v) = "proposed"
<1> DEFINE s2 == ApproveVersion(s, v)
           r2 == [s.versions[v] EXCEPT !.approved = TRUE]
           V2 == [s.versions EXCEPT ![v] = r2]
           P2 == s.proposals
<1>0. /\ s.versions \in [Versions -> VersionRecords] /\ s.idents \in [Identities -> MetaRecords]
      /\ s.proposals \in SUBSET Versions
      /\ s = [versions |-> s.versions, idents |-> s.idents, proposals |-> s.proposals]
  BY StoreParts DEF Sound
<1>1. r2 \in VersionRecords /\ V2 \in [Versions -> VersionRecords]
  <2>1. s.versions[v] \in VersionRecords
    BY <1>0
  <2>2. r2 \in VersionRecords
    BY <2>1 DEF VersionRecords, Statuses
  <2> HIDE DEF r2
  <2> QED
    BY <1>0, <2>2
<1>2. s2 = [versions |-> V2, idents |-> s.idents, proposals |-> P2]
  <2>1. s2 = [s EXCEPT !.versions = V2]
    BY DEF ApproveVersion
  <2> HIDE DEF V2, s2
  <2> QED
    BY <1>0, <2>1
<1>3. s2 \in Stores
  <2> HIDE DEF V2, s2
  <2> QED
    BY <1>0, <1>1, <1>2, StoreOfParts
<1>4. s2.idents = s.idents /\ s2.proposals = P2 /\ s2.versions = V2
  BY <1>2
<1>5. /\ OneChanges(s, s2, v) /\ Status(s2, v) = "proposed"
  <2>1. s.versions[v] \in VersionRecords
    BY <1>0
  <2>2. /\ r2.ident = s.versions[v].ident /\ r2.num = s.versions[v].num
        /\ r2.bypass = s.versions[v].bypass /\ r2.status = "proposed"
    BY <2>1 DEF VersionRecords, Status
  <2> HIDE DEF r2
  <2>3. V2[v] = r2 /\ \A w \in Versions \ {v} : V2[w] = s.versions[w]
    BY <1>0
  <2> HIDE DEF V2, s2
  <2> QED
    BY <1>4, <2>2, <2>3 DEF OneChanges, Status
<1>6. Queued(s2)
  BY <1>4, <1>5 DEF Sound, Queued, OneChanges
<1>7. Status(s2, v) = "proposed" /\ s2.versions[v].approved => v \in ap \union {v}
  BY <1>5 DEF Sound, Cleared
<1>8. ap \subseteq ap \union {v} /\ Status(s, v) \in {"draft", "proposed"} /\ Status(s2, v) \in {"proposed", "rejected"}
  BY <1>5
<1> HIDE DEF s2
<1>9. Sound(s2, m, ap \union {v})
  BY <1>3, <1>5, <1>6, <1>7, <1>8, OneVersionKeeps
<1> QED
  BY <1>5, <1>9 DEF s2

(* A proposal is rejected.                                                    *)
LEMMA RejectKeeps ==
  ASSUME NEW s, NEW m, NEW ap, Sound(s, m, ap), NEW v \in Versions, Status(s, v) = "proposed"
  PROVE  /\ Sound(RejectVersion(s, v), m, ap)
         /\ OneChanges(s, RejectVersion(s, v), v) /\ Status(RejectVersion(s, v), v) = "rejected"
<1> DEFINE s2 == RejectVersion(s, v)
           r2 == [s.versions[v] EXCEPT !.status = "rejected", !.approved = TRUE]
           V2 == [s.versions EXCEPT ![v] = r2]
           P2 == s.proposals \ {v}
<1>0. /\ s.versions \in [Versions -> VersionRecords] /\ s.idents \in [Identities -> MetaRecords]
      /\ s.proposals \in SUBSET Versions
      /\ s = [versions |-> s.versions, idents |-> s.idents, proposals |-> s.proposals]
  BY StoreParts DEF Sound
<1>1. r2 \in VersionRecords /\ V2 \in [Versions -> VersionRecords]
  <2>1. s.versions[v] \in VersionRecords
    BY <1>0
  <2>2. r2 \in VersionRecords
    BY <2>1 DEF VersionRecords, Statuses
  <2> HIDE DEF r2
  <2> QED
    BY <1>0, <2>2
<1>2. s2 = [versions |-> V2, idents |-> s.idents, proposals |-> P2]
  <2>1. s2 = [s EXCEPT !.versions = V2, !.proposals = P2]
    BY DEF RejectVersion
  <2> HIDE DEF V2, P2, s2
  <2> QED
    BY <1>0, <2>1
<1>3. s2 \in Stores
  <2> HIDE DEF V2, s2
  <2> QED
    BY <1>0, <1>1, <1>2, StoreOfParts
<1>4. s2.idents = s.idents /\ s2.proposals = P2 /\ s2.versions = V2
  BY <1>2
<1>5. /\ OneChanges(s, s2, v) /\ Status(s2, v) = "rejected"
  <2>1. s.versions[v] \in VersionRecords
    BY <1>0
  <2>2. /\ r2.ident = s.versions[v].ident /\ r2.num = s.versions[v].num
        /\ r2.bypass = s.versions[v].bypass /\ r2.status = "rejected"
    BY <2>1 DEF VersionRecords
  <2> HIDE DEF r2
  <2>3. V2[v] = r2 /\ \A w \in Versions \ {v} : V2[w] = s.versions[w]
    BY <1>0
  <2> HIDE DEF V2, s2
  <2> QED
    BY <1>4, <2>2, <2>3 DEF OneChanges, Status
<1>6. Queued(s2)
  BY <1>4, <1>5 DEF Sound, Queued, OneChanges
<1>7. Status(s2, v) = "proposed" /\ s2.versions[v].approved => v \in ap
  BY <1>5 DEF Sound, Cleared
<1>8. ap \subseteq ap /\ Status(s, v) \in {"draft", "proposed"} /\ Status(s2, v) \in {"proposed", "rejected"}
  BY <1>5
<1> HIDE DEF s2
<1>9. Sound(s2, m, ap)
  BY <1>3, <1>5, <1>6, <1>7, <1>8, OneVersionKeeps
<1> QED
  BY <1>5, <1>9 DEF s2

-----------------------------------------------------------------------------
(* What is put away stays what it is, and is archived (V: the versions).      *)
PutAway(s, s2, V) ==
  /\ s2 \in Stores /\ s2.idents = s.idents /\ s2.proposals = s.proposals
  /\ \A w \in Versions :
       /\ s2.versions[w].ident = s.versions[w].ident
       /\ s2.versions[w].num = s.versions[w].num
       /\ s2.versions[w].bypass = s.versions[w].bypass
       /\ s2.versions[w].approved = s.versions[w].approved
       /\ Status(s2, w) = IF w \in V /\ Status(s, w) # "none" THEN "archived" ELSE Status(s, w)
(* Archive puts away the versions it is given, and touches nothing else.      *)
LEMMA ArchivePutsAway ==
  ASSUME NEW s \in Stores, NEW V
  PROVE  PutAway(s, Archive(s, V), V)
<1> DEFINE A(w) == IF w \in V /\ s.versions[w].status # "none"
                   THEN [s.versions[w] EXCEPT !.status = "archived"] ELSE s.versions[w]
           V2 == [w \in Versions |-> A(w)]
           s2 == Archive(s, V)
<1>0. /\ s.versions \in [Versions -> VersionRecords] /\ s.idents \in [Identities -> MetaRecords]
      /\ s.proposals \in SUBSET Versions
      /\ s = [versions |-> s.versions, idents |-> s.idents, proposals |-> s.proposals]
  BY StoreParts
<1>1. \A w \in Versions : /\ A(w) \in VersionRecords
                          /\ A(w).ident = s.versions[w].ident /\ A(w).num = s.versions[w].num
                          /\ A(w).bypass = s.versions[w].bypass
                          /\ A(w).approved = s.versions[w].approved
                          /\ A(w).status = IF w \in V /\ s.versions[w].status # "none"
                                           THEN "archived" ELSE s.versions[w].status
  <2> SUFFICES ASSUME NEW w \in Versions
               PROVE  /\ A(w) \in VersionRecords
                      /\ A(w).ident = s.versions[w].ident /\ A(w).num = s.versions[w].num
                      /\ A(w).bypass = s.versions[w].bypass
                      /\ A(w).approved = s.versions[w].approved
                      /\ A(w).status = IF w \in V /\ s.versions[w].status # "none"
                                       THEN "archived" ELSE s.versions[w].status
    OBVIOUS
  <2>1. s.versions[w] \in VersionRecords
    BY <1>0
  <2> QED
    BY <2>1 DEF VersionRecords, Statuses
<1>2. s2 = [versions |-> V2, idents |-> s.idents, proposals |-> s.proposals]
  <2>1. s2 = [s EXCEPT !.versions = V2]
    BY DEF Archive
  <2> HIDE DEF V2, s2
  <2> QED
    BY <1>0, <2>1
<1> HIDE DEF A
<1>3. V2 \in [Versions -> VersionRecords] /\ \A w \in Versions : V2[w] = A(w)
  BY <1>1
<1> HIDE DEF V2, s2
<1>4. s2 \in Stores
  BY <1>0, <1>2, <1>3, StoreOfParts
<1>5. s2.versions = V2 /\ s2.idents = s.idents /\ s2.proposals = s.proposals
  BY <1>2
<1> QED
  BY <1>1, <1>3, <1>4, <1>5 DEF PutAway, Status, s2

(* Nothing else of it changes.                                                *)
LEMMA PutAwayIsSame ==
  ASSUME NEW s, NEW s2, NEW V, PutAway(s, s2, V)
  PROVE  SameVersions(s, s2) /\ SameLists(s, s2)
  BY DEF PutAway, SameVersions, SameLists

(* The version i serves.                                                      *)
Serves(s, w, i) == IsOf(s, w, i) /\ Status(s, w) = "deployed"
(* A version is put into service, and the one it replaces is put away.        *)
LEMMA DeployKeeps ==
  ASSUME SpecStoreAssumption, NEW s, NEW m, NEW ap, Sound(s, m, ap), NEW i \in Identities,
         NEW v \in Versions, IsOf(s, v, i), MayDeploy(s, v)
  PROVE  /\ Sound(DeployVersion(s, i, v), m, ap)
         /\ \A w \in Versions :
              /\ DeployVersion(s, i, v).versions[w].ident = s.versions[w].ident
              /\ Status(DeployVersion(s, i, v), w) = IF w = v THEN "deployed"
                                                    ELSE IF Serves(s, w, i) THEN "archived"
                                                    ELSE Status(s, w)
<1> DEFINE old == {s.idents[i].deployed} \ {None, v}
           was == Archive(s, old)
           s2 == DeployVersion(s, i, v)
           r2 == [was.versions[v] EXCEPT !.status = "deployed"]
           V2 == [was.versions EXCEPT ![v] = r2]
           m2 == [was.idents[i] EXCEPT !.deployed = v,
                                       !.draft = IF was.idents[i].draft = v THEN None
                                                 ELSE was.idents[i].draft]
           I2 == [was.idents EXCEPT ![i] = m2]
           P2 == was.proposals \ {v}
<1>1. s \in Stores /\ PutAway(s, was, old)
  BY ArchivePutsAway DEF Sound
<1>2. /\ was.versions \in [Versions -> VersionRecords] /\ was.idents \in [Identities -> MetaRecords]
      /\ was.proposals \in SUBSET Versions
      /\ was = [versions |-> was.versions, idents |-> was.idents, proposals |-> was.proposals]
  <2>1. was \in Stores
    BY <1>1 DEF PutAway
  <2> HIDE DEF was
  <2> QED
    BY <2>1, StoreParts
<1>3. s2 = [versions |-> V2, idents |-> I2, proposals |-> P2]
  <2>1. s2 = [was EXCEPT !.versions = V2, !.idents = I2, !.proposals = P2]
    BY <1>2 DEF DeployVersion
  <2> HIDE DEF was, V2, I2, P2, s2
  <2> QED
    BY <1>2, <2>1
<1>4. v # None /\ m2 \in MetaRecords /\ I2 \in [Identities -> MetaRecords]
  <2>1. was.idents[i] \in MetaRecords
    BY <1>2
  <2>2. m2 \in MetaRecords
    BY <2>1 DEF MetaRecords
  <2>3. v # None
    BY SpecStoreAssumption DEF Versions
  <2> HIDE DEF m2, was
  <2> QED
    BY <1>2, <2>2, <2>3
<1>5. r2 \in VersionRecords /\ V2 \in [Versions -> VersionRecords]
  <2>1. was.versions[v] \in VersionRecords
    BY <1>2
  <2>2. r2 \in VersionRecords
    BY <2>1 DEF VersionRecords, Statuses
  <2> HIDE DEF r2, was
  <2> QED
    BY <1>2, <2>2
<1>6. s2 \in Stores
  <2>1. P2 \in SUBSET Versions
    BY <1>2
  <2> HIDE DEF V2, I2, P2, s2
  <2> QED
    BY <1>3, <1>4, <1>5, <2>1, StoreOfParts
<1>7. s2.versions = V2 /\ s2.idents = I2 /\ s2.proposals = P2
  BY <1>3
<1>8. \A w \in Versions :
        /\ s2.versions[w].ident = s.versions[w].ident
        /\ s2.versions[w].num = s.versions[w].num
        /\ s2.versions[w].bypass = s.versions[w].bypass
        /\ s2.versions[w].approved = s.versions[w].approved
        /\ Status(s2, w) = IF w = v THEN "deployed"
                           ELSE IF w \in old /\ Status(s, w) # "none" THEN "archived" ELSE Status(s, w)
  <2>1. was.versions[v] \in VersionRecords
    BY <1>2
  <2>2. /\ r2.ident = was.versions[v].ident /\ r2.num = was.versions[v].num
        /\ r2.bypass = was.versions[v].bypass /\ r2.approved = was.versions[v].approved
        /\ r2.status = "deployed"
    BY <2>1 DEF VersionRecords
  <2> HIDE DEF r2, was
  <2>3. V2[v] = r2 /\ \A w \in Versions \ {v} : V2[w] = was.versions[w]
    BY <1>2
  <2> HIDE DEF V2, s2, old
  <2> QED
    BY <1>1, <1>7, <2>2, <2>3 DEF PutAway, Status
<1>9. /\ \A j \in Identities : s2.idents[j].ids = s.idents[j].ids /\ s2.idents[j].cursor = s.idents[j].cursor
      /\ \A j \in Identities \ {i} : s2.idents[j] = s.idents[j]
      /\ s2.idents[i].deployed = v
      /\ s2.idents[i].draft = IF s.idents[i].draft = v THEN None ELSE s.idents[i].draft
      /\ s2.proposals = s.proposals \ {v}
  <2>1. was.idents[i] \in MetaRecords
    BY <1>2
  <2>2. /\ m2.ids = was.idents[i].ids /\ m2.cursor = was.idents[i].cursor /\ m2.deployed = v
        /\ m2.draft = IF was.idents[i].draft = v THEN None ELSE was.idents[i].draft
    BY <2>1 DEF MetaRecords
  <2> HIDE DEF m2, was
  <2>3. I2[i] = m2 /\ \A j \in Identities \ {i} : I2[j] = was.idents[j]
    BY <1>2
  <2>4. was.idents = s.idents /\ was.proposals = s.proposals
    BY <1>1 DEF PutAway
  <2> HIDE DEF I2, s2
  <2> QED
    BY <1>7, <2>2, <2>3, <2>4
<1> HIDE DEF was, s2, r2, V2, m2, I2, P2
<1>10. Status(s, v) # "none" /\ s.versions[v].ident = i
  BY DEF IsOf
<1>11. SameVersions(s, s2) /\ SameLists(s, s2)
  BY <1>8, <1>9, <1>10 DEF SameVersions, SameLists
<1>12. Known(s2, m) /\ \A j \in Identities : Numbered(s2, j)
  BY <1>11, SameAreNumbered DEF Sound
<1>13. \A w \in Versions, j \in Identities : IsOf(s2, w, j) <=> IsOf(s, w, j)
  BY <1>11 DEF IsOf, SameVersions
<1>14. PointsRight(s, i)
  BY DEF Sound
<1>15. ASSUME NEW j \in Identities PROVE PointsRight(s2, j)
  <2>1. CASE j # i
    <3>1. PointsRight(s, j) /\ s2.idents[j] = s.idents[j]
      BY <1>9, <2>1 DEF Sound
    <3>2. \A w \in Versions : IsOf(s, w, j) => Status(s2, w) = Status(s, w)
      BY <1>8, <1>10, <1>14, <2>1 DEF PointsRight, IsOf
    <3> QED
      BY <1>13, <3>1, <3>2 DEF PointsRight
  <2>2. CASE j = i
    <3>1. \A w \in Versions : IsOf(s2, w, i) /\ Status(s2, w) = "deployed" => w = v
      <4> SUFFICES ASSUME NEW w \in Versions, IsOf(s2, w, i), Status(s2, w) = "deployed", w # v
                   PROVE  FALSE
        OBVIOUS
      <4>1. Status(s, w) = "deployed" /\ IsOf(s, w, i) /\ w \notin old
        BY <1>8, <1>13
      <4>2. w = s.idents[i].deployed
        BY <1>14, <4>1 DEF PointsRight
      <4>3. w # None
        BY SpecStoreAssumption DEF Versions
      <4> QED
        BY <4>1, <4>2, <4>3
    <3>2. IsOf(s2, v, i) /\ Status(s2, v) = "deployed"
      BY <1>8, <1>13
    <3>3. ASSUME s2.idents[i].draft # None
          PROVE  /\ s2.idents[i].draft \in Versions /\ IsOf(s2, s2.idents[i].draft, i)
                 /\ Status(s2, s2.idents[i].draft) \in {"draft", "proposed", "rejected"}
      <4> DEFINE d == s.idents[i].draft
      <4>1. d # v /\ d # None /\ s2.idents[i].draft = d
        BY <1>9, <3>3
      <4>2. d \in Versions /\ IsOf(s, d, i) /\ Status(s, d) \in {"draft", "proposed", "rejected"}
        BY <1>14, <4>1 DEF PointsRight
      <4>3. d \notin old
        BY <1>14, <4>2 DEF PointsRight
      <4> HIDE DEF d, old
      <4>4. Status(s2, d) = Status(s, d) /\ IsOf(s2, d, i)
        BY <1>8, <1>13, <4>1, <4>2, <4>3
      <4> QED
        BY <4>1, <4>2, <4>4
    <3> QED
      BY <1>9, <2>2, <3>1, <3>2, <3>3 DEF PointsRight
  <2> QED
    BY <2>1, <2>2
<1>16. Queued(s2)
  BY <1>8, <1>9 DEF Sound, Queued
<1>17. Cleared(s2, ap)
  <2>1. gate => v \in ap \/ s.versions[v].bypass
    BY DEF MayDeploy, Sound, Cleared
  <2>2. \A w \in Versions : w # v => Status(s2, w) \in {"archived", Status(s, w)}
    BY <1>8
  <2>3. Status(s2, v) = "deployed"
    BY <1>8
  <2> QED
    BY <1>8, <2>1, <2>2, <2>3 DEF Sound, Cleared
<1>18. Sound(s2, m, ap)
  BY <1>6, <1>12, <1>15, <1>16, <1>17 DEF Sound
<1>19. \A w \in Versions : w # v => (w \in old /\ Status(s, w) # "none" <=> Serves(s, w, i))
  <2>1. \A w \in Versions : w # None
    BY SpecStoreAssumption DEF Versions
  <2> QED
    BY <1>14, <2>1 DEF PointsRight, Serves
<1> HIDE DEF old
<1> QED
  BY <1>8, <1>18, <1>19 DEF s2

(* An identity is deleted: all of its versions are put away.                  *)
LEMMA ArchiveKeeps ==
  ASSUME SpecStoreAssumption, NEW s, NEW m, NEW ap, Sound(s, m, ap), NEW i \in Identities
  PROVE  /\ Sound(ArchiveIdentity(s, i), m, ap)
         /\ \A w \in Versions :
              /\ ArchiveIdentity(s, i).versions[w].ident = s.versions[w].ident
              /\ Status(ArchiveIdentity(s, i), w) = IF IsOf(s, w, i) THEN "archived" ELSE Status(s, w)
<1> DEFINE was == Archive(s, Ids(s, i))
           s2 == ArchiveIdentity(s, i)
           m2 == [was.idents[i] EXCEPT !.deployed = None, !.draft = None]
           I2 == [was.idents EXCEPT ![i] = m2]
           P2 == {v \in was.proposals : s.versions[v].ident # i}
<1>1. s \in Stores /\ PutAway(s, was, Ids(s, i))
  BY ArchivePutsAway DEF Sound
<1>2. /\ was.versions \in [Versions -> VersionRecords] /\ was.idents \in [Identities -> MetaRecords]
      /\ was.proposals \in SUBSET Versions
      /\ was = [versions |-> was.versions, idents |-> was.idents, proposals |-> was.proposals]
  <2>1. was \in Stores
    BY <1>1 DEF PutAway
  <2> HIDE DEF was
  <2> QED
    BY <2>1, StoreParts
<1>3. s2 = [versions |-> was.versions, idents |-> I2, proposals |-> P2]
  <2>1. s2 = [was EXCEPT !.idents = I2, !.proposals = P2]
    BY <1>2 DEF ArchiveIdentity
  <2> HIDE DEF was, I2, P2, s2
  <2> QED
    BY <1>2, <2>1
<1>4. I2 \in [Identities -> MetaRecords]
  <2>1. was.idents[i] \in MetaRecords
    BY <1>2
  <2>2. m2 \in MetaRecords
    BY <2>1 DEF MetaRecords
  <2> HIDE DEF m2, was
  <2> QED
    BY <1>2, <2>2
<1>5. s2 \in Stores
  <2>1. P2 \in SUBSET Versions
    BY <1>2
  <2> HIDE DEF was, I2, P2, s2
  <2> QED
    BY <1>2, <1>3, <1>4, <2>1, StoreOfParts
<1>6. s2.versions = was.versions /\ s2.idents = I2 /\ s2.proposals = P2
  BY <1>3
<1>7. \A w \in Versions :
        /\ s2.versions[w].ident = s.versions[w].ident
        /\ s2.versions[w].num = s.versions[w].num
        /\ s2.versions[w].bypass = s.versions[w].bypass
        /\ s2.versions[w].approved = s.versions[w].approved
        /\ Status(s2, w) = IF w \in Ids(s, i) /\ Status(s, w) # "none" THEN "archived" ELSE Status(s, w)
  <2> HIDE DEF was, s2
  <2> QED
    BY <1>1, <1>6 DEF PutAway, Status
<1>8. /\ \A j \in Identities : s2.idents[j].ids = s.idents[j].ids /\ s2.idents[j].cursor = s.idents[j].cursor
      /\ \A j \in Identities \ {i} : s2.idents[j] = s.idents[j]
      /\ s2.idents[i].deployed = None /\ s2.idents[i].draft = None
      /\ \A w \in s.proposals : s.versions[w].ident # i => w \in s2.proposals
  <2>1. was.idents[i] \in MetaRecords
    BY <1>2
  <2>2. /\ m2.ids = was.idents[i].ids /\ m2.cursor = was.idents[i].cursor /\ m2.deployed = None
        /\ m2.draft = None
    BY <2>1 DEF MetaRecords
  <2> HIDE DEF m2, was
  <2>3. I2[i] = m2 /\ \A j \in Identities \ {i} : I2[j] = was.idents[j]
    BY <1>2
  <2>4. was.idents = s.idents /\ was.proposals = s.proposals
    BY <1>1 DEF PutAway
  <2> HIDE DEF I2, s2
  <2> QED
    BY <1>6, <2>2, <2>3, <2>4
<1> HIDE DEF was, s2, m2, I2, P2
<1>9. SameVersions(s, s2) /\ SameLists(s, s2)
  BY <1>7, <1>8 DEF SameVersions, SameLists
<1>10. Known(s2, m) /\ \A j \in Identities : Numbered(s2, j)
  BY <1>9, SameAreNumbered DEF Sound
<1>11. \A w \in Versions, j \in Identities : IsOf(s2, w, j) <=> IsOf(s, w, j)
  BY <1>9 DEF IsOf, SameVersions
<1>12. \A w \in Versions : w \in Ids(s, i) <=> IsOf(s, w, i)
  <2>1. Numbered(s, i) /\ s.idents[i].ids \in Seq(Versions)
    <3>1. s.idents[i] \in MetaRecords
      BY <1>1, StoreParts
    <3> QED
      BY <3>1 DEF Sound, MetaRecords
  <2>2. DOMAIN s.idents[i].ids = 1 .. Len(s.idents[i].ids)
    BY <2>1
  <2> QED
    BY <2>1, <2>2 DEF Ids, Numbered, Listed
<1>13. ASSUME NEW j \in Identities PROVE PointsRight(s2, j)
  <2>1. CASE j # i
    <3>1. PointsRight(s, j) /\ s2.idents[j] = s.idents[j]
      BY <1>8, <2>1 DEF Sound
    <3>2. \A w \in Versions : IsOf(s, w, j) => Status(s2, w) = Status(s, w)
      BY <1>7, <1>12, <2>1 DEF IsOf
    <3> QED
      BY <1>11, <3>1, <3>2 DEF PointsRight
  <2>2. CASE j = i
    <3>1. \A w \in Versions : IsOf(s2, w, i) => Status(s2, w) # "deployed"
      BY <1>7, <1>11, <1>12 DEF IsOf
    <3> QED
      BY <1>8, <2>2, <3>1 DEF PointsRight
  <2> QED
    BY <2>1, <2>2
<1>14. Queued(s2)
  BY <1>7, <1>8, <1>12 DEF Sound, Queued, IsOf
<1>15. Cleared(s2, ap)
  <2>1. \A w \in Versions : Status(s2, w) \in {"archived", Status(s, w)}
    BY <1>7
  <2> QED
    BY <1>7, <2>1 DEF Sound, Cleared
<1>16. Sound(s2, m, ap)
  BY <1>5, <1>10, <1>13, <1>14, <1>15 DEF Sound
<1>17. \A w \in Versions : IsOf(s, w, i) => Status(s, w) # "none"
  BY DEF IsOf
<1> QED
  BY <1>7, <1>12, <1>16, <1>17 DEF s2

(* What retention puts away is neither served nor a draft.                    *)
Leaves(s, s2, i) == \A w \in Versions :
  /\ s2.versions[w].ident = s.versions[w].ident
  /\ \/ Status(s2, w) = Status(s, w)
     \/ Status(s2, w) = "archived" /\ Status(s, w) \in {"proposed", "rejected"} /\ IsOf(s, w, i)
(* Retention keeps the state sound: it spares the served version and the      *)
(* draft.                                                                     *)
LEMMA RetainKeeps ==
  ASSUME NEW s, NEW m, NEW ap, Sound(s, m, ap), NEW i \in Identities
  PROVE  Sound(Retain(s, i), m, ap) /\ Leaves(s, Retain(s, i), i)
<1> DEFINE X == {v \in Expendable(s, i) : Cardinality(Older(s, v, Expendable(s, i))) < Excess(s, i)}
           s2 == Archive(s, X)
<1>1. Retain(s, i) = s \/ Retain(s, i) = s2
  BY DEF Retain
<1>2. s \in Stores /\ PutAway(s, s2, X)
  BY ArchivePutsAway DEF Sound
<1>3. X \subseteq Expendable(s, i)
  OBVIOUS
<1> HIDE DEF X, s2
<1>4. SameVersions(s, s2) /\ SameLists(s, s2)
  BY <1>2, PutAwayIsSame
<1>5. Known(s2, m) /\ \A j \in Identities : Numbered(s2, j)
  BY <1>4, SameAreNumbered DEF Sound
<1>6. \A w \in Versions, j \in Identities : IsOf(s2, w, j) <=> IsOf(s, w, j)
  BY <1>4 DEF IsOf, SameVersions
<1>7. \A w \in X : /\ Status(s, w) \in {"proposed", "rejected"}
                   /\ w # s.idents[i].draft
                   /\ w \in Versions /\ IsOf(s, w, i)
  <2>1. Numbered(s, i) /\ s.idents[i].ids \in Seq(Versions)
    <3>1. s.idents[i] \in MetaRecords
      BY <1>2, StoreParts
    <3> QED
      BY <3>1 DEF Sound, MetaRecords
  <2>2. DOMAIN s.idents[i].ids = 1 .. Len(s.idents[i].ids)
    BY <2>1
  <2>3. \A w \in Ids(s, i) : w \in Versions /\ IsOf(s, w, i)
    BY <2>1, <2>2 DEF Ids, Numbered
  <2> QED
    BY <1>3, <2>3 DEF Expendable
<1>8. \A w \in Versions : Status(s2, w) = IF w \in X THEN "archived" ELSE Status(s, w)
  BY <1>2, <1>7 DEF PutAway
<1>9. ASSUME NEW j \in Identities PROVE PointsRight(s2, j)
  <2>1. PointsRight(s, j) /\ s2.idents[j] = s.idents[j]
    BY <1>2 DEF Sound, PutAway
  <2>2. s.idents[j].draft \in X => s.idents[j].draft = None
    BY <1>7, <2>1 DEF PointsRight, IsOf
  <2>3. s.idents[j].deployed \in X => s.idents[j].deployed = None
    BY <1>7, <2>1 DEF PointsRight
  <2> QED
    BY <1>6, <1>8, <2>1, <2>2, <2>3 DEF PointsRight
<1>10. Queued(s2) /\ Cleared(s2, ap)
  BY <1>2, <1>8 DEF Sound, Queued, Cleared, PutAway
<1>11. Sound(s2, m, ap)
  BY <1>2, <1>5, <1>9, <1>10 DEF Sound, PutAway
<1>12. Leaves(s, s2, i) /\ Leaves(s, s, i)
  BY <1>2, <1>7, <1>8 DEF Leaves, PutAway
<1> QED
  BY <1>1, <1>11, <1>12

(* What the making of v changes: a version it replaces is put away, and what  *)
(* retention puts away had been proposed or rejected.                         *)
Makes(s, s2, i, v, deploy) ==
  /\ Status(s, v) = "none"
  /\ s2.versions[v].ident = i /\ Status(s2, v) = IF deploy THEN "deployed" ELSE "draft"
  /\ \A w \in Versions \ {v} :
       /\ s2.versions[w].ident = s.versions[w].ident
       /\ \/ Status(s2, w) = IF deploy /\ Serves(s, w, i) THEN "archived" ELSE Status(s, w)
          \/ Status(s2, w) = "archived" /\ Status(s, w) \in {"proposed", "rejected"} /\ IsOf(s, w, i)
(* A version is made: the next of its identity, deployed at once or a draft.  *)
LEMMA CreateKeeps ==
  ASSUME SpecStoreAssumption, NEW s, NEW m \in Nat, NEW ap, Sound(s, m, ap), NEW i \in Identities,
         m + 1 \in Versions, NEW deploy \in BOOLEAN, NEW bypass \in BOOLEAN,
         gate /\ deploy => bypass
  PROVE  /\ Sound(CreateVersion(s, i, m + 1, deploy, bypass), m + 1, ap)
         /\ Makes(s, CreateVersion(s, i, m + 1, deploy, bypass), i, m + 1, deploy)
<1> DEFINE v == m + 1
           meta == s.idents[i]
           new == [ident |-> i, num |-> meta.cursor + 1, status |-> IF deploy THEN "deployed" ELSE "draft",
                   approved |-> FALSE, bypass |-> bypass]
           was == IF deploy THEN Archive(s, {meta.deployed} \ {None}) ELSE s
           next == [deployed |-> IF deploy THEN v ELSE meta.deployed,
                    draft |-> IF deploy THEN None ELSE v,
                    cursor |-> meta.cursor + 1,
                    ids |-> Append(meta.ids, v)]
           V2 == [was.versions EXCEPT ![v] = new]
           I2 == [was.idents EXCEPT ![i] = next]
           s2 == [was EXCEPT !.versions = V2, !.idents = I2]
           old == IF deploy THEN {meta.deployed} \ {None} ELSE {}
<1>1. CreateVersion(s, i, v, deploy, bypass) = Retain(s2, i)
  BY DEF CreateVersion
<1>2. s \in Stores /\ PutAway(s, was, old)
  <2>1. s \in Stores
    BY DEF Sound
  <2>2. CASE deploy
    <3>1. was = Archive(s, old)
      BY <2>2
    <3> HIDE DEF was, old
    <3> QED
      BY <2>1, <3>1, ArchivePutsAway
  <2>3. CASE ~deploy
    BY <2>1, <2>3 DEF PutAway
  <2> QED
    BY <2>1, <2>2, <2>3
<1>3. /\ was.versions \in [Versions -> VersionRecords] /\ was.idents \in [Identities -> MetaRecords]
      /\ was.proposals \in SUBSET Versions
      /\ was = [versions |-> was.versions, idents |-> was.idents, proposals |-> was.proposals]
  <2>1. was \in Stores
    BY <1>2 DEF PutAway
  <2> HIDE DEF was
  <2> QED
    BY <2>1, StoreParts
<1>4. /\ meta.deployed \in Versions \union {None} /\ meta.draft \in Versions \union {None}
      /\ meta.cursor \in Nat /\ meta.ids \in Seq(Versions) /\ meta \in MetaRecords
  <2>1. meta \in MetaRecords
    BY <1>2, StoreParts
  <2> QED
    BY <2>1 DEF MetaRecords
<1>5. v # None /\ v \in Versions /\ v \in Nat
  BY SpecStoreAssumption DEF Versions
<1>6. new \in VersionRecords /\ V2 \in [Versions -> VersionRecords]
  <2>1. meta.cursor + 1 \in Nat
    BY <1>4
  <2>2. new \in VersionRecords
    <3> HIDE DEF meta
    <3> QED
      BY <2>1 DEF VersionRecords, Statuses
  <2> HIDE DEF new, was
  <2> QED
    BY <1>3, <2>2
<1>7. next \in MetaRecords /\ I2 \in [Identities -> MetaRecords]
  <2>1. meta.cursor + 1 \in Nat /\ Append(meta.ids, v) \in Seq(Versions)
    BY <1>4, <1>5
  <2>2. next \in MetaRecords
    <3> HIDE DEF meta, v
    <3> QED
      BY <1>4, <1>5, <2>1 DEF MetaRecords
  <2> HIDE DEF next, was
  <2> QED
    BY <1>3, <2>2
<1>8. s2 = [versions |-> V2, idents |-> I2, proposals |-> was.proposals] /\ s2 \in Stores
  <2>1. s2 = [versions |-> V2, idents |-> I2, proposals |-> was.proposals]
    <3>1. s2 = [was EXCEPT !.versions = V2, !.idents = I2]
      OBVIOUS
    <3> HIDE DEF was, V2, I2, s2
    <3> QED
      BY <1>3, <3>1
  <2> HIDE DEF was, V2, I2, s2
  <2> QED
    BY <1>3, <1>6, <1>7, <2>1, StoreOfParts
<1>9. /\ s2.versions[v] = new /\ s2.idents[i] = next /\ s2.proposals = s.proposals
      /\ \A w \in Versions \ {v} : s2.versions[w] = was.versions[w]
      /\ \A j \in Identities \ {i} : s2.idents[j] = s.idents[j]
  <2>1. s2.versions = V2 /\ s2.idents = I2 /\ s2.proposals = was.proposals
    BY <1>8
  <2>2. was.idents = s.idents /\ was.proposals = s.proposals
    BY <1>2 DEF PutAway
  <2>3. /\ V2[v] = new /\ I2[i] = next
        /\ \A w \in Versions \ {v} : V2[w] = was.versions[w]
        /\ \A j \in Identities \ {i} : I2[j] = was.idents[j]
    <3> HIDE DEF new, next, was
    <3> QED
      BY <1>3, <1>5
  <2> HIDE DEF s2, V2, I2, was, new, next
  <2> QED
    BY <2>1, <2>2, <2>3
<1>10. \A w \in Versions \ {v} :
        /\ s2.versions[w].ident = s.versions[w].ident
        /\ s2.versions[w].num = s.versions[w].num
        /\ s2.versions[w].bypass = s.versions[w].bypass
        /\ s2.versions[w].approved = s.versions[w].approved
        /\ Status(s2, w) = IF w \in old /\ Status(s, w) # "none" THEN "archived" ELSE Status(s, w)
  <2> HIDE DEF s2, was, new, next, old, v
  <2> QED
    BY <1>2, <1>9 DEF PutAway, Status
<1>11. /\ s2.versions[v].ident = i /\ s2.versions[v].num = meta.cursor + 1
       /\ s2.versions[v].bypass = bypass /\ s2.versions[v].approved = FALSE
       /\ Status(s2, v) = IF deploy THEN "deployed" ELSE "draft"
  <2> HIDE DEF s2, was, next, meta, v
  <2> QED
    BY <1>9 DEF Status
<1>12. /\ s2.idents[i].deployed = (IF deploy THEN v ELSE meta.deployed)
       /\ s2.idents[i].draft = (IF deploy THEN None ELSE v)
       /\ s2.idents[i].cursor = meta.cursor + 1 /\ s2.idents[i].ids = Append(meta.ids, v)
  <2> HIDE DEF s2, was, new, meta, v
  <2> QED
    BY <1>9
<1>13. Status(s, v) = "none"
  BY <1>5 DEF Sound, Known
<1> HIDE DEF s2, was, new, next, V2, I2
<1>14. /\ \A w \in Versions \ {v}, j \in Identities : IsOf(s2, w, j) <=> IsOf(s, w, j)
       /\ \A j \in Identities : IsOf(s2, v, j) <=> j = i
       /\ \A j \in Identities : ~IsOf(s, v, j)
  BY <1>10, <1>11, <1>13 DEF IsOf
<1>15. Known(s2, m + 1)
  <2>1. \A w \in Versions \ {v} : Status(s2, w) # "none" => w <= m
    BY <1>10 DEF Sound, Known
  <2>2. \A w \in Versions : w \in Nat
    BY DEF Versions
  <2> QED
    BY <2>1, <2>2 DEF Known
<1>16. PointsRight(s, i) /\ Numbered(s, i) /\ Queued(s) /\ Cleared(s, ap)
  BY DEF Sound
<1>17. ASSUME NEW j \in Identities \ {i} PROVE PointsRight(s2, j) /\ Numbered(s2, j)
  <2>1. PointsRight(s, j) /\ Numbered(s, j) /\ s2.idents[j] = s.idents[j]
    BY <1>9 DEF Sound
  <2>2. old \subseteq {w \in Versions : IsOf(s, w, i)}
    BY <1>16 DEF PointsRight
  <2>3. \A w \in Versions : IsOf(s, w, j) => w # v /\ Status(s2, w) = Status(s, w)
    BY <1>10, <1>14, <2>2 DEF IsOf
  <2>4. PointsRight(s2, j)
    BY <1>14, <2>1, <2>3 DEF PointsRight
  <2>5. Numbered(s2, j)
    <3> DEFINE ids == s.idents[j].ids
    <3>1. s2.idents[j].ids = ids /\ s2.idents[j].cursor = Len(ids)
      BY <2>1 DEF Numbered
    <3>2. \A k \in 1 .. Len(ids) : /\ ids[k] \in Versions /\ IsOf(s2, ids[k], j)
                                   /\ s2.versions[ids[k]].num = k
      <4> SUFFICES ASSUME NEW k \in 1 .. Len(ids)
                   PROVE  ids[k] \in Versions /\ IsOf(s2, ids[k], j) /\ s2.versions[ids[k]].num = k
        OBVIOUS
      <4>1. ids[k] \in Versions /\ IsOf(s, ids[k], j) /\ s.versions[ids[k]].num = k
        BY <2>1 DEF Numbered
      <4> HIDE DEF ids, v
      <4> QED
        BY <1>10, <1>14, <2>3, <4>1
    <3>3. \A w \in Versions : IsOf(s2, w, j) => \E k \in 1 .. Len(ids) : ids[k] = w
      BY <1>14, <2>1 DEF Numbered, Listed
    <3> HIDE DEF ids
    <3> QED
      BY <3>1, <3>2, <3>3 DEF Numbered, Listed
  <2> QED
    BY <2>4, <2>5
<1>18. Numbered(s2, i)
  <2> DEFINE ids == meta.ids  n == Len(meta.ids)  more == Append(meta.ids, v)
  <2>1. /\ n \in Nat /\ Len(more) = n + 1 /\ more[n + 1] = v
        /\ \A k \in 1 .. n : more[k] = ids[k]
    <3>1. ids \in Seq(Versions) /\ v \in Versions
      BY <1>4, <1>5
    <3> HIDE DEF meta, v, ids
    <3> QED
      BY <3>1 DEF ids
  <2>2. meta.cursor = n
    BY <1>16 DEF Numbered
  <2>3. \A k \in 1 .. n : ids[k] \in Versions /\ IsOf(s, ids[k], i) /\ s.versions[ids[k]].num = k
    BY <1>16 DEF Numbered
  <2>4. \A w \in Versions : IsOf(s, w, i) => \E k \in 1 .. n : ids[k] = w
    BY <1>16 DEF Numbered, Listed
  <2>5. s2.idents[i].cursor = n + 1 /\ s2.idents[i].ids = more
    BY <1>12, <2>2
  <2> HIDE DEF ids, n, more, meta
  <2>6. \A k \in 1 .. n + 1 : more[k] \in Versions /\ IsOf(s2, more[k], i) /\ s2.versions[more[k]].num = k
    <3> SUFFICES ASSUME NEW k \in 1 .. n + 1
                 PROVE  more[k] \in Versions /\ IsOf(s2, more[k], i) /\ s2.versions[more[k]].num = k
      OBVIOUS
    <3>1. CASE k = n + 1
      <4> HIDE DEF v
      <4> QED
        BY <1>5, <1>11, <1>14, <2>1, <2>2, <3>1
    <3>2. CASE k \in 1 .. n
      <4>1. more[k] = ids[k] /\ ids[k] \in Versions \ {v} /\ IsOf(s, ids[k], i) /\ s.versions[ids[k]].num = k
        BY <1>14, <2>1, <2>3, <3>2
      <4> HIDE DEF v
      <4> QED
        BY <1>10, <1>14, <4>1
    <3> QED
      BY <2>1, <3>1, <3>2
  <2>7. \A w \in Versions : IsOf(s2, w, i) => \E k \in 1 .. n + 1 : more[k] = w
    <3> SUFFICES ASSUME NEW w \in Versions, IsOf(s2, w, i) PROVE \E k \in 1 .. n + 1 : more[k] = w
      OBVIOUS
    <3>1. CASE w = v
      BY <2>1, <3>1
    <3>2. CASE w # v
      <4>1. PICK k \in 1 .. n : ids[k] = w
        BY <1>14, <2>4, <3>2
      <4> QED
        BY <2>1, <4>1
    <3> QED
      BY <3>1, <3>2
  <2> QED
    BY <2>1, <2>5, <2>6, <2>7 DEF Numbered, Listed
<1>19. PointsRight(s2, i)
  <2>1. \A w \in Versions \ {v} : Status(s, w) = "deployed" /\ IsOf(s, w, i) => w = meta.deployed /\ w # None
    BY <1>16, SpecStoreAssumption DEF PointsRight, Versions
  <2>2. CASE deploy
    <3>1. old = {meta.deployed} \ {None}
      BY <2>2
    <3>2. \A w \in Versions \ {v} : IsOf(s2, w, i) => Status(s2, w) # "deployed"
      BY <1>10, <1>14, <2>1, <3>1
    <3> HIDE DEF v, meta, old
    <3>3. s2.idents[i].deployed = v /\ s2.idents[i].draft = None /\ Status(s2, v) = "deployed"
      BY <1>11, <1>12, <2>2
    <3>4. IsOf(s2, v, i) /\ v \in Versions
      BY <1>5, <1>14
    <3> QED
      BY <3>2, <3>3, <3>4 DEF PointsRight
  <2>3. CASE ~deploy
    <3>1. \A w \in Versions \ {v} : Status(s2, w) = Status(s, w)
      BY <1>10, <2>3
    <3>2. meta.deployed # None => /\ meta.deployed \in Versions \ {v}
                                  /\ IsOf(s, meta.deployed, i) /\ Status(s, meta.deployed) = "deployed"
      BY <1>13, <1>16 DEF PointsRight
    <3> HIDE DEF v, meta, old
    <3>3. s2.idents[i].deployed = meta.deployed /\ s2.idents[i].draft = v /\ Status(s2, v) = "draft"
      BY <1>11, <1>12, <2>3
    <3>4. IsOf(s2, v, i) /\ v \in Versions
      BY <1>5, <1>14
    <3>5. \A w \in Versions : IsOf(s2, w, i) /\ Status(s2, w) = "deployed" => w = meta.deployed
      BY <1>14, <2>1, <3>1, <3>3
    <3>6. meta.deployed # None => /\ meta.deployed \in Versions /\ IsOf(s2, meta.deployed, i)
                                  /\ Status(s2, meta.deployed) = "deployed"
      BY <1>14, <3>1, <3>2
    <3> QED
      BY <3>3, <3>4, <3>5, <3>6 DEF PointsRight
  <2> QED
    BY <2>2, <2>3
<1>20. Queued(s2)
  BY <1>9, <1>10, <1>11, <1>16 DEF Queued
<1>21. Cleared(s2, ap)
  <2>1. \A w \in Versions \ {v} : Status(s2, w) \in {"archived", Status(s, w)}
    BY <1>10
  <2> HIDE DEF v
  <2>2. \A w \in Versions \ {v} :
          /\ Status(s2, w) \in {"draft", "proposed"} /\ s2.versions[w].approved => w \in ap
          /\ gate /\ Status(s2, w) = "deployed" => w \in ap \/ s2.versions[w].bypass
    BY <1>10, <1>16, <2>1 DEF Cleared
  <2>3. ~s2.versions[v].approved
    BY <1>11
  <2>4. gate /\ Status(s2, v) = "deployed" => s2.versions[v].bypass
    BY <1>11
  <2> QED
    BY <2>2, <2>3, <2>4 DEF Cleared
<1>22. Sound(s2, m + 1, ap)
  BY <1>8, <1>15, <1>17, <1>18, <1>19, <1>20, <1>21 DEF Sound
<1>23. Sound(Retain(s2, i), m + 1, ap) /\ Leaves(s2, Retain(s2, i), i)
  BY <1>22, RetainKeeps
<1>24. \A w \in Versions \ {v} : w \in old /\ Status(s, w) # "none" <=> deploy /\ Serves(s, w, i)
  <2>1. \A w \in Versions : w # None
    BY SpecStoreAssumption DEF Versions
  <2> QED
    BY <1>16, <2>1 DEF PointsRight, Serves
<1> HIDE DEF old, v
<1>25. Retain(s2, i).versions[v].ident = i
       /\ Status(Retain(s2, i), v) = IF deploy THEN "deployed" ELSE "draft"
  BY <1>5, <1>11, <1>23 DEF Leaves
<1>26. ASSUME NEW w \in Versions \ {v}
       PROVE  /\ Retain(s2, i).versions[w].ident = s.versions[w].ident
              /\ \/ Status(Retain(s2, i), w) = IF deploy /\ Serves(s, w, i) THEN "archived"
                                               ELSE Status(s, w)
                 \/ /\ Status(Retain(s2, i), w) = "archived"
                    /\ Status(s, w) \in {"proposed", "rejected"} /\ IsOf(s, w, i)
  <2>1. /\ s2.versions[w].ident = s.versions[w].ident
        /\ Status(s2, w) = IF deploy /\ Serves(s, w, i) THEN "archived" ELSE Status(s, w)
        /\ IsOf(s2, w, i) <=> IsOf(s, w, i)
    BY <1>10, <1>14, <1>24
  <2> QED
    BY <1>23, <2>1 DEF Leaves
<1>27. Makes(s, Retain(s2, i), i, v, deploy)
  BY <1>13, <1>25, <1>26 DEF Makes
<1> QED
  BY <1>1, <1>23, <1>27 DEF v

-----------------------------------------------------------------------------
(* The whole: what is stored, and what the requests have loaded.              *)

(* What is sound stays so when more versions are made and approved.           *)
LEMMA SoundStays ==
  ASSUME NEW s, NEW m \in Nat, NEW m2 \in Nat, NEW ap, NEW ap2, Sound(s, m, ap), m <= m2, ap \subseteq ap2
  PROVE  Sound(s, m2, ap2)
<1>1. Known(s, m2)
  <2>1. \A v \in Versions : v \in Nat
    BY DEF Versions
  <2> QED
    BY <2>1 DEF Sound, Known
<1>2. Cleared(s, ap2)
  BY DEF Sound, Cleared
<1> QED
  BY <1>1, <1>2 DEF Sound

(* Nothing is made, nothing is wrong.                                         *)
LEMMA EmptyIsSound ==
  Sound(EmptyStore, 0, {})
<1> DEFINE V == [v \in Versions |-> NoVersion]
           I == [i \in Identities |-> NoMeta]
<1>1. NoVersion \in VersionRecords
  BY DEF NoVersion, VersionRecords, Statuses
<1>2. NoMeta \in MetaRecords
  <2>1. <<>> \in Seq(Versions)
    OBVIOUS
  <2> QED
    BY <2>1 DEF NoMeta, MetaRecords
<1>3. V \in [Versions -> VersionRecords] /\ I \in [Identities -> MetaRecords]
  BY <1>1, <1>2
<1>4. EmptyStore = [versions |-> V, idents |-> I, proposals |-> {}]
  BY DEF EmptyStore
<1>5. /\ EmptyStore.versions = V /\ EmptyStore.idents = I
      /\ \A v \in Versions : V[v] = NoVersion
      /\ \A i \in Identities : I[i] = NoMeta
  BY <1>4
<1> HIDE DEF V, I
<1>6. EmptyStore \in Stores
  BY <1>3, <1>4, StoreOfParts
<1>7. NoVersion.status = "none" /\ NoMeta.deployed = None /\ NoMeta.draft = None /\ NoMeta.cursor = 0
      /\ NoMeta.ids = <<>> /\ Len(NoMeta.ids) = 0
  BY DEF NoVersion, NoMeta
<1>8. \A v \in Versions : Status(EmptyStore, v) = "none"
  BY <1>5, <1>7 DEF Status
<1>9. \A v \in Versions, i \in Identities : ~IsOf(EmptyStore, v, i)
  BY <1>8 DEF IsOf
<1>10. Known(EmptyStore, 0) /\ Queued(EmptyStore) /\ Cleared(EmptyStore, {})
  BY <1>8 DEF Known, Queued, Cleared
<1>11. ASSUME NEW i \in Identities PROVE PointsRight(EmptyStore, i) /\ Numbered(EmptyStore, i)
  <2>1. EmptyStore.idents[i] = NoMeta
    BY <1>5
  <2>2. PointsRight(EmptyStore, i)
    BY <1>7, <1>9, <2>1 DEF PointsRight
  <2>3. Numbered(EmptyStore, i)
    BY <1>7, <1>9, <2>1 DEF Numbered
  <2> QED
    BY <2>2, <2>3
<1> QED
  BY <1>6, <1>10, <1>11 DEF Sound

(* The store a replica may find when it starts: what is in it is of one spec. *)
Holds(s, i) == \A w \in Versions : Status(s, w) # "none" => s.versions[w].ident = i
LEMMA ReviewedIsSound ==
  ASSUME SpecStoreAssumption, NEW i \in Identities
  PROVE  Sound(Reviewed(i), 2, {}) /\ Holds(Reviewed(i), i)
<1> DEFINE first == CreateVersion(EmptyStore, i, 1, TRUE, TRUE)
           second == CreateVersion(first, i, 2, FALSE, FALSE)
<1>1. 1 \in Versions /\ 2 \in Versions /\ 0 + 1 = 1 /\ 1 + 1 = 2 /\ 0 \in Nat /\ 1 \in Nat
  BY SpecStoreAssumption DEF Versions
<1>2. Sound(first, 1, {}) /\ Makes(EmptyStore, first, i, 1, TRUE)
  <2>1. /\ Sound(CreateVersion(EmptyStore, i, 0 + 1, TRUE, TRUE), 0 + 1, {})
        /\ Makes(EmptyStore, CreateVersion(EmptyStore, i, 0 + 1, TRUE, TRUE), i, 0 + 1, TRUE)
    BY <1>1, EmptyIsSound, CreateKeeps
  <2> QED
    BY <1>1, <2>1
<1> HIDE DEF first
<1>3. Holds(first, i)
  <2>1. \A w \in Versions : Status(EmptyStore, w) = "none"
    BY DEF EmptyStore, NoVersion, Status
  <2> QED
    BY <1>2, <2>1 DEF Makes, Serves, Holds
<1>4. Sound(second, 2, {}) /\ Makes(first, second, i, 2, FALSE)
  <2>1. /\ Sound(CreateVersion(first, i, 1 + 1, FALSE, FALSE), 1 + 1, {})
        /\ Makes(first, CreateVersion(first, i, 1 + 1, FALSE, FALSE), i, 1 + 1, FALSE)
    BY <1>1, <1>2, CreateKeeps
  <2> QED
    BY <1>1, <2>1
<1> HIDE DEF second
<1>5. Status(second, 2) = "draft" /\ Holds(second, i)
  BY <1>1, <1>3, <1>4 DEF Makes, Holds
<1>6. /\ Sound(ProposeVersion(second, 2), 2, {})
      /\ OneChanges(second, ProposeVersion(second, 2), 2)
  BY <1>1, <1>4, <1>5, ProposeKeeps
<1>7. Holds(ProposeVersion(second, 2), i)
  BY <1>1, <1>5, <1>6 DEF OneChanges, Holds
<1> QED
  BY <1>6, <1>7 DEF Reviewed, first, second

(* The service starts soundly.                                               *)
LEMMA StoreInit == Init => StoreInv
<1> SUFFICES ASSUME Init PROVE StoreInv
  OBVIOUS
<1>1. Sound(store, made, approvals) /\ made \in 0 .. MaxVersions
  <2>1. CASE store = EmptyStore /\ made = 0
    BY <2>1, EmptyIsSound, SpecStoreAssumption DEF Init
  <2>2. CASE store \in {Reviewed(i) : i \in Identities} /\ made = 2
    <3>1. PICK i \in Identities : store = Reviewed(i)
      BY <2>2
    <3>2. 2 \in 0 .. MaxVersions
      BY SpecStoreAssumption
    <3> QED
      BY <2>2, <3>1, <3>2, ReviewedIsSound, SpecStoreAssumption DEF Init
  <2> QED
    BY <2>1, <2>2 DEF Init
<1>2. RequestOK(NoRequest)
  <2>1. EmptyStore \in Stores
    BY EmptyIsSound DEF Sound
  <2> QED
    BY <2>1 DEF RequestOK, NoRequest, RequestRecords, VersionOps
<1>3. DOMAIN req = Requests /\ \A r \in Requests : RequestOK(req[r])
  BY <1>2 DEF Init
<1> QED
  BY <1>1, <1>3 DEF Init, StoreInv, Sights, Vacancies
-----------------------------------------------------------------------------
(* The requests.                                                              *)

(* A request takes the place of another one, and the store is left alone.     *)
LEMMA RequestMoves ==
  ASSUME StoreInv, NEW r \in Requests, NEW q,
         req' = [req EXCEPT ![r] = q], RequestOK(q),
         UNCHANGED <<backend, gate, store, shown, vacant, made, approvals>>
  PROVE  StoreInv'
<1>1. req' = [t \in Requests |-> IF t = r THEN q ELSE req[t]]
  BY DEF StoreInv
<1>2. \A t \in Requests : RequestOK(req'[t])
  BY <1>1 DEF StoreInv
<1>3. ASSUME NEW t \in Requests PROVE RequestOK(req[t])'
  <2>1. RequestOK(req'[t])
    BY <1>2
  <2> QED
    BY <2>1 DEF RequestOK, Sound, Cleared, Applies, MayDeploy
<1>4. Sound(store, made, approvals)'
  BY DEF StoreInv, Sound, Cleared
<1> QED
  BY <1>1, <1>3, <1>4 DEF StoreInv

(* A request loads the state, and its operation applies to it.                *)
LEMMA LoadsKeeps ==
  ASSUME StoreInv, NEW r \in Requests, NEW q \in RequestRecords, Loads(r, q),
         q.op # "none", q.ident \in Identities, q.op \in VersionOps => q.vid \in Versions
  PROVE  StoreInv'
<1> DEFINE q2 == [q EXCEPT !.pc = "save", !.snap = store]
<1>1. /\ Applies(q, store) /\ req' = [req EXCEPT ![r] = q2]
      /\ UNCHANGED <<backend, gate, store, shown, vacant, made, approvals>>
  BY DEF Loads, setting, history
<1>2. Sound(store, made, approvals) /\ store \in Stores
  BY DEF StoreInv, Sound
<1>3. /\ q2 \in RequestRecords /\ q2.pc = "save" /\ q2.snap = store
      /\ q2.op = q.op /\ q2.ident = q.ident /\ q2.vid = q.vid
  BY <1>2 DEF RequestRecords
<1> HIDE DEF q2
<1>4. Applies(q2, store)
  BY <1>1, <1>3 DEF Applies
<1>5. RequestOK(q2)
  BY <1>2, <1>3, <1>4 DEF RequestOK
<1> QED
  BY <1>1, <1>5, RequestMoves

(* A request that begins.                                                     *)
LEMMA RequestsAreRecords ==
  ASSUME NEW op \in {"delete"} \union CreatingOps \union VersionOps, NEW i \in Identities
  PROVE  /\ Request(op, i) \in RequestRecords /\ Request(op, i).op = op /\ Request(op, i).ident = i
<1>1. EmptyStore \in Stores
  BY EmptyIsSound DEF Sound
<1>2. NoRequest \in RequestRecords
  BY <1>1 DEF NoRequest, RequestRecords
<1> QED
  BY <1>2 DEF Request, RequestRecords

(* A request that begins loads the state for its operation.                   *)
Loading(r) == \E q \in RequestRecords :
  /\ Loads(r, q)
  /\ q.op \notin {"none", "create"} /\ q.ident \in Identities
  /\ q.op \in VersionOps => q.vid \in Versions
LEMMA BegunLoads ==
  ASSUME SpecStoreAssumption, StoreInv, NEW r \in Requests,
         \/ PostAgent(r) \/ NewVersion(r) \/ OnVersion(r) \/ Delete(r) \/ ForkAgent(r) \/ Seed(r)
  PROVE  Loading(r)
<1>1. ASSUME NEW op \in {"delete", "make", "seed"}, NEW i \in Identities, Begins(r, Request(op, i))
      PROVE  Loading(r)
  <2>1. op \notin VersionOps /\ op \notin {"none", "create"}
        /\ op \in {"delete"} \union CreatingOps
    BY DEF CreatingOps, VersionOps
  <2>2. Request(op, i) \in RequestRecords /\ Request(op, i).op = op /\ Request(op, i).ident = i
    BY <2>1, RequestsAreRecords
  <2>3. Loads(r, Request(op, i))
    BY <1>1 DEF Begins
  <2> QED
    BY <2>1, <2>2, <2>3 DEF Loading
<1>2. ASSUME NEW op \in VersionOps, NEW i \in Identities, NEW v \in 1 .. made,
             Begins(r, [Request(op, i) EXCEPT !.vid = v])
      PROVE  Loading(r)
  <2> DEFINE q == [Request(op, i) EXCEPT !.vid = v]
  <2>1. op \notin {"none", "create"}
    BY DEF VersionOps
  <2>2. Request(op, i) \in RequestRecords /\ Request(op, i).op = op /\ Request(op, i).ident = i
    BY RequestsAreRecords
  <2>3. v \in Versions
    BY SpecStoreAssumption DEF StoreInv, Versions
  <2>4. q \in RequestRecords /\ q.op = op /\ q.ident = i /\ q.vid = v
    BY <2>2, <2>3 DEF RequestRecords
  <2>5. Loads(r, q)
    BY <1>2 DEF Begins
  <2> HIDE DEF q
  <2> QED
    BY <2>1, <2>3, <2>4, <2>5 DEF Loading
<1>3. \A c \in Users, n \in Names : <<c, n>> \in Identities /\ <<System, n>> \in Identities
  BY DEF Identities, Owners
<1>4. shown \subseteq Identities /\ vacant \subseteq Identities
  BY DEF StoreInv
<1>6. CASE PostAgent(r)
  BY <1>1, <1>3, <1>6 DEF PostAgent
<1>7. CASE NewVersion(r)
  BY <1>1, <1>4, <1>7 DEF NewVersion
<1>8. CASE OnVersion(r)
  BY <1>2, <1>4, <1>8 DEF OnVersion
<1>9. CASE Delete(r)
  BY <1>1, <1>4, <1>9 DEF Delete
<1>10. CASE ForkAgent(r)
  BY <1>1, <1>3, <1>10 DEF ForkAgent
<1>11. CASE Seed(r)
  <2>1. \A n \in Names : <<System, n>> \in Identities
    BY DEF Identities, Owners
  <2> QED
    BY <1>1, <1>11, <2>1 DEF Seed
<1> QED
  BY <1>6, <1>7, <1>8, <1>9, <1>10, <1>11

(* And that keeps the invariant.                                              *)
LEMMA BeginsKeeps ==
  ASSUME StoreInv, NEW r \in Requests, Loading(r)
  PROVE  StoreInv'
BY LoadsKeeps DEF Loading

(* The steps of a create around its load, and the end of a request.           *)
LEMMA NoRequestIsOK == RequestOK(NoRequest)
<1>1. EmptyStore \in Stores
  BY EmptyIsSound DEF Sound
<1> QED
  BY <1>1 DEF RequestOK, NoRequest, RequestRecords, VersionOps

(* A request that goes on without touching the store keeps the invariant.     *)
LEMMA GoesOn ==
  ASSUME StoreInv, NEW r \in Requests, NEW pc \in {"load", "release"}, Go(r, pc),
         req[r].op = "create" \/ pc = "release", req[r].pc # "idle",
         UNCHANGED <<backend, gate, store, shown, vacant, made, approvals>>
  PROVE  StoreInv'
<1> DEFINE q2 == [req[r] EXCEPT !.pc = pc]
<1>1. RequestOK(req[r]) /\ req' = [req EXCEPT ![r] = q2]
  BY DEF StoreInv, Go
<1>2. /\ q2 \in RequestRecords /\ q2.pc = pc
      /\ q2.op = req[r].op /\ q2.ident = req[r].ident /\ q2.vid = req[r].vid
  BY <1>1 DEF RequestOK, RequestRecords
<1> HIDE DEF q2
<1>3. RequestOK(q2)
  BY <1>1, <1>2 DEF RequestOK
<1> QED
  BY <1>1, <1>3, RequestMoves

(* So do the steps of a create around its save, and the end of any request.   *)
LEMMA CreatingKeeps ==
  ASSUME StoreInv, NEW r \in Requests,
         \/ Claim(r) \/ Check(r) \/ CreateLoad(r) \/ Release(r) \/ CreateFails(r) \/ Dropped(r)
  PROVE  StoreInv'
<1>1. RequestOK(req[r])
  BY DEF StoreInv
<1>2. CASE Claim(r)
  <2>1. PICK c \in Users, n \in Names :
          /\ req' = [req EXCEPT ![r] = [Request("create", <<c, n>>) EXCEPT !.pc = "check"]]
          /\ UNCHANGED <<backend, gate, store, shown, vacant, made, approvals>>
    BY <1>2 DEF Claim, setting, history
  <2> DEFINE i == <<c, n>>  q == [Request("create", i) EXCEPT !.pc = "check"]
  <2>2. i \in Identities /\ "create" \in CreatingOps /\ "create" \notin VersionOps
    BY DEF Identities, Owners, CreatingOps, VersionOps
  <2> HIDE DEF i
  <2>3. Request("create", i) \in RequestRecords /\ Request("create", i).op = "create"
        /\ Request("create", i).ident = i
    BY <2>2, RequestsAreRecords
  <2>4. q \in RequestRecords /\ q.op = "create" /\ q.ident = i /\ q.pc = "check"
    BY <2>3 DEF RequestRecords
  <2>5. req' = [req EXCEPT ![r] = q]
    BY <2>1 DEF i
  <2> HIDE DEF q
  <2>6. RequestOK(q)
    BY <2>2, <2>4 DEF RequestOK
  <2> QED
    BY <2>1, <2>5, <2>6, RequestMoves
<1>3. CASE Check(r)
  BY <1>1, <1>3, GoesOn DEF Check, setting, history, RequestOK
<1>4. CASE CreateLoad(r)
  <2>1. req[r].op = "create" /\ req[r] \in RequestRecords /\ req[r].ident \in Identities
    BY <1>1, <1>4 DEF CreateLoad, RequestOK
  <2>2. "create" \notin VersionOps /\ Loads(r, req[r])
    BY <1>4 DEF VersionOps, CreateLoad
  <2> QED
    BY <2>1, <2>2, LoadsKeeps
<1>5. CASE CreateFails(r)
  BY <1>1, <1>5, GoesOn DEF CreateFails, setting, history
<1>6. CASE Release(r) \/ Dropped(r)
  BY <1>6, NoRequestIsOK, RequestMoves DEF Release, Dropped, Finish, setting, history
<1> QED
  BY <1>2, <1>3, <1>4, <1>5, <1>6

(* A save puts a sound state in place, whatever was saved since the load, and *)
(* what begins to serve had been approved before.                             *)
Fresh(s, ap) == \A v \in Versions :
  gate /\ Status(s, v) = "deployed" => v \in ap \/ s.versions[v].bypass
MadeBy(q) == IF q.op \in CreatingOps THEN made + 1 ELSE made
ApprovedBy(q) == IF q.op = "approve" THEN approvals \union {q.vid} ELSE approvals

(* A sound state serves only what has been cleared.                           *)
LEMMA ClearedIsFresh ==
  ASSUME NEW s, NEW m, NEW ap, Sound(s, m, ap)
  PROVE  Fresh(s, ap)
BY DEF Sound, Cleared, Fresh

(* Whatever operation is applied to a sound state it applies to, the result   *)
(* is sound, and serves only what had been cleared before.                    *)
LEMMA ChangedIsSound ==
  ASSUME SpecStoreAssumption, NEW q, made \in 0 .. MaxVersions, gate \in BOOLEAN,
         q.op \in {"delete"} \union CreatingOps \union VersionOps, q.ident \in Identities,
         q.op \in VersionOps => q.vid \in Versions,
         q.op \in CreatingOps => made < MaxVersions,
         Sound(q.snap, made, approvals), Applies(q, q.snap)
  PROVE  /\ Sound(Changed(q, made + 1), MadeBy(q), ApprovedBy(q))
         /\ Fresh(Changed(q, made + 1), approvals)
<1> DEFINE s2 == Changed(q, made + 1)
<1>1. made \in Nat /\ MaxVersions \in Nat
  BY SpecStoreAssumption
<1>2. CASE q.op \in CreatingOps
  <2>1. s2 = Created(q, made + 1)
    BY <1>2 DEF Changed, CreatingOps
  <2>2. /\ Deploys(q) \in BOOLEAN /\ Bypasses(q) \in BOOLEAN
        /\ gate /\ Deploys(q) => Bypasses(q)
        /\ made + 1 \in Versions
    BY <1>1, <1>2 DEF Versions, Deploys, Bypasses
  <2>3. q.op # "approve"
    BY <1>2 DEF CreatingOps
  <2>4. MadeBy(q) = made + 1 /\ ApprovedBy(q) = approvals
    BY <1>2, <2>3 DEF MadeBy, ApprovedBy
  <2> HIDE DEF s2
  <2>5. Sound(s2, made + 1, approvals)
    <3> DEFINE deploy == Deploys(q)  bypass == Bypasses(q)
    <3>1. deploy \in BOOLEAN /\ bypass \in BOOLEAN /\ (gate /\ deploy => bypass)
      BY <2>2
    <3>2. s2 = CreateVersion(q.snap, q.ident, made + 1, deploy, bypass)
      BY <2>1 DEF Created
    <3> HIDE DEF deploy, bypass
    <3> QED
      BY <1>1, <2>2, <3>1, <3>2, CreateKeeps, SpecStoreAssumption
  <2>6. Fresh(s2, approvals)
    BY <2>5, ClearedIsFresh
  <2> QED
    BY <2>4, <2>5, <2>6 DEF s2
<1>3. CASE q.op = "approve"
  <2>1. s2 = ApproveVersion(q.snap, q.vid)
    BY <1>3 DEF Changed, CreatingOps
  <2>2. q.vid \in Versions /\ Status(q.snap, q.vid) = "proposed"
    BY <1>3 DEF Applies, CreatingOps, VersionOps
  <2>3. MadeBy(q) = made /\ ApprovedBy(q) = approvals \union {q.vid}
    BY <1>3 DEF MadeBy, ApprovedBy, CreatingOps
  <2> HIDE DEF s2
  <2>4. Sound(s2, made, approvals \union {q.vid}) /\ Status(s2, q.vid) = "proposed"
    BY <2>1, <2>2, ApproveKeeps
  <2>5. Fresh(s2, approvals)
    BY <2>4 DEF Sound, Cleared, Fresh
  <2> QED
    BY <2>3, <2>4, <2>5 DEF s2
<1>4. ASSUME q.op \in {"delete", "propose", "reject", "deploy"}
      PROVE  Sound(s2, made, approvals)
  <2>1. CASE q.op = "delete"
    <3>1. s2 = ArchiveIdentity(q.snap, q.ident)
      BY <2>1 DEF Changed, CreatingOps
    <3> HIDE DEF s2
    <3> QED
      BY <3>1, ArchiveKeeps, SpecStoreAssumption
  <2>2. CASE q.op = "propose"
    <3>1. s2 = ProposeVersion(q.snap, q.vid)
      BY <2>2 DEF Changed, CreatingOps
    <3>2. q.vid \in Versions /\ Status(q.snap, q.vid) = "draft"
      BY <2>2 DEF Applies, CreatingOps, VersionOps
    <3> HIDE DEF s2
    <3> QED
      BY <3>1, <3>2, ProposeKeeps
  <2>3. CASE q.op = "reject"
    <3>1. s2 = RejectVersion(q.snap, q.vid)
      BY <2>3 DEF Changed, CreatingOps
    <3>2. q.vid \in Versions /\ Status(q.snap, q.vid) = "proposed"
      BY <2>3 DEF Applies, CreatingOps, VersionOps
    <3> HIDE DEF s2
    <3> QED
      BY <3>1, <3>2, RejectKeeps
  <2>4. CASE q.op = "deploy"
    <3>1. s2 = DeployVersion(q.snap, q.ident, q.vid)
      BY <2>4 DEF Changed, CreatingOps
    <3>2. q.vid \in Versions /\ IsOf(q.snap, q.vid, q.ident) /\ MayDeploy(q.snap, q.vid)
      BY <2>4 DEF Applies, CreatingOps, VersionOps
    <3> HIDE DEF s2
    <3> QED
      BY <3>1, <3>2, DeployKeeps, SpecStoreAssumption
  <2> QED
    BY <1>4, <2>1, <2>2, <2>3, <2>4
<1>5. CASE q.op \in {"delete", "propose", "reject", "deploy"}
  <2>1. MadeBy(q) = made /\ ApprovedBy(q) = approvals
    BY <1>5 DEF MadeBy, ApprovedBy, CreatingOps
  <2> HIDE DEF s2
  <2>2. Sound(s2, made, approvals)
    BY <1>4, <1>5
  <2>3. Fresh(s2, approvals)
    BY <2>2, ClearedIsFresh
  <2> QED
    BY <2>1, <2>2, <2>3 DEF s2
<1> QED
  BY <1>2, <1>3, <1>5 DEF VersionOps

(* The save of a request, as the next state.                                  *)
LEMMA SavesAreSound ==
  ASSUME SpecStoreAssumption, StoreInv, NEW r \in Requests, Written(r)
  PROVE  /\ Sound(store', made', approvals') /\ Fresh(store', approvals)
         /\ made' \in 0 .. MaxVersions /\ made <= made' /\ approvals \subseteq approvals'
         /\ shown' \subseteq Identities /\ vacant' \subseteq Identities
         /\ backend' = backend /\ gate' = gate /\ req[r].pc = "save"
<1> DEFINE q == req[r]
<1>1. /\ q.pc = "save" /\ (q.op \in CreatingOps => made < MaxVersions)
      /\ made' = MadeBy(q) /\ approvals' = ApprovedBy(q)
      /\ store' = Changed(q, made + 1)
      /\ shown' = Remember(shown, Sights(store')) /\ vacant' = Remember(vacant, Vacancies(store'))
      /\ backend' = backend /\ gate' = gate
  BY DEF Written, setting, MadeBy, ApprovedBy
<1>2. RequestOK(q)
  BY DEF StoreInv
<1>3. /\ made \in 0 .. MaxVersions /\ gate \in BOOLEAN
      /\ shown \subseteq Identities /\ vacant \subseteq Identities
  BY DEF StoreInv
<1>4. shown' \subseteq Identities /\ vacant' \subseteq Identities
  BY <1>1, <1>3 DEF Remember, Sights, Vacancies
<1> HIDE DEF q
<1>5. /\ q.op \in {"delete"} \union CreatingOps \union VersionOps
      /\ q.op \in VersionOps => q.vid \in Versions
  BY <1>1, <1>2 DEF RequestOK, RequestRecords
<1>6. q.ident \in Identities /\ Sound(q.snap, made, approvals) /\ Applies(q, q.snap)
  BY <1>1, <1>2 DEF RequestOK
<1>7. Sound(Changed(q, made + 1), MadeBy(q), ApprovedBy(q)) /\ Fresh(Changed(q, made + 1), approvals)
  BY <1>1, <1>3, <1>5, <1>6, ChangedIsSound, SpecStoreAssumption
<1>8. Sound(store', made', approvals') /\ Fresh(store', approvals)
  BY <1>1, <1>7
<1>9. made' \in 0 .. MaxVersions /\ made <= made'
  <2>1. MaxVersions \in Nat
    BY SpecStoreAssumption
  <2> QED
    BY <1>1, <1>3, <2>1 DEF MadeBy
<1>10. approvals \subseteq approvals'
  BY <1>1 DEF ApprovedBy
<1> QED
  BY <1>1, <1>4, <1>8, <1>9, <1>10 DEF q

(* And what the others have loaded stays sound.                               *)
LEMMA SaveKeeps ==
  ASSUME SpecStoreAssumption, StoreInv, NEW r \in Requests, Save(r) \/ SaveUnanswered(r)
  PROVE  StoreInv' /\ Fresh(store', approvals)
<1>1. Written(r) /\ (Go(r, "release") \/ Finish(r))
  BY DEF Save, SaveUnanswered
<1>2. /\ Sound(store', made', approvals') /\ Fresh(store', approvals)
      /\ made' \in 0 .. MaxVersions /\ made <= made' /\ approvals \subseteq approvals'
      /\ shown' \subseteq Identities /\ vacant' \subseteq Identities
      /\ backend' = backend /\ gate' = gate /\ req[r].pc = "save"
  BY <1>1, SavesAreSound
<1>3. made \in Nat /\ made' \in Nat
  BY <1>2 DEF StoreInv
<1> DEFINE q2 == [req[r] EXCEPT !.pc = "release"]
<1>4. req' = [req EXCEPT ![r] = q2] \/ req' = [req EXCEPT ![r] = NoRequest]
  BY <1>1 DEF Go, Finish
<1>5. RequestOK(q2)
  <2>1. RequestOK(req[r])
    BY DEF StoreInv
  <2>2. /\ q2 \in RequestRecords /\ q2.pc = "release"
        /\ q2.op = req[r].op /\ q2.ident = req[r].ident /\ q2.vid = req[r].vid
    BY <2>1 DEF RequestOK, RequestRecords
  <2> HIDE DEF q2
  <2> QED
    BY <1>2, <2>1, <2>2 DEF RequestOK
<1> HIDE DEF q2
<1>6. DOMAIN req = Requests /\ \A t \in Requests : RequestOK(req[t])
  BY DEF StoreInv
<1>7. DOMAIN req' = Requests /\ \A t \in Requests : RequestOK(req'[t])
  BY <1>4, <1>5, <1>6, NoRequestIsOK
<1>8. ASSUME NEW t \in Requests PROVE RequestOK(req[t])'
  <2>1. RequestOK(req'[t])
    BY <1>7
  <2>2. req'[t].pc = "save" => Sound(req'[t].snap, made', approvals')
    BY <1>2, <1>3, <2>1, SoundStays DEF RequestOK
  <2> QED
    BY <1>2, <2>1, <2>2 DEF RequestOK, Sound, Cleared, Applies, MayDeploy
<1>9. Sound(store, made, approvals)'
  BY <1>2 DEF Sound, Cleared
<1>10. backend' \in {"file", "redis"} /\ gate' \in BOOLEAN
  BY <1>2 DEF StoreInv
<1> QED
  BY <1>2, <1>7, <1>8, <1>9, <1>10 DEF StoreInv

(* A step in which nothing of the store or of the requests changes.           *)
LEMMA StoreStutters ==
  ASSUME StoreInv, UNCHANGED vars
  PROVE  StoreInv'
<1>1. /\ backend' = backend /\ gate' = gate /\ store' = store /\ shown' = shown
      /\ vacant' = vacant /\ req' = req /\ made' = made /\ approvals' = approvals
  BY DEF vars, setting, history
<1>2. Sound(store, made, approvals)'
  BY <1>1 DEF StoreInv, Sound, Cleared
<1>3. ASSUME NEW t \in Requests PROVE RequestOK(req[t])'
  <2>1. RequestOK(req[t])
    BY DEF StoreInv
  <2> QED
    BY <1>1, <2>1 DEF RequestOK, Sound, Cleared, Applies, MayDeploy
<1> QED
  BY <1>1, <1>2, <1>3 DEF StoreInv

(* Every step keeps the invariant, and lets only what was cleared begin to    *)
(* serve.                                                                     *)
LEMMA StoreStep ==
  ASSUME SpecStoreAssumption, StoreInv, [Next]_vars
  PROVE  StoreInv' /\ (store' = store \/ Fresh(store', approvals))
<1>1. CASE UNCHANGED vars
  <2>1. store' = store
    BY <1>1 DEF vars
  <2> QED
    BY <1>1, <2>1, StoreStutters
<1>2. ASSUME NEW r \in Requests,
             \/ PostAgent(r) \/ NewVersion(r) \/ OnVersion(r) \/ Delete(r) \/ ForkAgent(r)
             \/ Seed(r)
      PROVE  StoreInv' /\ store' = store
  <2>1. ASSUME NEW q, Begins(r, q) PROVE store' = store
    BY <2>1 DEF Begins, Loads
  <2>2. store' = store
    BY <1>2, <2>1, Zenon DEF PostAgent, NewVersion, OnVersion, Delete, ForkAgent, Seed
  <2> QED
    BY <1>2, <2>2, BegunLoads, BeginsKeeps, SpecStoreAssumption
<1>3. ASSUME NEW r \in Requests,
             \/ Claim(r) \/ Check(r) \/ CreateLoad(r) \/ Release(r) \/ CreateFails(r) \/ Dropped(r)
      PROVE  StoreInv' /\ store' = store
  <2>1. store' = store
    BY <1>3 DEF Claim, Check, CreateLoad, Loads, Release, CreateFails, Dropped
  <2> QED
    BY <1>3, <2>1, CreatingKeeps
<1>4. CASE Next
  BY <1>2, <1>3, <1>4, SaveKeeps, SpecStoreAssumption DEF Next
<1> QED
  BY <1>1, <1>4

-----------------------------------------------------------------------------
(* What is stored, and what any request has loaded, is sound: however the     *)
(* saves of two replicas overtake each other (base_store.py loads all, and    *)
(* saves all of it), what they leave is a state one replica could have made.  *)
THEOREM StoreIsSound == Spec => []StoreInv
<1>1. Init => StoreInv
  BY StoreInit, SpecStoreAssumption
<1>2. StoreInv /\ [Next]_vars => StoreInv'
  BY StoreStep, SpecStoreAssumption
<1> QED
  BY <1>1, <1>2, PTL DEF Spec

(* What an identity serves is the one version of it that is deployed, and its *)
(* draft one of its own (deploy_version, create_version, archive_identity).   *)
THEOREM PointersAlwaysAgree == Spec => []PointersAgree
<1>1. StoreInv => PointersAgree
  <2> SUFFICES ASSUME StoreInv, NEW i \in Identities
               PROVE  LET meta == store.idents[i] IN
                      /\ {v \in Versions : IsOf(store, v, i) /\ Status(store, v) = "deployed"}
                           = {meta.deployed} \ {None}
                      /\ meta.draft # None =>
                           /\ IsOf(store, meta.draft, i)
                           /\ Status(store, meta.draft) \in {"draft", "proposed", "rejected"}
    BY DEF PointersAgree
  <2>1. PointsRight(store, i)
    BY DEF StoreInv, Sound
  <2>2. None \notin Versions
    BY SpecStoreAssumption DEF Versions
  <2> QED
    BY <2>1, <2>2 DEF PointsRight
<1> QED
  BY <1>1, StoreIsSound, PTL

(* The versions of an identity are numbered in the order in which they are    *)
(* listed (create_version), although two replicas may give one number twice.  *)
THEOREM NumbersAreInOrder == Spec => []NumberedInOrder
<1>1. StoreInv => NumberedInOrder
  <2> SUFFICES ASSUME StoreInv, NEW i \in Identities
               PROVE  LET meta == store.idents[i] IN
                      /\ meta.cursor = Len(meta.ids)
                      /\ \A k \in DOMAIN meta.ids :
                           IsOf(store, meta.ids[k], i) /\ store.versions[meta.ids[k]].num = k
                      /\ \A v \in Versions : IsOf(store, v, i) => v \in Ids(store, i)
    BY DEF NumberedInOrder
  <2>1. Numbered(store, i) /\ store \in Stores
    BY DEF StoreInv, Sound
  <2>2. store.idents[i] \in MetaRecords
    BY <2>1, StoreParts
  <2>3. store.idents[i].ids \in Seq(Versions)
    BY <2>2 DEF MetaRecords
  <2>4. DOMAIN store.idents[i].ids = 1 .. Len(store.idents[i].ids)
    BY <2>3
  <2> QED
    BY <2>1, <2>4 DEF Numbered, Listed, Ids
<1> QED
  BY <1>1, StoreIsSound, PTL

(* The administrators' queue shows exactly the proposed versions of the       *)
(* owners whose id has no colon (list_pending_proposals), and none of the     *)
(* others: base_store.py:476 cuts their keys in the wrong place.              *)
THEOREM QueueIsAlwaysComplete == Spec => []QueueIsComplete
<1>1. StoreInv => QueueIsComplete
  <2> SUFFICES ASSUME StoreInv PROVE QueueIsComplete
    OBVIOUS
  <2>1. Queued(store) /\ store \in Stores
    BY DEF StoreInv, Sound
  <2>2. store.proposals \in SUBSET Versions
    BY <2>1, StoreParts
  <2> QED
    BY <2>1, <2>2 DEF Queued, QueueIsComplete, Pending
<1> QED
  BY <1>1, StoreIsSound, PTL

(* With the gate on nothing begins to serve unapproved, unless it came from   *)
(* the configuration or from an agent's tool (deploy_version, create_version).*)
THEOREM GateIsAlwaysKept == Spec => GateIsKept
<1> DEFINE Kept ==
      gate /\ gate' => \A v \in Versions :
        Status(store', v) = "deployed"
        /\ Status(store, v) \in {"none", "draft", "proposed", "rejected"}
          => v \in approvals \/ store'.versions[v].bypass
<1>1. StoreInv /\ [Next]_vars => [Kept]_vars
  <2> SUFFICES ASSUME StoreInv, [Next]_vars PROVE Kept
    OBVIOUS
  <2>1. store' = store \/ Fresh(store', approvals)
    BY StoreStep, SpecStoreAssumption
  <2> QED
    BY <2>1 DEF Fresh, Status
<1> QED
  BY <1>1, StoreIsSound, PTL DEF Spec, GateIsKept

-----------------------------------------------------------------------------
(* The refinement.  On the file backend a request that has begun is alone,    *)
(* and what it has loaded is what is stored.                                  *)
Alone == backend = "file" => \A r \in Requests : req[r].pc # "idle" =>
  /\ req[r].pc = "save" => req[r].snap = store
  /\ \A q \in Requests \ {r} : req[q].pc = "idle"

(* A step of a request that is alone.                                         *)
LEMMA TurnKeepsAlone ==
  ASSUME StoreInv, Alone, NEW r \in Requests, NEW q, Turn(r), req' = [req EXCEPT ![r] = q],
         backend' = backend, q.pc = "save" => q.snap = store'
  PROVE  Alone'
<1>1. backend = "file" => \A t \in Requests \ {r} : req[t].pc = "idle"
  BY DEF Turn
<1>2. req'[r] = q /\ \A t \in Requests \ {r} : req'[t] = req[t]
  BY DEF StoreInv
<1> QED
  BY <1>1, <1>2 DEF Alone

(* A request that loads what is stored.                                      *)
LEMMA LoadsAlone ==
  ASSUME StoreInv, Alone, NEW r \in Requests, NEW q \in RequestRecords, Loads(r, q)
  PROVE  Alone'
<1> DEFINE q2 == [q EXCEPT !.pc = "save", !.snap = store]
<1>1. Turn(r) /\ req' = [req EXCEPT ![r] = q2] /\ backend' = backend /\ store' = store
  BY DEF Loads, setting
<1>2. q2.snap = store
  BY DEF RequestRecords
<1> HIDE DEF q2
<1> QED
  BY <1>1, <1>2, TurnKeepsAlone

(* Requests on the file backend stay alone.                                  *)
LEMMA AloneStep ==
  ASSUME SpecStoreAssumption, StoreInv, Alone, [Next]_vars
  PROVE  Alone'
<1>1. CASE UNCHANGED vars
  BY <1>1 DEF vars, setting, Alone
<1>2. ASSUME NEW r \in Requests,
             \/ PostAgent(r) \/ NewVersion(r) \/ OnVersion(r) \/ Delete(r) \/ ForkAgent(r)
             \/ Seed(r)
      PROVE  Alone'
  BY <1>2, BegunLoads, LoadsAlone, SpecStoreAssumption DEF Loading
<1>3. ASSUME NEW r \in Requests, CreateLoad(r)
      PROVE  Alone'
  BY <1>3, LoadsAlone DEF CreateLoad, StoreInv, RequestOK
<1>4. ASSUME NEW r \in Requests, NEW pc \in {"load", "release"}, Go(r, pc)
      PROVE  \E q : req' = [req EXCEPT ![r] = q] /\ q.pc # "save"
  <2>1. req[r] \in RequestRecords
    BY DEF StoreInv, RequestOK
  <2>2. [req[r] EXCEPT !.pc = pc].pc # "save"
    BY <2>1 DEF RequestRecords
  <2> QED
    BY <1>4, <2>2 DEF Go
<1>5. NoRequest.pc # "save"
  BY DEF NoRequest
<1>6. ASSUME NEW r \in Requests, Claim(r)
      PROVE  Alone'
  <2>1. PICK c \in Users, n \in Names :
          req' = [req EXCEPT ![r] = [Request("create", <<c, n>>) EXCEPT !.pc = "check"]]
    BY <1>6 DEF Claim
  <2> DEFINE i == <<c, n>>  q == [Request("create", i) EXCEPT !.pc = "check"]
  <2>2. i \in Identities /\ "create" \in CreatingOps
    BY DEF Identities, Owners, CreatingOps
  <2>3. Request("create", i) \in RequestRecords
    BY <2>2, RequestsAreRecords
  <2>4. q.pc # "save"
    BY <2>3 DEF RequestRecords
  <2>5. req' = [req EXCEPT ![r] = q]
    BY <2>1
  <2> HIDE DEF q
  <2>6. Turn(r) /\ backend' = backend
    BY <1>6 DEF Claim, setting
  <2> QED
    BY <2>4, <2>5, <2>6, TurnKeepsAlone
<1>7. ASSUME NEW r \in Requests, Check(r) \/ Release(r) \/ Save(r)
      PROVE  Alone'
  <2>1. Turn(r) /\ backend' = backend
    BY <1>7 DEF Check, Release, Save, Written, setting
  <2>2. \E q : req' = [req EXCEPT ![r] = q] /\ q.pc # "save"
    BY <1>4, <1>5, <1>7 DEF Check, Release, Save, Finish
  <2> QED
    BY <2>1, <2>2, TurnKeepsAlone
<1>8. ASSUME NEW r \in Requests, SaveUnanswered(r) \/ CreateFails(r) \/ Dropped(r)
      PROVE  Alone'
  <2>1. backend = "redis" /\ backend' = backend
    BY <1>8 DEF SaveUnanswered, Written, CreateFails, Dropped, setting
  <2> QED
    BY <2>1 DEF Alone
<1> QED
  BY <1>1, <1>2, <1>3, <1>6, <1>7, <1>8 DEF Next

(* What a save makes of what the store shows.                                 *)
OnFile == Recorded /\ Recorded' /\ gate' = gate

(* What the ledger shows is what is stored; the homes stay as they are unless *)
(* a version appears.                                                         *)
LEMMA FileShows ==
  ASSUME OnFile
  PROVE  /\ \A w \in Versions : States[w] = Status(store, w) /\ States'[w] = Status(store', w)
         /\ \A w \in Versions : Status(store, w) # "none" => Homes[w] = store.versions[w].ident
         /\ \A w \in Versions, i \in Identities : IsOf(store, w, i) => Homes[w] = i
         /\ (\A w \in Versions : /\ store'.versions[w].ident = store.versions[w].ident
                                 /\ Status(store', w) = "none" <=> Status(store, w) = "none")
              => Homes' = Homes
<1>1. \A w \in Versions : States[w] = Status(store, w) /\ States'[w] = Status(store', w)
  BY DEF States, OnFile, Recorded
<1>2. \A w \in Versions : Status(store, w) # "none" => Homes[w] = store.versions[w].ident
  BY DEF Homes, OnFile, Recorded
<1>3. ASSUME \A w \in Versions : /\ store'.versions[w].ident = store.versions[w].ident
                                 /\ Status(store', w) = "none" <=> Status(store, w) = "none"
      PROVE  Homes' = Homes
  BY <1>3 DEF Homes, OnFile, Recorded
<1> QED
  BY <1>1, <1>2, <1>3 DEF IsOf

(* A function on the versions is given by its values.                         *)
LEMMA ShownByVersion ==
  /\ States = [w \in Versions |-> States[w]] /\ Homes = [w \in Versions |-> Homes[w]]
  /\ States' = [w \in Versions |-> States'[w]] /\ Homes' = [w \in Versions |-> Homes'[w]]
BY DEF States, Homes

(* A version that becomes something else.                                    *)
LEMMA OneIsRecorded ==
  ASSUME OnFile, NEW v \in Versions, OneChanges(store, store', v), Status(store, v) # "none",
         NEW t, t # "none", Status(store', v) = t
  PROVE  States' = [States EXCEPT ![v] = t] /\ Homes' = Homes
<1>1. /\ \A w \in Versions : States[w] = Status(store, w) /\ States'[w] = Status(store', w)
      /\ \A w \in Versions : Homes'[w] = Homes[w]
  <2> SUFFICES ASSUME NEW w \in Versions
               PROVE  /\ States[w] = Status(store, w) /\ States'[w] = Status(store', w)
                      /\ Homes'[w] = Homes[w]
    OBVIOUS
  <2>1. store'.versions[w].ident = store.versions[w].ident
    BY DEF OneChanges
  <2>2. Status(store', w) = "none" <=> Status(store, w) = "none"
    BY DEF OneChanges
  <2> QED
    BY <2>1, <2>2 DEF States, Homes, OnFile, Recorded
<1>2. \A w \in Versions \ {v} : States'[w] = States[w]
  BY <1>1 DEF OneChanges
<1> QED
  BY <1>1, <1>2, ShownByVersion

(* The operations of the ledger, said of what the store shows.                *)
Made(v, i, t, S) ==
  /\ States[v] = "none"
  /\ Homes' = [Homes EXCEPT ![v] = i]
  /\ S \in SUBSET Ledger!TooMany(i)
  /\ States' = Ledger!Retire(S \union (IF t = "deployed" THEN Ledger!Rivals(v, i) ELSE {}),
                              [States EXCEPT ![v] = t])
  /\ Approvals' = Approvals /\ gate' = gate

(* That is a step of the ledger.                                             *)
LEMMA MakeInLedger ==
  ASSUME NEW v \in Versions, NEW i \in {Homes'[w] : w \in Versions},
         NEW t \in {"draft", "deployed"}, NEW S, Made(v, i, t, S)
  PROVE  Ledger!Make
BY DEF Made, Ledger!Make

(* A version that is made.                                                   *)
LEMMA MakeIsRecorded ==
  ASSUME OnFile, NEW v \in Versions, NEW i \in Identities, NEW deploy \in BOOLEAN,
         Makes(store, store', i, v, deploy), approvals' = approvals
  PROVE  Ledger!Make
<1> DEFINE t == IF deploy THEN "deployed" ELSE "draft"
           S == {w \in Versions : /\ States[w] \in {"proposed", "rejected"} /\ Homes[w] = i
                                  /\ States'[w] = "archived"}
           R == {w \in Versions \ {v} : Homes[w] = i /\ States[w] = "deployed"}
           X == S \union (IF t = "deployed" THEN R ELSE {})
           f == [States EXCEPT ![v] = t]
<1>1. /\ \A w \in Versions : States[w] = Status(store, w) /\ States'[w] = Status(store', w)
      /\ \A w \in Versions : Status(store, w) # "none" => Homes[w] = store.versions[w].ident
      /\ \A w \in Versions : Status(store', w) # "none" => Homes'[w] = store'.versions[w].ident
      /\ \A w \in Versions : Status(store, w) = "none" => Homes[w] = <<System, None>>
      /\ \A w \in Versions : Status(store', w) = "none" => Homes'[w] = <<System, None>>
  BY DEF States, Homes, OnFile, Recorded
<1>2. States[v] = "none" /\ States'[v] = t /\ Homes'[v] = i
  BY <1>1 DEF Makes
<1>3. \A w \in Versions \ {v} : Homes'[w] = Homes[w]
  <2> SUFFICES ASSUME NEW w \in Versions \ {v} PROVE Homes'[w] = Homes[w]
    OBVIOUS
  <2>1. /\ store'.versions[w].ident = store.versions[w].ident
        /\ Status(store', w) = "none" <=> Status(store, w) = "none"
    BY DEF Makes, Serves, IsOf
  <2> QED
    BY <1>1, <2>1
<1>4. \A w \in Versions, j \in Identities : IsOf(store, w, j) => Homes[w] = j
  BY <1>1 DEF IsOf
<1>5. \A w \in Versions \ {v} : Homes[w] = i /\ States[w] # "none" => IsOf(store, w, i)
  BY <1>1 DEF IsOf
<1>6. ASSUME NEW w \in Versions \ {v}
      PROVE  States'[w] = IF w \in X THEN "archived" ELSE States[w]
  <2>1. \/ States'[w] = IF deploy /\ Serves(store, w, i) THEN "archived" ELSE States[w]
        \/ States'[w] = "archived" /\ States[w] \in {"proposed", "rejected"} /\ IsOf(store, w, i)
    BY <1>1 DEF Makes
  <2>2. Serves(store, w, i) <=> w \in R
    BY <1>1, <1>4, <1>5 DEF Serves
  <2>3. w \in R => w \notin S
    OBVIOUS
  <2>4. CASE States'[w] = "archived" /\ States[w] \in {"proposed", "rejected"} /\ IsOf(store, w, i)
    BY <1>4, <2>4
  <2>5. CASE States'[w] = IF deploy /\ Serves(store, w, i) THEN "archived" ELSE States[w]
    BY <2>2, <2>3, <2>5
  <2> QED
    BY <2>1, <2>4, <2>5
<1>7. v \notin X
  BY <1>2
<1> HIDE DEF X, S, R, t
<1>8. f[v] = t /\ (\A w \in Versions \ {v} : f[w] = States[w]) /\ f = [w \in Versions |-> f[w]]
  BY DEF States
<1> HIDE DEF f
<1>9. States' = [w \in Versions |-> IF w \in X THEN "archived" ELSE f[w]]
  BY <1>2, <1>6, <1>7, <1>8, ShownByVersion
<1>10. Homes' = [Homes EXCEPT ![v] = i]
  BY <1>2, <1>3, ShownByVersion
<1>11. S \in SUBSET Ledger!TooMany(i)
  BY DEF S, Ledger!TooMany
<1>12. i \in {Homes'[w] : w \in Versions} /\ t \in {"draft", "deployed"}
  BY <1>2 DEF t
<1>13. gate' = gate /\ (IF Recorded' THEN approvals' ELSE {}) = (IF Recorded THEN approvals ELSE {})
  BY DEF OnFile
<1> HIDE DEF S, R, t
<1>14. Made(v, i, t, S)
  BY <1>2, <1>9, <1>10, <1>11, <1>13, Zenon DEF Made, Ledger!Rivals, Ledger!Retire, X, R, f, Approvals
<1> QED
  BY <1>12, <1>14, MakeInLedger

(* A version that is deployed, perhaps once more.                            *)
LEMMA DeployIsRecorded ==
  ASSUME OnFile, NEW v \in Versions, NEW i \in Identities, NEW m, NEW ap,
         Sound(store, m, approvals), IsOf(store, v, i), MayDeploy(store, v),
         \A w \in Versions :
           /\ store'.versions[w].ident = store.versions[w].ident
           /\ Status(store', w) = IF w = v THEN "deployed"
                                  ELSE IF Serves(store, w, i) THEN "archived"
                                  ELSE Status(store, w),
         approvals' = approvals
  PROVE  [Ledger!Next]_(Ledger!ledger)
<1> DEFINE f == [States EXCEPT ![v] = "deployed"]
<1>1. /\ \A w \in Versions : States[w] = Status(store, w) /\ States'[w] = Status(store', w)
      /\ \A w \in Versions : Status(store, w) # "none" => Homes[w] = store.versions[w].ident
      /\ \A w \in Versions : IsOf(store, w, i) => Homes[w] = i
  BY FileShows
<1>2. Homes' = Homes /\ Approvals' = Approvals /\ gate' = gate
  <2>1. Status(store, v) # "none"
    BY DEF IsOf
  <2>2. \A w \in Versions : /\ store'.versions[w].ident = store.versions[w].ident
                            /\ Status(store', w) = "none" <=> Status(store, w) = "none"
    BY <2>1 DEF Serves
  <2> QED
    BY <2>2, FileShows DEF Approvals, OnFile
<1>3. Homes[v] = i /\ States[v] # "none"
  BY <1>1 DEF IsOf
<1>4. \A w \in Versions \ {v} : Serves(store, w, i) <=> w \in Ledger!Rivals(v, i)
  BY <1>1 DEF Serves, IsOf, Ledger!Rivals
<1>5. f[v] = "deployed" /\ (\A w \in Versions \ {v} : f[w] = States[w]) /\ v \notin Ledger!Rivals(v, i)
  BY DEF States, Ledger!Rivals
<1> HIDE DEF f
<1>6. \A w \in Versions : States'[w] = IF w \in Ledger!Rivals(v, i) THEN "archived" ELSE f[w]
  BY <1>1, <1>4, <1>5
<1>7. States' = Ledger!Retire(Ledger!Rivals(v, i), f)
  BY <1>6, ShownByVersion DEF Ledger!Retire
<1>8. CASE States[v] = "deployed"
  <2>1. \A w \in Versions : Serves(store, w, i) => w = v
    BY <1>1, <1>8 DEF Sound, PointsRight, Serves
  <2>2. \A w \in Versions : States'[w] = States[w]
    BY <1>1, <1>8, <2>1
  <2> QED
    BY <1>2, <2>2, ShownByVersion DEF Ledger!ledger
<1>9. CASE States[v] # "deployed"
  <2>1. gate => States[v] = "proposed" /\ v \in Approvals
    BY <1>1, <1>9 DEF MayDeploy, Sound, Cleared, Approvals, OnFile
  <2>2. States[v] \in {"draft", "proposed"} => Ledger!Deploy
    BY <1>2, <1>3, <1>7, <2>1 DEF Ledger!Deploy, f
  <2>3. States[v] \in {"archived", "rejected"} => Ledger!Revive
    BY <1>2, <1>3, <1>7, <2>1 DEF Ledger!Revive, f
  <2>4. States[v] \in {"draft", "proposed", "archived", "rejected"}
    <3>1. store.versions[v] \in VersionRecords
      BY StoreParts DEF Sound
    <3>2. Status(store, v) \in Statuses
      BY <3>1 DEF VersionRecords, Status
    <3> QED
      BY <1>1, <1>3, <1>9, <3>2 DEF Statuses
  <2> QED
    BY <2>2, <2>3, <2>4 DEF Ledger!Next
<1> QED
  BY <1>8, <1>9

(* An identity that is deleted, perhaps once more.                           *)
LEMMA DeleteIsRecorded ==
  ASSUME OnFile, NEW i \in Identities,
         \A w \in Versions :
           /\ store'.versions[w].ident = store.versions[w].ident
           /\ Status(store', w) = IF IsOf(store, w, i) THEN "archived" ELSE Status(store, w),
         approvals' = approvals
  PROVE  [Ledger!Next]_(Ledger!ledger)
<1>1. /\ \A w \in Versions : States[w] = Status(store, w) /\ States'[w] = Status(store', w)
      /\ \A w \in Versions : Status(store, w) # "none" => Homes[w] = store.versions[w].ident
  BY FileShows
<1>2. Homes' = Homes /\ Approvals' = Approvals /\ gate' = gate
  <2>1. \A w \in Versions : /\ store'.versions[w].ident = store.versions[w].ident
                            /\ Status(store', w) = "none" <=> Status(store, w) = "none"
    BY DEF IsOf
  <2> QED
    BY <2>1, FileShows DEF Approvals, OnFile
<1> DEFINE S == {w \in Versions : Homes[w] = i /\ States[w] # "none"}
<1>3. \A w \in Versions : IsOf(store, w, i) <=> w \in S
  BY <1>1 DEF IsOf
<1>4. \A w \in Versions : States'[w] = IF w \in S THEN "archived" ELSE States[w]
  BY <1>1, <1>3
<1> HIDE DEF S
<1>5. States' = Ledger!Retire(S, States)
  BY <1>4, ShownByVersion DEF Ledger!Retire
<1>6. CASE \E v \in S : States[v] # "archived"
  <2>1. PICK v \in Versions : Homes[v] = i /\ States[v] \notin {"none", "archived"}
    BY <1>6 DEF S
  <2>2. S = {w \in Versions : Homes[w] = Homes[v] /\ States[w] # "none"}
    BY <2>1 DEF S
  <2>3. Ledger!RetireAll
    BY <1>2, <1>5, <2>1, <2>2 DEF Ledger!RetireAll, Ledger!Live
  <2> QED
    BY <2>3 DEF Ledger!Next
<1>7. CASE \A v \in S : States[v] = "archived"
  <2>1. \A w \in Versions : States'[w] = States[w]
    BY <1>4, <1>7
  <2> QED
    BY <1>2, <2>1, ShownByVersion DEF Ledger!ledger
<1> QED
  BY <1>6, <1>7

(* What a save on the file backend does, operation by operation.              *)
MakesIt(q) ==
  /\ q.op \in CreatingOps /\ made + 1 \in Versions /\ Deploys(q) \in BOOLEAN
  /\ Makes(store, store', q.ident, made + 1, Deploys(q)) /\ approvals' = approvals
DeletesIt(q) ==
  /\ q.op = "delete" /\ approvals' = approvals
  /\ \A w \in Versions :
       /\ store'.versions[w].ident = store.versions[w].ident
       /\ Status(store', w) = IF IsOf(store, w, q.ident) THEN "archived" ELSE Status(store, w)
DeploysIt(q) ==
  /\ q.op = "deploy" /\ approvals' = approvals
  /\ q.vid \in Versions /\ IsOf(store, q.vid, q.ident) /\ MayDeploy(store, q.vid)
  /\ \A w \in Versions :
       /\ store'.versions[w].ident = store.versions[w].ident
       /\ Status(store', w) = IF w = q.vid THEN "deployed"
                              ELSE IF Serves(store, w, q.ident) THEN "archived"
                              ELSE Status(store, w)
TurnsIt(q) ==
  /\ q.vid \in Versions /\ OneChanges(store, store', q.vid)
  /\ \/ /\ q.op = "propose" /\ Status(store, q.vid) = "draft"
        /\ Status(store', q.vid) = "proposed" /\ approvals' = approvals
     \/ /\ q.op = "reject" /\ Status(store, q.vid) = "proposed"
        /\ Status(store', q.vid) = "rejected" /\ approvals' = approvals
     \/ /\ q.op = "approve" /\ Status(store, q.vid) = "proposed"
        /\ Status(store', q.vid) = "proposed" /\ approvals' = approvals \union {q.vid}

(* A save on the file backend does one of these to what is stored.            *)
LEMMA FileSave ==
  ASSUME SpecStoreAssumption, StoreInv, Alone, Recorded, NEW r \in Requests, Written(r)
  PROVE  /\ OnFile /\ req[r].ident \in Identities
         /\ MakesIt(req[r]) \/ DeletesIt(req[r]) \/ DeploysIt(req[r]) \/ TurnsIt(req[r])
<1> DEFINE q == req[r]
<1>1. /\ q.pc = "save" /\ q.snap = store /\ RequestOK(q)
      /\ q.ident \in Identities /\ Applies(q, store) /\ Sound(store, made, approvals)
  BY DEF StoreInv, RequestOK, Alone, Recorded, Written
<1>2. /\ q.op \in {"delete"} \union CreatingOps \union VersionOps
      /\ q.op \in VersionOps => q.vid \in Versions
  BY <1>1 DEF RequestOK, RequestRecords
<1>3. /\ OnFile /\ store' = Changed(q, made + 1)
      /\ approvals' = ApprovedBy(q) /\ (q.op \in CreatingOps => made < MaxVersions)
  BY DEF Written, setting, OnFile, Recorded, ApprovedBy
<1>4. made \in 0 .. MaxVersions /\ gate \in BOOLEAN /\ MaxVersions \in Nat
  BY SpecStoreAssumption DEF StoreInv
<1> HIDE DEF q
<1>5. ASSUME q.op \in CreatingOps PROVE MakesIt(q)
  <2>1. /\ store' = CreateVersion(store, q.ident, made + 1, Deploys(q), Bypasses(q))
        /\ approvals' = approvals
    BY <1>1, <1>3, <1>5 DEF Changed, Created, CreatingOps, ApprovedBy
  <2>2. /\ Deploys(q) \in BOOLEAN /\ Bypasses(q) \in BOOLEAN
        /\ gate /\ Deploys(q) => Bypasses(q)
        /\ made + 1 \in Versions /\ made \in Nat
    BY <1>3, <1>4, <1>5 DEF Versions, Deploys, Bypasses
  <2> DEFINE deploy == Deploys(q)  bypass == Bypasses(q)
  <2>3. deploy \in BOOLEAN /\ bypass \in BOOLEAN /\ (gate /\ deploy => bypass)
    BY <2>2
  <2>4. store' = CreateVersion(store, q.ident, made + 1, deploy, bypass)
    BY <2>1
  <2> HIDE DEF deploy, bypass
  <2>5. Makes(store, store', q.ident, made + 1, deploy)
    <3> DEFINE i == q.ident
    <3>1. i \in Identities /\ Sound(store, made, approvals) /\ made + 1 \in Versions /\ made \in Nat
      BY <1>1, <2>2
    <3> HIDE DEF i
    <3>2. /\ Sound(CreateVersion(store, i, made + 1, deploy, bypass), made + 1, approvals)
          /\ Makes(store, CreateVersion(store, i, made + 1, deploy, bypass), i, made + 1, deploy)
      BY <2>3, <3>1, CreateKeeps, SpecStoreAssumption
    <3> QED
      BY <2>4, <3>2 DEF i
  <2> QED
    BY <1>5, <2>1, <2>2, <2>5 DEF MakesIt, deploy
<1>6. ASSUME q.op = "delete" PROVE DeletesIt(q)
  <2>1. store' = ArchiveIdentity(store, q.ident) /\ approvals' = approvals
    BY <1>1, <1>3, <1>6 DEF Changed, CreatingOps, ApprovedBy
  <2> QED
    BY <1>1, <1>6, <2>1, ArchiveKeeps, SpecStoreAssumption DEF DeletesIt
<1>7. ASSUME q.op = "deploy" PROVE DeploysIt(q)
  <2>1. store' = DeployVersion(store, q.ident, q.vid) /\ approvals' = approvals
    BY <1>1, <1>3, <1>7 DEF Changed, CreatingOps, ApprovedBy
  <2>2. q.vid \in Versions /\ IsOf(store, q.vid, q.ident) /\ MayDeploy(store, q.vid)
    BY <1>1, <1>2, <1>7 DEF Applies, CreatingOps, VersionOps
  <2> QED
    BY <1>1, <1>7, <2>1, <2>2, DeployKeeps, SpecStoreAssumption DEF DeploysIt
<1>8. ASSUME q.op = "propose" PROVE TurnsIt(q)
  <2>1. /\ store' = ProposeVersion(store, q.vid) /\ approvals' = approvals
        /\ q.vid \in Versions /\ Status(store, q.vid) = "draft"
    BY <1>1, <1>2, <1>3, <1>8 DEF Changed, CreatingOps, VersionOps, ApprovedBy, Applies
  <2>2. OneChanges(store, store', q.vid) /\ Status(store', q.vid) = "proposed"
    BY <1>1, <2>1, ProposeKeeps
  <2> QED
    BY <1>8, <2>1, <2>2 DEF TurnsIt
<1>9. ASSUME q.op = "reject" PROVE TurnsIt(q)
  <2>1. /\ store' = RejectVersion(store, q.vid) /\ approvals' = approvals
        /\ q.vid \in Versions /\ Status(store, q.vid) = "proposed"
    BY <1>1, <1>2, <1>3, <1>9 DEF Changed, CreatingOps, VersionOps, ApprovedBy, Applies
  <2>2. OneChanges(store, store', q.vid) /\ Status(store', q.vid) = "rejected"
    BY <1>1, <2>1, RejectKeeps
  <2> QED
    BY <1>9, <2>1, <2>2 DEF TurnsIt
<1>10. ASSUME q.op = "approve" PROVE TurnsIt(q)
  <2>1. /\ store' = ApproveVersion(store, q.vid) /\ approvals' = approvals \union {q.vid}
        /\ q.vid \in Versions /\ Status(store, q.vid) = "proposed"
    BY <1>1, <1>2, <1>3, <1>10 DEF Changed, CreatingOps, VersionOps, ApprovedBy, Applies
  <2>2. OneChanges(store, store', q.vid) /\ Status(store', q.vid) = "proposed"
    BY <1>1, <2>1, ApproveKeeps
  <2> QED
    BY <1>10, <2>1, <2>2 DEF TurnsIt
<1> QED
  <2>1. MakesIt(q) \/ DeletesIt(q) \/ DeploysIt(q) \/ TurnsIt(q)
    BY <1>2, <1>5, <1>6, <1>7, <1>8, <1>9, <1>10 DEF VersionOps
  <2> QED
    BY <1>1, <1>3, <2>1 DEF q

(* Any save on the file backend is a step of the ledger, or changes nothing.  *)
LEMMA SaveIsRecorded ==
  ASSUME SpecStoreAssumption, StoreInv, Alone, Recorded, NEW r \in Requests, Written(r)
  PROVE  [Ledger!Next]_(Ledger!ledger)
<1> DEFINE q == req[r]
<1>1. /\ OnFile /\ q.ident \in Identities /\ Sound(store, made, approvals)
      /\ MakesIt(q) \/ DeletesIt(q) \/ DeploysIt(q) \/ TurnsIt(q)
  BY FileSave DEF StoreInv
<1> HIDE DEF q
<1>2. CASE MakesIt(q)
  <2>1. Ledger!Make
    BY <1>1, <1>2, MakeIsRecorded DEF MakesIt
  <2> QED
    BY <2>1 DEF Ledger!Next
<1>3. CASE DeletesIt(q)
  BY <1>1, <1>3, DeleteIsRecorded DEF DeletesIt
<1>4. CASE DeploysIt(q)
  BY <1>1, <1>4, DeployIsRecorded DEF DeploysIt
<1>5. CASE TurnsIt(q)
  <2> DEFINE t == Status(store', q.vid)
  <2>1. /\ q.vid \in Versions /\ OneChanges(store, store', q.vid)
        /\ t # "none" /\ Status(store, q.vid) # "none"
    BY <1>5 DEF TurnsIt
  <2> HIDE DEF t
  <2>2. /\ States' = [States EXCEPT ![q.vid] = t] /\ Homes' = Homes /\ gate' = gate
        /\ States[q.vid] = Status(store, q.vid)
    BY <1>1, <2>1, OneIsRecorded, FileShows DEF t, OnFile
  <2>3. CASE q.op = "propose"
    <3>1. Ledger!Propose
      BY <1>1, <1>5, <2>2, <2>3 DEF TurnsIt, t, Ledger!Propose, Approvals, OnFile
    <3> QED
      BY <3>1 DEF Ledger!Next
  <2>4. CASE q.op = "reject"
    <3>1. Ledger!Reject
      BY <1>1, <1>5, <2>2, <2>4 DEF TurnsIt, t, Ledger!Reject, Approvals, OnFile
    <3> QED
      BY <3>1 DEF Ledger!Next
  <2>5. CASE q.op = "approve"
    <3>1. /\ States[q.vid] = "proposed" /\ t = "proposed" /\ q.vid \in Versions
          /\ Approvals' = Approvals \union {q.vid}
      BY <1>1, <1>5, <2>2, <2>5 DEF TurnsIt, t, Approvals, OnFile
    <3>2. States' = States
      BY <2>2, <3>1, ShownByVersion
    <3>3. Ledger!Approve
      BY <2>2, <3>1, <3>2 DEF Ledger!Approve
    <3> QED
      BY <3>3 DEF Ledger!Next
  <2> QED
    BY <1>5, <2>3, <2>4, <2>5 DEF TurnsIt
<1> QED
  BY <1>1, <1>2, <1>3, <1>4, <1>5

(* Nothing but a save on the file backend changes what the ledger shows.     *)
LEMMA LedgerStep ==
  ASSUME SpecStoreAssumption, StoreInv, Alone, [Next]_vars
  PROVE  [Ledger!Next]_(Ledger!ledger)
<1>1. ASSUME UNCHANGED <<backend, gate, store, approvals>>
      PROVE  UNCHANGED Ledger!ledger
  BY <1>1 DEF Ledger!ledger, States, Homes, Approvals, Recorded
<1>2. ASSUME backend = "redis", UNCHANGED <<backend, gate>>
      PROVE  UNCHANGED Ledger!ledger
  BY <1>2 DEF Ledger!ledger, States, Homes, Approvals, Recorded
<1>3. CASE UNCHANGED vars
  BY <1>1, <1>3 DEF vars, setting, history
<1>4. ASSUME NEW r \in Requests,
             \/ PostAgent(r) \/ NewVersion(r) \/ OnVersion(r) \/ Delete(r) \/ ForkAgent(r)
             \/ Seed(r)
      PROVE  UNCHANGED Ledger!ledger
  <2>1. Loading(r)
    BY <1>4, BegunLoads, SpecStoreAssumption
  <2> QED
    BY <1>1, <2>1 DEF Loading, Loads, setting, history
<1>5. ASSUME NEW r \in Requests,
             \/ Claim(r) \/ Check(r) \/ CreateLoad(r) \/ Release(r) \/ CreateFails(r) \/ Dropped(r)
      PROVE  UNCHANGED Ledger!ledger
  <2>1. UNCHANGED <<backend, gate, store, approvals>>
    BY <1>5 DEF Claim, Check, CreateLoad, Loads, Release, CreateFails, Dropped, setting, history
  <2> QED
    BY <1>1, <2>1
<1>6. ASSUME NEW r \in Requests, Save(r) \/ SaveUnanswered(r)
      PROVE  [Ledger!Next]_(Ledger!ledger)
  <2>1. Written(r)
    BY <1>6 DEF Save, SaveUnanswered
  <2>2. CASE Recorded
    BY <2>1, <2>2, SaveIsRecorded, SpecStoreAssumption
  <2>3. CASE ~Recorded
    BY <1>2, <2>1, <2>3 DEF Recorded, StoreInv, Written, setting
  <2> QED
    BY <2>2, <2>3
<1>7. CASE Next
  BY <1>4, <1>5, <1>6, <1>7 DEF Next
<1> QED
  BY <1>3, <1>7

(* The ledger a replica starts with.                                         *)
LEMMA LedgerInit ==
  ASSUME SpecStoreAssumption, Init
  PROVE  Ledger!Init /\ Alone
<1>1. Alone
  BY DEF Init, Alone, NoRequest
<1>2. Approvals = {} /\ gate \in BOOLEAN
  BY DEF Init, Approvals
<1>3. (\A w \in Versions : Status(store, w) = "none") \/ \E i \in Identities : Holds(store, i)
  <2>1. CASE store = EmptyStore
    BY <2>1 DEF EmptyStore, NoVersion, Status
  <2>2. CASE store \in {Reviewed(i) : i \in Identities}
    BY <2>2, ReviewedIsSound, SpecStoreAssumption
  <2> QED
    BY <2>1, <2>2 DEF Init
<1>4. \A i \in Identities : i # <<System, None>>
  BY SpecStoreAssumption DEF Identities
<1>5. CASE ~Recorded
  <2>1. \A w \in Versions : States[w] = "none" /\ Homes[w] = <<System, None>>
    BY <1>5 DEF States, Homes
  <2> QED
    BY <1>1, <1>2, <2>1 DEF Ledger!Init
<1>6. CASE Recorded
  <2>1. /\ \A w \in Versions : States[w] = Status(store, w)
        /\ \A w \in Versions : Homes[w] = IF Status(store, w) # "none" THEN store.versions[w].ident
                                           ELSE <<System, None>>
    BY <1>6 DEF States, Homes
  <2>2. CASE \A w \in Versions : Status(store, w) = "none"
    BY <1>1, <1>2, <2>1, <2>2 DEF Ledger!Init
  <2>3. ASSUME NEW i \in Identities, Holds(store, i)
        PROVE  Ledger!Init
    <3>1. \A w \in Versions : States[w] = "none" <=> Homes[w] = <<System, None>>
      BY <1>4, <2>1, <2>3 DEF Holds
    <3>2. PointsRight(store, i)
      BY StoreInit DEF StoreInv, Sound
    <3>3. \A v, w \in Versions : States[v] = "deployed" /\ States[w] = "deployed" => v = w
      BY <2>1, <2>3, <3>2 DEF Holds, PointsRight, IsOf
    <3> QED
      BY <1>2, <3>1, <3>3 DEF Ledger!Init
  <2> QED
    BY <1>1, <1>3, <2>2, <2>3
<1> QED
  BY <1>5, <1>6

(* The file backend keeps the ledger of docs/concepts/agent-versioning.md,    *)
(* for any number of users, names, versions and requests: every operation of  *)
(* base_store.py on it is one of the ledger's, retention and the replacing    *)
(* of the deployed version included, or changes nothing.                      *)
THEOREM LedgerIsImplemented == Spec => LedgerIsKept
<1>1. Init => StoreInv /\ Alone /\ Ledger!Init
  BY StoreInit, LedgerInit, SpecStoreAssumption
<1>2. StoreInv /\ Alone /\ [Next]_vars => StoreInv' /\ Alone'
  BY StoreStep, AloneStep, SpecStoreAssumption
<1>3. StoreInv /\ Alone /\ [Next]_vars => [Ledger!Next]_(Ledger!ledger)
  BY LedgerStep, SpecStoreAssumption
<1> QED
  BY <1>1, <1>2, <1>3, PTL DEF Spec, LedgerIsKept, Ledger!Spec
-----------------------------------------------------------------------------
(* The race for a name.  On Redis the claim decides it: whoever holds it is   *)
(* the only one that creates, and no create has succeeded since it was taken. *)
(* On the file backend the look at the store decides, since nothing comes     *)
(* between it and the save.                                                   *)
Serving(i) == \E w \in Versions : Serves(store, w, i)
Creating(r, i) == req[r].op = "create" /\ req[r].ident = i /\ req[r].pc # "idle"
Wins(i) ==
  /\ won[i] <= 1
  /\ backend = "redis" =>
       /\ won[i] = 1 => i \in claims
       /\ \A r \in Requests : Creating(r, i) => i \in claims /\ won[i] = 0
       /\ \A r, q \in Requests : Creating(r, i) /\ Creating(q, i) => r = q
  /\ backend = "file" =>
       /\ won[i] = 1 => Serving(i)
       /\ \A r \in Requests : Creating(r, i) /\ req[r].pc \in {"load", "save"} => won[i] = 0

WinInv ==
  /\ won \in [Identities -> Nat]
  /\ \A r \in Requests : req[r].pc = "release" =>
       req[r].op = "create" \/ (req[r].op = "delete" /\ req[r].ident \in deleted)
  /\ \A i \in Identities : i \in deleted \/ Wins(i)

(* A step of one request that wins no name and takes or gives back none.      *)
Modest(r, q) ==
  /\ req' = [req EXCEPT ![r] = q]
  /\ q.op = "create" /\ q.pc # "idle" => Creating(r, q.ident)
  /\ backend = "file" /\ q.op = "create" /\ q.pc \in {"load", "save"} /\ q.ident \notin deleted =>
       won[q.ident] = 0
  /\ q.pc = "release" => q.op = "create"
  /\ UNCHANGED <<backend, store, claims, won, deleted>>

LEMMA ModestKeeps ==
  ASSUME StoreInv, WinInv, NEW r \in Requests, NEW q, Modest(r, q)
  PROVE  WinInv'
<1>1. /\ req'[r] = q /\ \A t \in Requests \ {r} : req'[t] = req[t]
      /\ backend' = backend /\ store' = store /\ claims' = claims /\ won' = won /\ deleted' = deleted
  BY DEF StoreInv, Modest
<1>2. ASSUME NEW t \in Requests, NEW i \in Identities, Creating(t, i)'
      PROVE  Creating(t, i)
  BY <1>1, <1>2 DEF Creating, Modest
<1>3. ASSUME NEW i \in Identities, i \notin deleted
      PROVE  Wins(i)'
  <2>1. Wins(i)
    BY <1>3 DEF WinInv
  <2>2. Serving(i)' <=> Serving(i)
    BY <1>1 DEF Serving, Serves, IsOf, Status
  <2>3. ASSUME backend = "file", NEW t \in Requests, Creating(t, i)', req'[t].pc \in {"load", "save"}
        PROVE  won[i] = 0
    <3>1. CASE t = r
      BY <1>1, <1>3, <2>3, <3>1 DEF Creating, Modest
    <3>2. CASE t # r
      BY <1>1, <1>2, <2>1, <2>3, <3>2 DEF Wins
    <3> QED
      BY <3>1, <3>2
  <2> QED
    BY <1>1, <1>2, <2>1, <2>2, <2>3 DEF Wins
<1>4. ASSUME NEW t \in Requests, req'[t].pc = "release"
      PROVE  req'[t].op = "create" \/ (req'[t].op = "delete" /\ req'[t].ident \in deleted)
  BY <1>1, <1>4 DEF WinInv, Modest
<1> QED
  BY <1>1, <1>3, <1>4 DEF WinInv

(* What an identity serves it goes on serving, if it is not deleted.          *)
LEMMA ServiceStays ==
  ASSUME SpecStoreAssumption, StoreInv, Alone, Recorded, NEW r \in Requests, Written(r),
         NEW i \in Identities, Serving(i), ~(req[r].op = "delete" /\ req[r].ident = i)
  PROVE  Serving(i)'
<1> DEFINE q == req[r]
<1>1. PICK w \in Versions : Serves(store, w, i)
  BY DEF Serving
<1>2. MakesIt(q) \/ DeletesIt(q) \/ DeploysIt(q) \/ TurnsIt(q)
  BY FileSave, SpecStoreAssumption
<1>3. q.op = "delete" => q.ident # i
  OBVIOUS
<1> HIDE DEF q
<1>4. CASE MakesIt(q)
  <2> DEFINE v == made + 1
  <2>1. v \in Versions /\ Makes(store, store', q.ident, v, Deploys(q))
    BY <1>4 DEF MakesIt
  <2> HIDE DEF v
  <2>2. CASE Deploys(q) /\ q.ident = i
    BY <2>1, <2>2 DEF Makes, Serving, Serves, IsOf
  <2>3. CASE ~(Deploys(q) /\ q.ident = i)
    BY <1>1, <2>1, <2>3 DEF Makes, Serving, Serves, IsOf
  <2> QED
    BY <2>2, <2>3
<1>5. CASE DeletesIt(q)
  BY <1>1, <1>3, <1>5 DEF DeletesIt, Serving, Serves, IsOf
<1>6. CASE DeploysIt(q)
  <2>1. CASE q.ident = i
    BY <1>6, <2>1 DEF DeploysIt, Serving, Serves, IsOf
  <2>2. CASE q.ident # i
    BY <1>1, <1>6, <2>2 DEF DeploysIt, Serving, Serves, IsOf
  <2> QED
    BY <2>1, <2>2
<1>7. CASE TurnsIt(q)
  BY <1>1, <1>7 DEF TurnsIt, OneChanges, Serving, Serves, IsOf
<1> QED
  BY <1>2, <1>4, <1>5, <1>6, <1>7

(* A save whose answer arrives: a create has won its name.                    *)
LEMMA SaveWins ==
  ASSUME SpecStoreAssumption, StoreInv, Alone, WinInv, NEW r \in Requests, Save(r)
  PROVE  WinInv'
<1> DEFINE q == req[r]
<1>1. RequestOK(q) /\ q.pc = "save" /\ q.ident \in Identities
  BY DEF StoreInv, RequestOK, Save, Written
<1>2. /\ backend' = backend /\ claims' = claims /\ Turn(r)
      /\ deleted' = IF q.op = "delete" THEN deleted \union {q.ident} ELSE deleted
      /\ won' = [won EXCEPT ![q.ident] = IF q.op = "create" THEN @ + 1 ELSE @]
  BY DEF Save, Written, setting
<1>3. /\ \A t \in Requests \ {r} : req'[t] = req[t]
      /\ req'[r].pc = "idle" \/ (req'[r].pc = "release" /\ q.op = "delete" /\ req'[r].op = q.op
                                 /\ req'[r].ident = q.ident)
  <2>1. CASE Finish(r)
    BY <2>1 DEF Finish, NoRequest, StoreInv
  <2>2. CASE q.op = "delete" /\ Go(r, "release")
    <3>1. q \in RequestRecords
      BY <1>1 DEF RequestOK
    <3> QED
      BY <2>2, <3>1 DEF Go, StoreInv, RequestRecords
  <2> QED
    BY <2>1, <2>2 DEF Save
<1>4. /\ won' \in [Identities -> Nat]
      /\ \A i \in Identities : won'[i] = IF i = q.ident /\ q.op = "create" THEN won[i] + 1 ELSE won[i]
  BY <1>1, <1>2 DEF WinInv
<1>5. ASSUME NEW t \in Requests, NEW i \in Identities, Creating(t, i)'
      PROVE  t # r /\ Creating(t, i) /\ req'[t] = req[t]
  BY <1>3, <1>5 DEF Creating
<1>6. ASSUME NEW i \in Identities, i \notin deleted'
      PROVE  Wins(i)'
  <2>1. Wins(i) /\ won[i] \in Nat /\ ~(q.op = "delete" /\ q.ident = i)
    BY <1>2, <1>6 DEF WinInv
  <2>2. CASE backend = "redis"
    <3>1. CASE q.op = "create" /\ q.ident = i
      <4>1. Creating(r, i)
        BY <1>1, <3>1 DEF Creating
      <4>2. i \in claims /\ won[i] = 0 /\ \A t \in Requests : Creating(t, i) => t = r
        BY <2>1, <2>2, <4>1 DEF Wins
      <4>3. \A t \in Requests : ~Creating(t, i)'
        BY <1>5, <4>2
      <4>4. won'[i] = 1 /\ claims' = claims /\ backend' = "redis"
        BY <1>2, <1>4, <2>2, <3>1, <4>2
      <4> QED
        BY <4>2, <4>3, <4>4 DEF Wins
    <3>2. CASE ~(q.op = "create" /\ q.ident = i)
      <4>1. won'[i] = won[i] /\ claims' = claims /\ backend' = "redis"
        BY <1>2, <1>4, <2>2, <3>2
      <4> QED
        BY <1>5, <2>1, <2>2, <4>1 DEF Wins
    <3> QED
      BY <3>1, <3>2
  <2>3. CASE backend = "file"
    <3>1. \A t \in Requests : ~Creating(t, i)'
      BY <1>2, <1>5, <2>3 DEF Turn, Creating
    <3>2. Recorded /\ Written(r)
      BY <2>3 DEF Recorded, Save
    <3>3. CASE q.op = "create" /\ q.ident = i
      <4>1. won[i] = 0
        BY <1>1, <2>1, <2>3, <3>3 DEF Wins, Creating
      <4>2. MakesIt(q)
        BY <3>2, <3>3, FileSave, SpecStoreAssumption DEF DeletesIt, DeploysIt, TurnsIt
      <4>3. Deploys(q)
        BY <3>3 DEF Deploys, Bypasses, BypassOps
      <4> HIDE DEF q
      <4>4. Serving(i)'
        BY <3>3, <4>2, <4>3 DEF MakesIt, Makes, Serving, Serves, IsOf
      <4> QED
        BY <1>2, <1>4, <2>3, <3>1, <3>3, <4>1, <4>4 DEF Wins
    <3>4. CASE ~(q.op = "create" /\ q.ident = i)
      <4>1. Serving(i) => Serving(i)'
        BY <2>1, <3>2, ServiceStays, SpecStoreAssumption
      <4> QED
        BY <1>2, <1>4, <2>1, <2>3, <3>1, <3>4, <4>1 DEF Wins
    <3> QED
      BY <3>3, <3>4
  <2> QED
    BY <2>2, <2>3 DEF StoreInv
<1>7. ASSUME NEW t \in Requests, req'[t].pc = "release"
      PROVE  req'[t].op = "create" \/ (req'[t].op = "delete" /\ req'[t].ident \in deleted')
  BY <1>2, <1>3, <1>7 DEF WinInv
<1> QED
  BY <1>4, <1>6, <1>7 DEF WinInv

(* A save whose answer is lost: the create goes on to give its claim back.    *)
LEMMA UnansweredWins ==
  ASSUME StoreInv, WinInv, NEW r \in Requests, SaveUnanswered(r)
  PROVE  WinInv'
<1> DEFINE q == req[r]
<1>1. RequestOK(q) /\ q.pc = "save"
  BY DEF StoreInv, SaveUnanswered, Written
<1>2. /\ backend = "redis" /\ backend' = backend /\ claims' = claims /\ won' = won
      /\ deleted' = IF q.op = "delete" THEN deleted \union {q.ident} ELSE deleted
  BY DEF SaveUnanswered, Written, setting
<1>3. /\ \A t \in Requests \ {r} : req'[t] = req[t]
      /\ req'[r].pc = "idle" \/ (req'[r].pc = "release" /\ q.op = "create" /\ req'[r].op = q.op
                                 /\ req'[r].ident = q.ident)
  <2>1. CASE Finish(r)
    BY <2>1 DEF Finish, NoRequest, StoreInv
  <2>2. CASE q.op = "create" /\ Go(r, "release")
    <3>1. q \in RequestRecords
      BY <1>1 DEF RequestOK
    <3> QED
      BY <2>2, <3>1 DEF Go, StoreInv, RequestRecords
  <2> QED
    BY <2>1, <2>2 DEF SaveUnanswered
<1>4. ASSUME NEW t \in Requests, NEW i \in Identities, Creating(t, i)'
      PROVE  Creating(t, i)
  BY <1>1, <1>3, <1>4 DEF Creating
<1>5. ASSUME NEW i \in Identities, i \notin deleted'
      PROVE  Wins(i)'
  <2>1. Wins(i)
    BY <1>2, <1>5 DEF WinInv
  <2> QED
    BY <1>2, <1>4, <2>1 DEF Wins
<1>6. ASSUME NEW t \in Requests, req'[t].pc = "release"
      PROVE  req'[t].op = "create" \/ (req'[t].op = "delete" /\ req'[t].ident \in deleted')
  BY <1>2, <1>3, <1>6 DEF WinInv
<1> QED
  BY <1>2, <1>5, <1>6 DEF WinInv

(* A claim that is given back, by a create that lost or by a deletion.        *)
LEMMA ReleaseWins ==
  ASSUME StoreInv, Alone, WinInv, NEW r \in Requests, Release(r)
  PROVE  WinInv'
<1> DEFINE q == req[r]
<1>1. RequestOK(q) /\ q.pc = "release" /\ q.ident \in Identities
  BY DEF StoreInv, RequestOK, Release
<1>2. /\ Turn(r) /\ claims' = claims \ {q.ident} /\ won' = [won EXCEPT ![q.ident] = 0]
      /\ backend' = backend /\ store' = store /\ deleted' = deleted
  BY DEF Release, setting
<1>3. req'[r].pc = "idle" /\ \A t \in Requests \ {r} : req'[t] = req[t]
  BY DEF Release, Finish, NoRequest, StoreInv
<1>4. /\ won' \in [Identities -> Nat]
      /\ \A i \in Identities : won'[i] = IF i = q.ident THEN 0 ELSE won[i]
  BY <1>1, <1>2 DEF WinInv
<1>5. ASSUME NEW t \in Requests, NEW i \in Identities, Creating(t, i)'
      PROVE  t # r /\ Creating(t, i) /\ req'[t] = req[t]
  BY <1>3, <1>5 DEF Creating
<1>6. ASSUME NEW i \in Identities, i \notin deleted
      PROVE  Wins(i)'
  <2>1. Wins(i)
    BY <1>6 DEF WinInv
  <2>2. CASE i = q.ident
    <3>1. Creating(r, i)
      BY <1>1, <1>6, <2>2 DEF WinInv, Creating
    <3>2. backend = "redis" => \A t \in Requests : ~Creating(t, i)'
      BY <1>5, <2>1, <3>1 DEF Wins
    <3> QED
      BY <1>2, <1>4, <2>2, <3>2 DEF Wins
  <2>3. CASE i # q.ident
    <3>1. Serving(i)' <=> Serving(i)
      BY <1>2 DEF Serving, Serves, IsOf, Status
    <3> QED
      BY <1>2, <1>4, <1>5, <2>1, <2>3, <3>1 DEF Wins
  <2> QED
    BY <2>2, <2>3
<1>7. ASSUME NEW t \in Requests, req'[t].pc = "release"
      PROVE  req'[t].op = "create" \/ (req'[t].op = "delete" /\ req'[t].ident \in deleted')
  BY <1>2, <1>3, <1>7 DEF WinInv
<1> QED
  BY <1>2, <1>4, <1>6, <1>7 DEF WinInv

(* A claim that is taken: it was free, so nobody creates under the name.      *)
LEMMA ClaimWins ==
  ASSUME StoreInv, WinInv, NEW r \in Requests, Claim(r)
  PROVE  WinInv'
<1>1. PICK c \in Users, n \in Names :
        /\ <<c, n>> \notin claims
        /\ req' = [req EXCEPT ![r] = [Request("create", <<c, n>>) EXCEPT !.pc = "check"]]
        /\ claims' = IF backend = "redis" THEN claims \union {<<c, n>>} ELSE claims
        /\ backend' = backend /\ store' = store /\ won' = won /\ deleted' = deleted
  BY DEF Claim, setting, history
<1> DEFINE i == <<c, n>>  q == [Request("create", i) EXCEPT !.pc = "check"]
<1>2. i \in Identities /\ "create" \in CreatingOps
  BY DEF Identities, Owners, CreatingOps
<1>3. i \notin claims /\ (claims' = IF backend = "redis" THEN claims \union {i} ELSE claims)
  BY <1>1
<1>4. q.ident = i /\ q.op = "create" /\ q.pc = "check"
  BY <1>2, RequestsAreRecords DEF RequestRecords
<1>5. req' = [req EXCEPT ![r] = q]
  BY <1>1
<1> HIDE DEF i, q
<1>6. req'[r] = q /\ \A t \in Requests \ {r} : req'[t] = req[t]
  BY <1>5 DEF StoreInv
<1>7. ASSUME NEW j \in Identities, j \notin deleted
      PROVE  Wins(j)'
  <2>1. Wins(j) /\ won[j] \in Nat
    BY <1>7 DEF WinInv
  <2>2. Serving(j)' <=> Serving(j)
    BY <1>1 DEF Serving, Serves, IsOf, Status
  <2>3. \A t \in Requests \ {r} : (Creating(t, j)' <=> Creating(t, j))
    BY <1>6 DEF Creating
  <2>4. Creating(r, j)' => j = i
    BY <1>4, <1>6 DEF Creating
  <2>5. CASE backend = "redis"
    <3>1. CASE j = i
      <4>1. won[j] = 0 /\ \A t \in Requests : ~Creating(t, j)
        BY <1>3, <2>1, <2>5, <3>1 DEF Wins
      <4> QED
        BY <1>1, <1>3, <2>3, <2>5, <3>1, <4>1 DEF Wins
    <3>2. CASE j # i
      BY <1>1, <1>3, <2>1, <2>3, <2>4, <2>5, <3>2 DEF Wins
    <3> QED
      BY <3>1, <3>2
  <2>6. CASE backend = "file"
    <3>1. \A t \in Requests : Creating(t, j)' /\ req'[t].pc \in {"load", "save"} =>
            Creating(t, j) /\ req[t].pc \in {"load", "save"}
      BY <1>4, <1>6, <2>3
    <3> QED
      BY <1>1, <2>1, <2>2, <2>6, <3>1 DEF Wins
  <2> QED
    BY <2>5, <2>6 DEF StoreInv
<1>8. ASSUME NEW t \in Requests, req'[t].pc = "release"
      PROVE  req'[t].op = "create" \/ (req'[t].op = "delete" /\ req'[t].ident \in deleted')
  BY <1>1, <1>4, <1>6, <1>8 DEF WinInv
<1> QED
  BY <1>1, <1>7, <1>8 DEF WinInv

(* A name that is looked up and found free has not been won on the file       *)
(* backend, where a win is a version that serves.                             *)
LEMMA CheckWins ==
  ASSUME SpecStoreAssumption, StoreInv, WinInv, NEW r \in Requests, Check(r)
  PROVE  WinInv'
<1> DEFINE q == req[r]  pc == IF Deployed(store, q.ident) = None THEN "load" ELSE "release"
           q2 == [q EXCEPT !.pc = pc]
<1>1. /\ RequestOK(q) /\ q \in RequestRecords /\ q.pc = "check"
      /\ q.op = "create" /\ q.ident \in Identities
  BY DEF StoreInv, RequestOK, Check
<1>2. req' = [req EXCEPT ![r] = q2] /\ UNCHANGED <<backend, store, claims, won, deleted>>
  BY DEF Check, Go, setting, history
<1>3. pc \in {"load", "release"} /\ (pc = "load" => Deployed(store, q.ident) = None)
  OBVIOUS
<1> HIDE DEF pc
<1>4. q2.op = "create" /\ q2.ident = q.ident /\ q2.pc = pc
  BY <1>1 DEF RequestRecords
<1>5. ASSUME backend = "file", pc = "load", q.ident \notin deleted
      PROVE  won[q.ident] = 0
  <2>1. ~Serving(q.ident)
    <3> SUFFICES ASSUME NEW w \in Versions, Serves(store, w, q.ident) PROVE FALSE
      BY DEF Serving
    <3>1. PointsRight(store, q.ident)
      BY <1>1 DEF StoreInv, Sound
    <3>2. w = store.idents[q.ident].deployed /\ Status(store, w) # "none"
      BY <3>1 DEF PointsRight, Serves
    <3>3. w # None
      BY SpecStoreAssumption DEF SpecStoreAssumption, Versions
    <3> QED
      BY <1>3, <1>5, <3>2, <3>3 DEF Deployed
  <2>2. Wins(q.ident) /\ won[q.ident] \in Nat
    BY <1>1, <1>5 DEF WinInv
  <2> QED
    BY <1>5, <2>1, <2>2 DEF Wins
<1> HIDE DEF q2
<1>6. Modest(r, q2)
  BY <1>1, <1>2, <1>3, <1>4, <1>5 DEF Modest, Creating
<1> QED
  BY <1>6, ModestKeeps

(* Every step.                                                                *)
LEMMA WinStep ==
  ASSUME SpecStoreAssumption, StoreInv, Alone, WinInv, [Next]_vars
  PROVE  WinInv'
<1>1. CASE UNCHANGED vars
  BY <1>1 DEF vars, setting, history, WinInv, Wins, Creating, Serving, Serves, IsOf, Status
<1>2. ASSUME NEW r \in Requests,
             \/ PostAgent(r) \/ NewVersion(r) \/ OnVersion(r) \/ Delete(r) \/ ForkAgent(r)
             \/ Seed(r)
      PROVE  WinInv'
  <2>1. PICK q \in RequestRecords : Loads(r, q) /\ q.op # "create"
    BY <1>2, BegunLoads, SpecStoreAssumption DEF Loading
  <2> DEFINE q2 == [q EXCEPT !.pc = "save", !.snap = store]
  <2>2. q2.op # "create" /\ q2.pc = "save"
    BY <2>1 DEF RequestRecords
  <2>3. req' = [req EXCEPT ![r] = q2] /\ UNCHANGED <<backend, store, claims, won, deleted>>
    BY <2>1 DEF Loads, setting, history
  <2> HIDE DEF q2
  <2> QED
    BY <2>2, <2>3, ModestKeeps DEF Modest
<1>3. ASSUME NEW r \in Requests, CreateLoad(r)
      PROVE  WinInv'
  <2> DEFINE q == req[r]  q2 == [q EXCEPT !.pc = "save", !.snap = store]
  <2>1. RequestOK(q) /\ q \in RequestRecords /\ q.pc = "load" /\ q.op = "create" /\ q.ident \in Identities
    BY <1>3 DEF StoreInv, RequestOK, CreateLoad
  <2>2. req' = [req EXCEPT ![r] = q2] /\ UNCHANGED <<backend, store, claims, won, deleted>>
    BY <1>3 DEF CreateLoad, Loads, setting, history
  <2>3. q2.op = "create" /\ q2.ident = q.ident /\ q2.pc = "save"
    BY <2>1 DEF RequestRecords
  <2>4. backend = "file" /\ q.ident \notin deleted => won[q.ident] = 0
    BY <2>1 DEF WinInv, Wins, Creating
  <2> HIDE DEF q2
  <2>5. Modest(r, q2)
    BY <2>1, <2>2, <2>3, <2>4 DEF Modest, Creating
  <2> QED
    BY <2>5, ModestKeeps
<1>4. ASSUME NEW r \in Requests, CreateFails(r)
      PROVE  WinInv'
  <2> DEFINE q == req[r]  q2 == [q EXCEPT !.pc = "release"]
  <2>1. q \in RequestRecords /\ q.op = "create" /\ q.pc # "idle" /\ backend = "redis"
    BY <1>4 DEF StoreInv, RequestOK, CreateFails
  <2>2. req' = [req EXCEPT ![r] = q2] /\ UNCHANGED <<backend, store, claims, won, deleted>>
    BY <1>4 DEF CreateFails, Go, setting, history
  <2>3. q2.op = "create" /\ q2.ident = q.ident /\ q2.pc = "release"
    BY <2>1 DEF RequestRecords
  <2> HIDE DEF q2
  <2>4. Modest(r, q2)
    BY <2>1, <2>2, <2>3 DEF Modest, Creating
  <2> QED
    BY <2>4, ModestKeeps
<1>5. ASSUME NEW r \in Requests, Dropped(r)
      PROVE  WinInv'
  <2>1. /\ req' = [req EXCEPT ![r] = NoRequest] /\ UNCHANGED <<backend, store, claims, won, deleted>>
        /\ NoRequest.op = "none" /\ NoRequest.pc = "idle"
    BY <1>5 DEF Dropped, Finish, NoRequest, setting, history
  <2>2. Modest(r, NoRequest)
    BY <2>1 DEF Modest
  <2> QED
    BY <2>2, ModestKeeps
<1>6. ASSUME NEW r \in Requests,
             Claim(r) \/ Check(r) \/ Save(r) \/ SaveUnanswered(r) \/ Release(r)
      PROVE  WinInv'
  BY <1>6, ClaimWins, CheckWins, SaveWins, UnansweredWins, ReleaseWins, SpecStoreAssumption
<1>7. CASE Next
  BY <1>2, <1>3, <1>4, <1>5, <1>6, <1>7 DEF Next
<1> QED
  BY <1>1, <1>7

(* Of the creates that race for a name one wins, until somebody deletes it    *)
(* (reserve_name and release_name in redis_store.py, create in base_store.py  *)
(* and the tool create_agent): on both backends, for any number of replicas,  *)
(* whatever saves undo each other and whatever answers are lost.              *)
THEOREM NameIsWonOnce == Spec => []OneWinnerUntilDeleted
<1>1. Init => StoreInv /\ Alone /\ WinInv
  <2> SUFFICES ASSUME Init PROVE StoreInv /\ Alone /\ WinInv
    OBVIOUS
  <2>1. won = [i \in Identities |-> 0] /\ req = [r \in Requests |-> NoRequest] /\ NoRequest.pc = "idle"
    BY DEF Init, NoRequest
  <2>2. \A r \in Requests : req[r].pc = "idle"
    BY <2>1
  <2>3. \A i \in Identities : Wins(i)
    BY <2>1, <2>2 DEF Wins, Creating
  <2>4. WinInv
    BY <2>1, <2>2, <2>3 DEF WinInv
  <2> QED
    BY <2>4, StoreInit, LedgerInit, SpecStoreAssumption
<1>2. StoreInv /\ Alone /\ WinInv /\ [Next]_vars => StoreInv' /\ Alone' /\ WinInv'
  BY StoreStep, AloneStep, WinStep, SpecStoreAssumption
<1>3. WinInv => OneWinnerUntilDeleted
  <2> SUFFICES ASSUME WinInv, NEW i \in Identities, won[i] > 1 PROVE i \in deleted
    BY DEF OneWinnerUntilDeleted
  <2>1. won[i] \in Nat
    BY DEF WinInv
  <2> QED
    BY <2>1 DEF WinInv, Wins
<1> QED
  BY <1>1, <1>2, <1>3, PTL DEF Spec
=============================================================================
