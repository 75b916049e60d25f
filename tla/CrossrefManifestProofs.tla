----------------------- MODULE CrossrefManifestProofs -----------------------
(***************************************************************************)
(* What the Crossref manifest promises, for any ISSNs, works, days and     *)
(* page sizes: a complete unit misses nothing, and what was delivered      *)
(* stays.                                                                  *)
(***************************************************************************)
EXTENDS CrossrefManifest, FiniteSetTheorems, TLAPS

(***************************************************************************)
(* The inductive invariant                                                 *)
(***************************************************************************)
Observed == [doi : DOIs, rev : 0 .. MaxRevision]
Queries == [group : Seq(Issn), from : Nat, to : Nat, carry : SUBSET Observed]
Traversals == [active : BOOLEAN, members : SUBSET Observed, expected : Nat, valid : BOOLEAN, first : BOOLEAN,
               repeats : BOOLEAN, parity : Int]
Units == [Issn -> [members : SUBSET Observed, complete : BOOLEAN]]

ManifestTypes ==
    /\ rev \in [DOIs -> 0 .. MaxRevision] /\ seen \in [DOIs -> 0 .. MaxRevision] /\ start \in SUBSET DOIs
    /\ stack \in Seq(Queries) /\ cursor \in Traversals /\ unit \in Units

Of(ms) == {m.doi : m \in ms}
Waiting(s) == {s[k] : k \in 1 .. Len(s)}
InDays(q, d) == q.from <= DayOf[d] /\ DayOf[d] <= q.to
Covers(q, d) == IssnsOf[d] \cap GroupOf(q) # {} /\ InDays(q, d)

\* A traversal is one of the query at hand, and remembers each work as it was delivered last, or
\* without a revision.
CursorIsOfQuery ==
    /\ ~cursor.active => cursor.members = {}
    /\ cursor.active => ~Done
    /\ \A m \in cursor.members : Covers(Q, m.doi) /\ m.rev \in {0, seen[m.doi]} /\ seen[m.doi] > 0

\* A work that was there at the start is in each of its units, or will be asked for, or the unit is
\* not reported complete.
StartIsCovered ==
    /\ \A d \in start : rev[d] > 0
    /\ \A i \in Issn : \A d \in start :
          (i \in IssnsOf[d] /\ DayOf[d] \in 1 .. LastDay /\ unit[i].complete) =>
              \/ d \in Dois(i)
              \/ \E q \in Waiting(stack) : i \in GroupOf(q) /\ InDays(q, d)

\* Among the members there is one for d that has the revision r or none.
Holds(ms, d, r) == \E m \in ms : m.doi = d /\ m.rev \in {0, r}

\* What was delivered is in a unit, or with a query that covers it still, or in the traversal.
DeliveredIsHeld ==
    \A d \in DOIs : seen[d] > 0 =>
        \/ \E i \in Issn : Holds(unit[i].members, d, seen[d])
        \/ \E q \in Waiting(stack) : Covers(q, d) /\ Holds(q.carry, d, seen[d])
        \/ Holds(cursor.members, d, seen[d])

\* Nothing but what was delivered is in the units and the queries.
OnlyWhatWasDelivered ==
    /\ \A d \in DOIs : seen[d] <= rev[d]
    /\ \A i \in Issn : \A d \in Of(unit[i].members) : seen[d] > 0
    /\ \A q \in Waiting(stack) : \A d \in Of(q.carry) : seen[d] > 0

ManifestInv == ManifestTypes /\ CursorIsOfQuery /\ StartIsCovered /\ DeliveredIsHeld /\ OnlyWhatWasDelivered

-----------------------------------------------------------------------------
(***************************************************************************)
(* _merge_manifest_members and the members of a query                      *)
(***************************************************************************)
Single(ms) == \A m, n \in ms : m.doi = n.doi => m = n

LEMMA RevisionsAreFinite ==
    ASSUME NEW R \in SUBSET (0 .. MaxRevision)
    PROVE  IsFiniteSet(R) /\ (Cardinality(R) = 1 <=> \E r \in R : R = {r})
<1>1. IsFiniteSet(0 .. MaxRevision)
    BY FS_Interval, ManifestAssumption
<1>2. IsFiniteSet(R)
    BY <1>1, FS_Subset
<1>3. Cardinality(R) = 1 <=> \E x : R = {x}
    BY <1>2, FS_Singleton
<1> QED
    BY <1>2, <1>3

\* One member for each DOI, with the revision all observations share, or with none.
LEMMA MergeFx ==
    ASSUME NEW ms \in SUBSET Observed
    PROVE  /\ Merge(ms) \in SUBSET Observed
           /\ Of(Merge(ms)) = Of(ms)
           /\ Single(Merge(ms))
           /\ \A m \in Merge(ms) : m.rev # 0 => \A n \in ms : n.doi = m.doi => n.rev = m.rev
<1> DEFINE Rs(d) == {m.rev : m \in {n \in ms : n.doi = d}}
           One(d) == IF Cardinality(Rs(d)) = 1 THEN CHOOSE r \in Rs(d) : TRUE ELSE 0
<1>1. Merge(ms) = {[doi |-> d, rev |-> One(d)] : d \in Of(ms)}
    BY DEF Merge, Of
<1>2. ASSUME NEW d \in Of(ms)
      PROVE  /\ d \in DOIs /\ One(d) \in 0 .. MaxRevision
             /\ One(d) # 0 => \A n \in ms : n.doi = d => n.rev = One(d)
  <2>1. Rs(d) \in SUBSET (0 .. MaxRevision)
      BY DEF Observed
  <2>2. Cardinality(Rs(d)) = 1 <=> \E r \in Rs(d) : Rs(d) = {r}
      BY <2>1, RevisionsAreFinite
  <2>3. \A n \in ms : n.doi = d => n.rev \in Rs(d)
      OBVIOUS
  <2>4. d \in DOIs
      BY DEF Of, Observed
  <2> HIDE DEF Rs
  <2>5. CASE Cardinality(Rs(d)) = 1
    <3>1. PICK r \in Rs(d) : Rs(d) = {r}
        BY <2>2, <2>5
    <3>2. One(d) = r
        BY <3>1, <2>5
    <3> QED
        BY <3>1, <3>2, <2>1, <2>3, <2>4
  <2>6. CASE Cardinality(Rs(d)) # 1
      BY <2>6, <2>4, ManifestAssumption
  <2> QED
      BY <2>5, <2>6
<1> HIDE DEF One
<1>3. Merge(ms) \in SUBSET Observed
    BY <1>1, <1>2 DEF Observed
<1>4. Of(Merge(ms)) = Of(ms)
  <2>1. \A m \in Merge(ms) : \E d \in Of(ms) : m.doi = d
      BY <1>1
  <2>2. ASSUME NEW d \in Of(ms) PROVE \E m \in Merge(ms) : m.doi = d
    <3>1. [doi |-> d, rev |-> One(d)] \in Merge(ms)
        BY <1>1
    <3>2. [doi |-> d, rev |-> One(d)].doi = d
        OBVIOUS
    <3> QED
        BY <3>1, <3>2
  <2> DEFINE D == Of(ms)
  <2>3. Of(ms) = D
      OBVIOUS
  <2> HIDE DEF D
  <2>4. {m.doi : m \in Merge(ms)} = D
      BY <2>1, <2>2, <2>3
  <2> QED
      BY <2>3, <2>4 DEF Of
<1>5. Single(Merge(ms))
    BY <1>1 DEF Single
<1>6. ASSUME NEW m \in Merge(ms), m.rev # 0, NEW n \in ms, n.doi = m.doi PROVE n.rev = m.rev
    BY <1>1, <1>2, <1>6
<1> QED
    BY <1>3, <1>4, <1>5, <1>6

LEMMA MergeHolds ==
    ASSUME NEW ms \in SUBSET Observed, NEW d, NEW r, Holds(ms, d, r)
    PROVE  Holds(Merge(ms), d, r)
<1>1. PICK m \in ms : m.doi = d /\ m.rev \in {0, r}
    BY DEF Holds
<1>2. PICK n \in Merge(ms) : n.doi = d
    BY <1>1, MergeFx DEF Of
<1>3. n.rev \in {0, r}
    BY <1>1, <1>2, MergeFx
<1> QED
    BY <1>2, <1>3 DEF Holds

LEMMA HoldsMore ==
    ASSUME NEW ms, NEW ns, ms \subseteq ns, NEW d, NEW r, Holds(ms, d, r)
    PROVE  Holds(ns, d, r)
BY DEF Holds

\* As many members as there are works in T, all of them of T, are all of T.
LEMMA CountFx ==
    ASSUME NEW ms \in SUBSET Observed, Single(ms), NEW T \in SUBSET DOIs, Of(ms) \subseteq T,
           Cardinality(ms) = Cardinality(T)
    PROVE  Of(ms) = T
<1> DEFINE f == [m \in ms |-> m.doi]
<1>1. IsFiniteSet(T)
    BY ManifestAssumption, FS_Subset
<1>2. f \in Injection(ms, T)
    BY DEF Injection, IsInjective, Single, Of
<1>3. f \in Surjection(ms, T)
    BY <1>1, <1>2, FS_Injection
<1> QED
    BY <1>3 DEF Surjection, Of

\* The works of a page become its members.
LEMMA PageFx ==
    ASSUME ManifestTypes, NEW S \in SUBSET DOIs
    PROVE  /\ {Member(d) : d \in S} \in SUBSET Observed
           /\ Of({Member(d) : d \in S}) = S
           /\ Single({Member(d) : d \in S})
           /\ \A m \in {Member(d) : d \in S} : m.rev = rev[m.doi]
<1>1. \A d \in S : Member(d) = [doi |-> d, rev |-> rev[d]] /\ rev[d] \in 0 .. MaxRevision
    BY DEF Member, ManifestTypes
<1> QED
    BY <1>1 DEF Observed, Of, Single

-----------------------------------------------------------------------------
(***************************************************************************)
(* The stack of queries                                                    *)
(***************************************************************************)
LEMMA StackFx ==
    ASSUME NEW T, NEW s \in Seq(T), s # <<>>
    PROVE  /\ Head(s) \in T /\ Tail(s) \in Seq(T)
           /\ Waiting(s) = {Head(s)} \cup Waiting(Tail(s))
           /\ Waiting(s) \subseteq T
<1>1. Len(s) \in Nat /\ Len(s) > 0 /\ Head(s) = s[1] /\ Tail(s) \in Seq(T) /\ Len(Tail(s)) = Len(s) - 1
    OBVIOUS
<1>2. \A k \in 1 .. Len(Tail(s)) : Tail(s)[k] = s[k + 1]
    OBVIOUS
<1>3. \A k \in 1 .. Len(s) : s[k] \in T
    OBVIOUS
<1>4. \A k \in 1 .. Len(s) : k = 1 \/ (k - 1 \in 1 .. Len(Tail(s)) /\ s[k] = Tail(s)[k - 1])
    BY <1>1, <1>2
<1>5. \A k \in 1 .. Len(Tail(s)) : k + 1 \in 1 .. Len(s)
    BY <1>1
<1> QED
    BY <1>1, <1>2, <1>3, <1>4, <1>5 DEF Waiting

LEMMA PushFx ==
    ASSUME NEW p \in Seq(Queries), p # <<>>, NEW s \in Seq(Queries)
    PROVE  /\ p \o s \in Seq(Queries) /\ p \o s # <<>> /\ Head(p \o s) = p[1]
           /\ Waiting(p \o s) = Waiting(p) \cup Waiting(s)
<1> DEFINE u == p \o s
<1>1. u \in Seq(Queries) /\ Len(u) = Len(p) + Len(s) /\ Len(s) \in Nat /\ Len(p) \in Nat \ {0}
    OBVIOUS
<1>2. \A k \in 1 .. Len(p) : u[k] = p[k]
    OBVIOUS
<1>3. \A k \in 1 .. Len(s) : u[Len(p) + k] = s[k]
    OBVIOUS
<1>4. \A k \in 1 .. Len(s) : Len(p) + k \in 1 .. Len(u)
    BY <1>1
<1>5. \A k \in 1 .. Len(u) : k \in 1 .. Len(p) \/ (k - Len(p) \in 1 .. Len(s) /\ Len(p) + (k - Len(p)) = k)
    BY <1>1
<1> HIDE DEF u
<1>6. u # <<>> /\ Head(u) = u[1] /\ 1 \in 1 .. Len(p) /\ \A k \in 1 .. Len(p) : k \in 1 .. Len(u)
    BY <1>1
<1>7. Waiting(u) = Waiting(p) \cup Waiting(s)
  <2>1. ASSUME NEW k \in 1 .. Len(u) PROVE u[k] \in Waiting(p) \cup Waiting(s)
    <3>1. CASE k \in 1 .. Len(p)
        BY <3>1, <1>2 DEF Waiting
    <3>2. CASE k - Len(p) \in 1 .. Len(s) /\ Len(p) + (k - Len(p)) = k
        BY <3>2, <1>3 DEF Waiting
    <3> QED
        BY <3>1, <3>2, <1>5
  <2>2. \A k \in 1 .. Len(p) : p[k] \in Waiting(u)
      BY <1>2, <1>6 DEF Waiting
  <2>3. \A k \in 1 .. Len(s) : s[k] \in Waiting(u)
      BY <1>3, <1>4 DEF Waiting
  <2> QED
      BY <2>1, <2>2, <2>3 DEF Waiting
<1> QED
    BY <1>1, <1>2, <1>6, <1>7 DEF u

LEMMA PushOne ==
    ASSUME NEW s \in Seq(Queries), NEW a \in Queries
    PROVE  /\ <<a>> \o s \in Seq(Queries) /\ <<a>> \o s # <<>> /\ Head(<<a>> \o s) = a
           /\ Waiting(<<a>> \o s) = {a} \cup Waiting(s)
<1>1. <<a>> \in Seq(Queries) /\ <<a>> # <<>> /\ <<a>>[1] = a /\ Waiting(<<a>>) = {a}
    BY DEF Waiting
<1> QED
    BY <1>1, PushFx

LEMMA PushTwo ==
    ASSUME NEW s \in Seq(Queries), NEW a \in Queries, NEW b \in Queries
    PROVE  /\ <<a, b>> \o s \in Seq(Queries) /\ <<a, b>> \o s # <<>> /\ Head(<<a, b>> \o s) = a
           /\ Waiting(<<a, b>> \o s) = {a, b} \cup Waiting(s)
<1>1. <<a, b>> \in Seq(Queries) /\ <<a, b>> # <<>> /\ <<a, b>>[1] = a /\ Waiting(<<a, b>>) = {a, b}
    BY DEF Waiting
<1> QED
    BY <1>1, PushFx

-----------------------------------------------------------------------------
(***************************************************************************)
(* How a query ends.  Of the works asked for, those of S were delivered    *)
(* just now and are among the members.                                     *)
(***************************************************************************)
Delivered(S) == seen' = [d \in DOIs |-> IF d \in S THEN rev[d] ELSE seen[d]]

LEMMA MatchesFx ==
    ASSUME ManifestTypes, ~Done
    PROVE  /\ Q \in Queries /\ Q \in Waiting(stack)
           /\ Matches(Q) \in SUBSET DOIs
           /\ \A d \in DOIs : d \in Matches(Q) <=> rev[d] > 0 /\ Covers(Q, d)
<1>1. Q \in Queries /\ Q \in Waiting(stack)
    BY StackFx DEF Q, ManifestTypes, Done
<1> QED
    BY <1>1 DEF Matches, Covers, InDays

LEMMA DeliveredFx ==
    ASSUME ManifestTypes, NEW S \in SUBSET DOIs, Delivered(S)
    PROVE  /\ seen' \in [DOIs -> 0 .. MaxRevision]
           /\ \A d \in S : seen'[d] = rev[d]
           /\ \A d \in DOIs \ S : seen'[d] = seen[d]
BY DEF ManifestTypes, Delivered

\* What a query, its traversal and its page found: of the works it asked for, as they were delivered last.
Found(ms, S) ==
    /\ ms \in SUBSET Observed /\ S \in SUBSET Matches(Q) /\ Delivered(S)
    /\ \A m \in ms : m.doi \in Matches(Q) /\ m.rev \in {0, seen'[m.doi]} /\ seen'[m.doi] > 0
    /\ S \subseteq Of(ms)
    /\ Of(cursor.members) \subseteq Of(ms)

LEMMA FinishUnits ==
    ASSUME ManifestInv, ~Done, NEW members \in SUBSET Observed, NEW complete \in BOOLEAN, Finish(members, complete)
    PROVE  /\ unit' \in Units /\ stack' \in Seq(Queries) /\ cursor' \in Traversals
           /\ cursor'.members = {} /\ ~cursor'.active
           /\ Waiting(stack) = {Q} \cup Waiting(stack')
           /\ \A i \in Issn :
                 /\ unit'[i].complete => unit[i].complete
                 /\ i \in GroupOf(Q) /\ unit'[i].complete => complete
                 /\ Of(unit[i].members) \subseteq Of(unit'[i].members)
                 /\ Of(unit'[i].members) \subseteq Of(unit[i].members) \cup Of(members) \cup Of(Q.carry)
                 /\ i \in GroupOf(Q) =>
                       \A m \in members : i \in IssnsOf[m.doi] => m.doi \in Of(unit'[i].members)
                 /\ \A d, r : Holds(unit[i].members, d, r) => Holds(unit'[i].members, d, r)
                 /\ i \in GroupOf(Q) =>
                       \A d, r : i \in IssnsOf[d] /\ (Holds(members, d, r) \/ (~complete /\ Holds(Q.carry, d, r)))
                                    => Holds(unit'[i].members, d, r)
<1> DEFINE mine(i) == {m \in members : i \in IssnsOf[m.doi]}
           more(i) == IF complete THEN {} ELSE {m \in Q.carry : i \in IssnsOf[m.doi]}
           merged(i) == unit[i].members \cup mine(i) \cup more(i)
<1>1. Q \in Queries /\ Q.carry \in SUBSET Observed
    BY MatchesFx DEF ManifestInv, Queries
<1>2. \A i \in Issn : unit[i].members \in SUBSET Observed /\ unit[i].complete \in BOOLEAN
    BY DEF ManifestInv, ManifestTypes, Units
<1>3. \A i \in Issn : merged(i) \in SUBSET Observed
    BY <1>1, <1>2
<1>4. /\ unit' = [i \in Issn |-> IF i \notin GroupOf(Q) THEN unit[i]
                                 ELSE [members |-> Merge(merged(i)), complete |-> unit[i].complete /\ complete]]
      /\ stack' = Tail(stack) /\ cursor' = NoCursor
    BY DEF Finish, ManifestInv, ManifestTypes, Units
<1>5. stack' \in Seq(Queries) /\ Waiting(stack) = {Q} \cup Waiting(stack')
    BY <1>4, StackFx DEF ManifestInv, ManifestTypes, Done, Q
<1>6. cursor' \in Traversals /\ cursor'.members = {} /\ ~cursor'.active
    BY <1>4 DEF NoCursor, Traversals
<1>7. ASSUME NEW i \in Issn, i \notin GroupOf(Q)
      PROVE  unit'[i] = unit[i]
    BY <1>4, <1>7
<1>8. ASSUME NEW i \in Issn, i \in GroupOf(Q)
      PROVE  unit'[i].members = Merge(merged(i)) /\ unit'[i].complete = (unit[i].complete /\ complete)
             /\ unit'[i] \in [members : SUBSET Observed, complete : BOOLEAN]
  <2>1. unit'[i] = [members |-> Merge(merged(i)), complete |-> unit[i].complete /\ complete]
      BY <1>4, <1>8
  <2> QED
      BY <2>1, <1>2, <1>3, MergeFx
<1>9. unit' \in Units
  <2>1. \A i \in Issn : unit'[i] \in [members : SUBSET Observed, complete : BOOLEAN]
      BY <1>7, <1>8 DEF ManifestInv, ManifestTypes, Units
  <2> HIDE DEF merged
  <2> QED
      BY <2>1, <1>4 DEF Units
<1>10. ASSUME NEW i \in Issn
       PROVE  /\ unit[i].members \subseteq merged(i)
              /\ \A m \in members : i \in IssnsOf[m.doi] => m \in merged(i)
              /\ ~complete => \A m \in Q.carry : i \in IssnsOf[m.doi] => m \in merged(i)
              /\ merged(i) \subseteq unit[i].members \cup members \cup Q.carry
    OBVIOUS
<1> HIDE DEF mine, more, merged
<1>11. ASSUME NEW i \in Issn, i \in GroupOf(Q) PROVE Of(unit'[i].members) = Of(merged(i))
    BY <1>3, <1>8, <1>11, MergeFx
<1>12. ASSUME NEW i \in Issn, i \in GroupOf(Q), NEW d, NEW r, Holds(merged(i), d, r)
       PROVE  Holds(unit'[i].members, d, r)
    BY <1>3, <1>8, <1>12, MergeHolds
<1>13. ASSUME NEW i \in Issn
       PROVE  /\ unit'[i].complete => unit[i].complete
              /\ i \in GroupOf(Q) /\ unit'[i].complete => complete
    BY <1>7, <1>8
<1>14. ASSUME NEW i \in Issn
       PROVE  /\ Of(unit[i].members) \subseteq Of(unit'[i].members)
              /\ Of(unit'[i].members) \subseteq Of(unit[i].members) \cup Of(members) \cup Of(Q.carry)
              /\ i \in GroupOf(Q) => \A m \in members : i \in IssnsOf[m.doi] => m.doi \in Of(unit'[i].members)
  <2>1. CASE i \notin GroupOf(Q)
      BY <2>1, <1>7
  <2>2. CASE i \in GroupOf(Q)
      BY <2>2, <1>10, <1>11 DEF Of
  <2> QED
      BY <2>1, <2>2
<1>15. ASSUME NEW i \in Issn, NEW d, NEW r, Holds(unit[i].members, d, r)
       PROVE  Holds(unit'[i].members, d, r)
  <2>1. CASE i \notin GroupOf(Q)
      BY <2>1, <1>7, <1>15
  <2>2. CASE i \in GroupOf(Q)
      BY <2>2, <1>10, <1>12, <1>15, HoldsMore
  <2> QED
      BY <2>1, <2>2
<1>16. ASSUME NEW i \in Issn, i \in GroupOf(Q), NEW d, NEW r, i \in IssnsOf[d],
              Holds(members, d, r) \/ (~complete /\ Holds(Q.carry, d, r))
       PROVE  Holds(unit'[i].members, d, r)
  <2>1. Holds(merged(i), d, r)
      BY <1>10, <1>16 DEF Holds
  <2> QED
      BY <2>1, <1>12, <1>16
<1> QED
    BY <1>5, <1>6, <1>9, <1>13, <1>14, <1>15, <1>16

LEMMA GroupFx == ASSUME NEW q \in Queries PROVE GroupOf(q) \subseteq Issn
BY DEF GroupOf, Queries

LEMMA FinishKeeps ==
    ASSUME ManifestInv, ~Done, NEW members, NEW S, Found(members, S), NEW complete \in BOOLEAN,
           complete => Of(members) = Matches(Q), Finish(members, complete), rev' = rev, start' = start
    PROVE  ManifestInv'
<1>1. members \in SUBSET Observed /\ S \in SUBSET Matches(Q) /\ Delivered(S)
    BY DEF Found
<1>2. /\ Q \in Queries /\ Q \in Waiting(stack) /\ Matches(Q) \in SUBSET DOIs /\ GroupOf(Q) \subseteq Issn
      /\ \A d \in DOIs : d \in Matches(Q) <=> rev[d] > 0 /\ Covers(Q, d)
    BY MatchesFx, GroupFx DEF ManifestInv
<1>3. /\ seen' \in [DOIs -> 0 .. MaxRevision]
      /\ \A d \in S : seen'[d] = rev[d]
      /\ \A d \in DOIs \ S : seen'[d] = seen[d]
    BY <1>1, <1>2, DeliveredFx DEF ManifestInv
<1>4. /\ unit' \in Units /\ stack' \in Seq(Queries) /\ cursor' \in Traversals
      /\ cursor'.members = {} /\ ~cursor'.active
      /\ Waiting(stack) = {Q} \cup Waiting(stack')
    BY <1>1, FinishUnits
<1>5. ASSUME NEW i \in Issn
      PROVE  /\ unit'[i].complete => unit[i].complete
             /\ i \in GroupOf(Q) /\ unit'[i].complete => complete
             /\ Of(unit[i].members) \subseteq Of(unit'[i].members)
             /\ Of(unit'[i].members) \subseteq Of(unit[i].members) \cup Of(members) \cup Of(Q.carry)
             /\ i \in GroupOf(Q) => \A m \in members : i \in IssnsOf[m.doi] => m.doi \in Of(unit'[i].members)
    BY <1>1, FinishUnits, ZenonT(60)
<1>6. ASSUME NEW i \in Issn, NEW d, NEW r, Holds(unit[i].members, d, r)
      PROVE  Holds(unit'[i].members, d, r)
    BY <1>1, <1>6, FinishUnits
<1>7. ASSUME NEW i \in Issn, i \in GroupOf(Q), NEW d, NEW r, i \in IssnsOf[d],
             Holds(members, d, r) \/ (~complete /\ Holds(Q.carry, d, r))
      PROVE  Holds(unit'[i].members, d, r)
    BY <1>1, <1>7, FinishUnits
<1>8. ManifestTypes'
    BY <1>3, <1>4 DEF ManifestInv, ManifestTypes
<1>9. CursorIsOfQuery'
    BY <1>4 DEF CursorIsOfQuery
<1>10. \A d \in start : d \in DOIs /\ rev[d] > 0
    BY DEF ManifestInv, ManifestTypes, StartIsCovered
<1>11. StartIsCovered'
  <2>1. ASSUME NEW i \in Issn, NEW d \in start, i \in IssnsOf[d], DayOf[d] \in 1 .. LastDay, unit'[i].complete
        PROVE  d \in Of(unit'[i].members) \/ \E q \in Waiting(stack') : i \in GroupOf(q) /\ InDays(q, d)
    <3>1. d \in Of(unit[i].members) \/ \E q \in Waiting(stack) : i \in GroupOf(q) /\ InDays(q, d)
        BY <1>5, <2>1 DEF ManifestInv, StartIsCovered, Dois, Of
    <3>2. CASE i \in GroupOf(Q) /\ InDays(Q, d)
      <4>1. complete /\ d \in Matches(Q)
          BY <1>2, <1>5, <1>10, <2>1, <3>2 DEF Covers
      <4> QED
          BY <1>5, <2>1, <3>2, <4>1 DEF Of
    <3> QED
        BY <1>4, <1>5, <3>1, <3>2
  <2> QED
      BY <1>10, <2>1 DEF StartIsCovered, Dois, Of
<1>12. DeliveredIsHeld'
  <2>1. ASSUME NEW d \in DOIs, Covers(Q, d), Holds(members, d, seen'[d]) \/ (~complete /\ Holds(Q.carry, d, seen'[d]))
        PROVE  \E i \in Issn : Holds(unit'[i].members, d, seen'[d])
    <3>1. PICK i \in GroupOf(Q) : i \in IssnsOf[d]
        BY <2>1 DEF Covers
    <3> QED
        BY <1>2, <1>7, <2>1, <3>1
  <2>2. ASSUME NEW d \in Of(members) PROVE d \in DOIs /\ Covers(Q, d) /\ Holds(members, d, seen'[d])
    <3>1. PICK m \in members : m.doi = d
        BY <2>2 DEF Of
    <3> QED
        BY <1>2, <3>1 DEF Found, Holds
  <2>3. ASSUME NEW d \in DOIs, seen'[d] > 0
        PROVE  \/ \E i \in Issn : Holds(unit'[i].members, d, seen'[d])
               \/ \E q \in Waiting(stack') : Covers(q, d) /\ Holds(q.carry, d, seen'[d])
    <3>1. CASE d \in Of(members)
        BY <2>1, <2>2, <3>1
    <3>2. CASE d \notin Of(members)
      <4>1. seen'[d] = seen[d] /\ ~Holds(cursor.members, d, seen[d])
          BY <1>3, <2>3, <3>2 DEF Found, Holds, Of
      <4>2. \/ \E i \in Issn : Holds(unit[i].members, d, seen[d])
            \/ \E q \in Waiting(stack) : Covers(q, d) /\ Holds(q.carry, d, seen[d])
          BY <2>3, <4>1 DEF ManifestInv, DeliveredIsHeld
      <4>3. ASSUME Covers(Q, d), Holds(Q.carry, d, seen[d]) PROVE ~complete
        <5>1. rev[d] > 0
            BY <2>3, <4>1 DEF ManifestInv, ManifestTypes, OnlyWhatWasDelivered
        <5> QED
            BY <1>2, <3>2, <4>3, <5>1
      <4> QED
          BY <1>4, <1>6, <2>1, <4>1, <4>2, <4>3
    <3> QED
        BY <3>1, <3>2
  <2> QED
      BY <2>3 DEF DeliveredIsHeld
<1>13. OnlyWhatWasDelivered'
  <2>1. \A d \in DOIs : seen[d] > 0 => seen'[d] > 0
      BY <1>1, <1>2, <1>3
  <2>2. ASSUME NEW d \in DOIs PROVE seen'[d] <= rev[d]
    <3>1. rev[d] \in Nat /\ seen[d] <= rev[d]
        BY DEF ManifestInv, ManifestTypes, OnlyWhatWasDelivered
    <3> QED
        BY <1>3, <3>1
  <2>3. \A q \in Waiting(stack) : \A d \in Of(q.carry) : seen[d] > 0 /\ d \in DOIs
    <3>1. Waiting(stack) \subseteq Queries
        BY StackFx DEF ManifestInv, ManifestTypes, Done
    <3> QED
        BY <3>1 DEF ManifestInv, OnlyWhatWasDelivered, Queries, Observed, Of
  <2>4. \A i \in Issn : \A d \in Of(unit[i].members) : seen[d] > 0 /\ d \in DOIs
      BY DEF ManifestInv, ManifestTypes, OnlyWhatWasDelivered, Units, Observed, Of
  <2>5. \A d \in Of(members) : seen'[d] > 0
      BY DEF Found, Of
  <2>6. ASSUME NEW i \in Issn, NEW d \in Of(unit'[i].members) PROVE seen'[d] > 0
      BY <1>2, <1>5, <2>1, <2>3, <2>4, <2>5, <2>6
  <2> QED
      BY <1>4, <2>1, <2>2, <2>3, <2>6, rev' = rev DEF OnlyWhatWasDelivered
<1> QED
    BY <1>8, <1>9, <1>11, <1>12, <1>13 DEF ManifestInv

-----------------------------------------------------------------------------
(***************************************************************************)
(* How a query is cut: each work it covers is covered by one of the parts, *)
(* and what was found travels with each.                                   *)
(***************************************************************************)
LEMMA HalfFx == ASSUME NEW n \in Nat, n > 1 PROVE n \div 2 \in Nat /\ 1 <= n \div 2 /\ n \div 2 < n
OBVIOUS

LEMMA HalvesFx ==
    ASSUME NEW q \in Queries, Len(q.group) > 1
    PROVE  LET half == Len(q.group) \div 2
               one == SubSeq(q.group, 1, half)
               two == SubSeq(q.group, half + 1, Len(q.group))
           IN  one \in Seq(Issn) /\ two \in Seq(Issn)
               /\ GroupOf(q) = GroupOf([q EXCEPT !.group = one]) \cup GroupOf([q EXCEPT !.group = two])
<1> DEFINE n == Len(q.group)
           half == n \div 2
           one == SubSeq(q.group, 1, half)
           two == SubSeq(q.group, half + 1, n)
<1>1. q.group \in Seq(Issn) /\ n \in Nat /\ n > 1
    BY DEF Queries
<1>2. half \in Nat /\ 1 <= half /\ half < n
    BY <1>1, HalfFx
<1> HIDE DEF half
<1>3. one \in Seq(Issn) /\ Len(one) = half /\ \A k \in 1 .. half : one[k] = q.group[k]
    BY <1>1, <1>2
<1>4. two \in Seq(Issn) /\ Len(two) = n - half /\ \A k \in 1 .. (n - half) : two[k] = q.group[half + k]
    BY <1>1, <1>2
<1> HIDE DEF one, two, n
<1> DEFINE a == [q EXCEPT !.group = one]
           b == [q EXCEPT !.group = two]
<1>5. a.group = one /\ b.group = two
    BY DEF Queries
<1> HIDE DEF a, b
<1>6. ASSUME NEW x \in GroupOf(q) PROVE x \in GroupOf(a) \cup GroupOf(b)
  <2>1. PICK k \in 1 .. n : x = q.group[k]
      BY <1>6 DEF GroupOf, n
  <2>2. CASE k <= half
      BY <1>2, <1>3, <1>5, <2>1, <2>2 DEF GroupOf
  <2>3. CASE k > half
    <3>1. k - half \in 1 .. (n - half) /\ half + (k - half) = k
        BY <1>1, <1>2, <2>1, <2>3
    <3> QED
        BY <1>4, <1>5, <2>1, <3>1 DEF GroupOf
  <2> QED
      BY <1>1, <1>2, <2>1, <2>2, <2>3
<1>7. ASSUME NEW x \in GroupOf(a) PROVE x \in GroupOf(q)
    BY <1>1, <1>2, <1>3, <1>5, <1>7 DEF GroupOf, n
<1>8. ASSUME NEW x \in GroupOf(b) PROVE x \in GroupOf(q)
  <2>1. PICK k \in 1 .. (n - half) : x = q.group[half + k]
      BY <1>4, <1>5, <1>8 DEF GroupOf
  <2>2. half + k \in 1 .. n
      BY <1>1, <1>2, <2>1
  <2> QED
      BY <2>1, <2>2 DEF GroupOf, n
<1>9. GroupOf(q) = GroupOf(a) \cup GroupOf(b)
    BY <1>6, <1>7, <1>8
<1> QED
    BY <1>3, <1>4, <1>9 DEF a, b, one, two, half, n

LEMMA SplitFx ==
    ASSUME ManifestInv, ~Done, ~cursor.active, NEW members \in SUBSET Observed, Split(members)
    PROVE  \E parts \in SUBSET Queries :
              /\ stack' \in Seq(Queries) /\ stack' # <<>> /\ unit' = unit
              /\ Waiting(stack') = parts \cup Waiting(Tail(stack))
              /\ cursor' \in Traversals /\ cursor'.members = {}
              /\ \A q \in parts : q.carry = Merge(Q.carry \cup members)
              /\ \A d \in DOIs : InDays(Q, d) =>
                    \A i \in GroupOf(Q) : \E q \in parts : i \in GroupOf(q) /\ InDays(q, d)
<1> DEFINE carry == Merge(Q.carry \cup members)
           half == Len(Q.group) \div 2
           middle == Q.from + (Q.to - Q.from) \div 2
           one == SubSeq(Q.group, 1, half)
           two == SubSeq(Q.group, half + 1, Len(Q.group))
           cut == [Q EXCEPT !.carry = carry]
<1>1. Q \in Queries /\ Tail(stack) \in Seq(Queries)
    BY MatchesFx, StackFx DEF ManifestInv, ManifestTypes, Done
<1>2. carry \in SUBSET Observed
  <2>1. Q.carry \cup members \in SUBSET Observed
      BY <1>1 DEF Queries
  <2> QED
      BY <2>1, MergeFx
<1>3. cursor \in Traversals /\ cursor.members = {} /\ [NoCursor EXCEPT !.active = TRUE] \in Traversals
      /\ [NoCursor EXCEPT !.active = TRUE].members = {}
  <2>1. cursor \in Traversals /\ cursor.members = {}
      BY DEF ManifestInv, ManifestTypes, CursorIsOfQuery
  <2>2. NoCursor \in Traversals /\ NoCursor.members = {}
      BY DEF NoCursor, Traversals
  <2>3. \A c \in Traversals : /\ [c EXCEPT !.active = TRUE] \in Traversals
                               /\ [c EXCEPT !.active = TRUE].members = c.members
      BY DEF Traversals
  <2> QED
      BY <2>1, <2>2, <2>3
<1>4. unit' = unit
    BY DEF Split
<1>5. cut \in Queries /\ cut.carry = carry /\ cut.group = Q.group /\ cut.from = Q.from /\ cut.to = Q.to
    BY <1>1, <1>2 DEF Queries
<1>6. GroupOf(cut) = GroupOf(Q)
    BY <1>5 DEF GroupOf
<1>7. CASE Len(Q.group) > 1
  <2> DEFINE a == [cut EXCEPT !.group = one]
             b == [cut EXCEPT !.group = two]
  <2>1. stack' = <<a, b>> \o Tail(stack) /\ cursor' = cursor
      BY <1>7 DEF Split
  <2>2. one \in Seq(Issn) /\ two \in Seq(Issn) /\ GroupOf(cut) = GroupOf(a) \cup GroupOf(b)
      BY <1>5, <1>7, HalvesFx
  <2> HIDE DEF one, two, cut, carry
  <2>3. /\ a \in Queries /\ a.carry = carry /\ a.from = Q.from /\ a.to = Q.to
        /\ b \in Queries /\ b.carry = carry /\ b.from = Q.from /\ b.to = Q.to
      BY <1>5, <2>2 DEF Queries
  <2> HIDE DEF a, b
  <2>4. stack' \in Seq(Queries) /\ stack' # <<>> /\ Waiting(stack') = {a, b} \cup Waiting(Tail(stack))
      BY <1>1, <2>1, <2>3, PushTwo
  <2>5. \A d \in DOIs : InDays(Q, d) => InDays(a, d) /\ InDays(b, d)
      BY <2>3 DEF InDays
  <2> DEFINE parts == {a, b}
  <2>6. /\ parts \in SUBSET Queries /\ Waiting(stack') = parts \cup Waiting(Tail(stack))
        /\ \A q \in parts : q.carry = carry
        /\ \A d \in DOIs : InDays(Q, d) => \A i \in GroupOf(Q) : \E q \in parts : i \in GroupOf(q) /\ InDays(q, d)
      BY <1>6, <2>2, <2>3, <2>4, <2>5
  <2> HIDE DEF parts
  <2> QED
      BY <1>3, <1>4, <2>1, <2>4, <2>6 DEF carry
<1>8. CASE ~(Len(Q.group) > 1) /\ Q.from < Q.to
  <2> DEFINE a == [cut EXCEPT !.to = middle]
             b == [cut EXCEPT !.from = middle + 1]
  <2>1. stack' = <<a, b>> \o Tail(stack) /\ cursor' = cursor
      BY <1>8 DEF Split
  <2>2. middle \in Nat /\ Q.from \in Nat /\ Q.to \in Nat
      BY <1>1, <1>8 DEF Queries
  <2> HIDE DEF middle, cut, carry
  <2>3. /\ a \in Queries /\ a.carry = carry /\ a.from = Q.from /\ a.to = middle /\ a.group = Q.group
        /\ b \in Queries /\ b.carry = carry /\ b.from = middle + 1 /\ b.to = Q.to /\ b.group = Q.group
      BY <1>5, <2>2 DEF Queries
  <2> HIDE DEF a, b
  <2>4. stack' \in Seq(Queries) /\ stack' # <<>> /\ Waiting(stack') = {a, b} \cup Waiting(Tail(stack))
      BY <1>1, <2>1, <2>3, PushTwo
  <2>5. GroupOf(a) = GroupOf(Q) /\ GroupOf(b) = GroupOf(Q)
      BY <2>3 DEF GroupOf
  <2>6. \A d \in DOIs : InDays(Q, d) => InDays(a, d) \/ InDays(b, d)
      BY <2>2, <2>3, ManifestAssumption DEF InDays
  <2> DEFINE parts == {a, b}
  <2>7. /\ parts \in SUBSET Queries /\ Waiting(stack') = parts \cup Waiting(Tail(stack))
        /\ \A q \in parts : q.carry = carry
        /\ \A d \in DOIs : InDays(Q, d) => \A i \in GroupOf(Q) : \E q \in parts : i \in GroupOf(q) /\ InDays(q, d)
      BY <2>3, <2>4, <2>5, <2>6
  <2> HIDE DEF parts
  <2> QED
      BY <1>3, <1>4, <2>1, <2>4, <2>7 DEF carry
<1>9. CASE ~(Len(Q.group) > 1) /\ ~(Q.from < Q.to)
  <2>1. stack' = <<cut>> \o Tail(stack) /\ cursor' = [NoCursor EXCEPT !.active = TRUE]
      BY <1>9 DEF Split
  <2> HIDE DEF cut, carry
  <2>2. stack' \in Seq(Queries) /\ stack' # <<>> /\ Waiting(stack') = {cut} \cup Waiting(Tail(stack))
      BY <1>1, <1>5, <2>1, PushOne
  <2>3. \A d \in DOIs : InDays(Q, d) => InDays(cut, d)
      BY <1>5 DEF InDays
  <2> DEFINE parts == {cut}
  <2>4. /\ parts \in SUBSET Queries /\ Waiting(stack') = parts \cup Waiting(Tail(stack))
        /\ \A q \in parts : q.carry = carry
        /\ \A d \in DOIs : InDays(Q, d) => \A i \in GroupOf(Q) : \E q \in parts : i \in GroupOf(q) /\ InDays(q, d)
      BY <1>5, <1>6, <2>2, <2>3
  <2> HIDE DEF parts
  <2> QED
      BY <1>3, <1>4, <2>1, <2>2, <2>4 DEF carry
<1> QED
    BY <1>7, <1>8, <1>9

LEMMA SplitKeeps ==
    ASSUME ManifestInv, ~Done, ~cursor.active, NEW members, NEW S, Found(members, S), Split(members),
           rev' = rev, start' = start
    PROVE  ManifestInv'
<1>1. members \in SUBSET Observed /\ S \in SUBSET Matches(Q) /\ Delivered(S)
    BY DEF Found
<1>2. /\ Q \in Queries /\ Matches(Q) \in SUBSET DOIs /\ GroupOf(Q) \subseteq Issn
      /\ \A d \in DOIs : d \in Matches(Q) <=> rev[d] > 0 /\ Covers(Q, d)
    BY MatchesFx, GroupFx DEF ManifestInv
<1>3. /\ seen' \in [DOIs -> 0 .. MaxRevision]
      /\ \A d \in S : seen'[d] = rev[d]
      /\ \A d \in DOIs \ S : seen'[d] = seen[d]
    BY <1>1, <1>2, DeliveredFx DEF ManifestInv
<1>4. PICK parts \in SUBSET Queries :
              /\ stack' \in Seq(Queries) /\ stack' # <<>> /\ unit' = unit
              /\ Waiting(stack') = parts \cup Waiting(Tail(stack))
              /\ cursor' \in Traversals /\ cursor'.members = {}
              /\ \A q \in parts : q.carry = Merge(Q.carry \cup members)
              /\ \A d \in DOIs : InDays(Q, d) =>
                    \A i \in GroupOf(Q) : \E q \in parts : i \in GroupOf(q) /\ InDays(q, d)
    BY <1>1, SplitFx
<1>5. Waiting(stack) = {Q} \cup Waiting(Tail(stack)) /\ Waiting(stack) \subseteq Queries
    BY StackFx DEF ManifestInv, ManifestTypes, Done, Q
<1>6. Q.carry \cup members \in SUBSET Observed
    BY <1>1, <1>2 DEF Queries
<1>7. ManifestTypes'
    BY <1>3, <1>4 DEF ManifestInv, ManifestTypes
<1>8. CursorIsOfQuery'
    BY <1>4 DEF CursorIsOfQuery, Done
<1>9. StartIsCovered'
  <2>1. \A d \in start : d \in DOIs /\ rev[d] > 0
      BY DEF ManifestInv, ManifestTypes, StartIsCovered
  <2>2. ASSUME NEW i \in Issn, NEW d \in start, \E q \in Waiting(stack) : i \in GroupOf(q) /\ InDays(q, d)
        PROVE  \E q \in Waiting(stack') : i \in GroupOf(q) /\ InDays(q, d)
      BY <1>4, <1>5, <2>1, <2>2
  <2> QED
      BY <1>4, <2>2 DEF ManifestInv, StartIsCovered, Dois
<1>10. DeliveredIsHeld'
  <2>1. ASSUME NEW d \in DOIs, Covers(Q, d), Holds(Q.carry \cup members, d, seen'[d])
        PROVE  \E q \in Waiting(stack') : Covers(q, d) /\ Holds(q.carry, d, seen'[d])
    <3>1. PICK i \in GroupOf(Q) : i \in IssnsOf[d] /\ InDays(Q, d)
        BY <2>1 DEF Covers
    <3>2. PICK q \in parts : i \in GroupOf(q) /\ InDays(q, d)
        BY <1>4, <3>1
    <3>3. Holds(Merge(Q.carry \cup members), d, seen'[d])
        BY <1>6, <2>1, MergeHolds
    <3> QED
        BY <1>4, <3>1, <3>2, <3>3 DEF Covers
  <2>2. ASSUME NEW d \in Of(members) PROVE d \in DOIs /\ Covers(Q, d) /\ Holds(Q.carry \cup members, d, seen'[d])
    <3>1. PICK m \in members : m.doi = d
        BY <2>2 DEF Of
    <3> QED
        BY <1>2, <3>1 DEF Found, Holds
  <2>3. ASSUME NEW d \in DOIs, seen'[d] > 0
        PROVE  \/ \E i \in Issn : Holds(unit[i].members, d, seen'[d])
               \/ \E q \in Waiting(stack') : Covers(q, d) /\ Holds(q.carry, d, seen'[d])
    <3>1. CASE d \in Of(members)
        BY <2>1, <2>2, <3>1
    <3>2. CASE d \notin Of(members)
      <4>1. seen'[d] = seen[d] /\ ~Holds(cursor.members, d, seen[d])
          BY <1>3, <2>3, <3>2 DEF Found, Holds, Of
      <4>2. \/ \E i \in Issn : Holds(unit[i].members, d, seen[d])
            \/ \E q \in Waiting(stack) : Covers(q, d) /\ Holds(q.carry, d, seen[d])
          BY <2>3, <4>1 DEF ManifestInv, DeliveredIsHeld
      <4>3. Holds(Q.carry, d, seen[d]) => Holds(Q.carry \cup members, d, seen[d])
          BY HoldsMore
      <4> QED
          BY <1>4, <1>5, <2>1, <4>1, <4>2, <4>3
    <3> QED
        BY <3>1, <3>2
  <2> QED
      BY <1>4, <2>3 DEF DeliveredIsHeld
<1>11. OnlyWhatWasDelivered'
  <2>1. \A d \in DOIs : seen[d] > 0 => seen'[d] > 0
      BY <1>1, <1>2, <1>3
  <2>2. ASSUME NEW d \in DOIs PROVE seen'[d] <= rev[d]
    <3>1. rev[d] \in Nat /\ seen[d] <= rev[d]
        BY DEF ManifestInv, ManifestTypes, OnlyWhatWasDelivered
    <3> QED
        BY <1>3, <3>1
  <2>3. \A q \in Waiting(stack) : \A d \in Of(q.carry) : seen'[d] > 0
      BY <1>5, <2>1 DEF ManifestInv, OnlyWhatWasDelivered, Queries, Observed, Of
  <2>4. \A i \in Issn : \A d \in Of(unit[i].members) : seen'[d] > 0
      BY <2>1 DEF ManifestInv, ManifestTypes, OnlyWhatWasDelivered, Units, Observed, Of
  <2>5. ASSUME NEW q \in parts, NEW d \in Of(q.carry) PROVE seen'[d] > 0
    <3>1. d \in Of(Q.carry \cup members)
        BY <1>4, <1>6, <2>5, MergeFx
    <3>2. d \in Of(Q.carry) \/ d \in Of(members)
        BY <3>1 DEF Of
    <3>3. \A m \in members : seen'[m.doi] > 0
        BY DEF Found
    <3> QED
        BY <1>5, <2>3, <3>2, <3>3 DEF Of
  <2>6. \A q \in Waiting(stack') : \A d \in Of(q.carry) : seen'[d] > 0
      BY <1>4, <1>5, <2>3, <2>5
  <2> QED
      BY <1>4, <2>2, <2>4, <2>6, rev' = rev DEF OnlyWhatWasDelivered
<1> QED
    BY <1>7, <1>8, <1>9, <1>10, <1>11 DEF ManifestInv

-----------------------------------------------------------------------------
(***************************************************************************)
(* The steps                                                               *)
(***************************************************************************)
LEMMA InitManifest == Init => ManifestInv
<1> SUFFICES ASSUME Init PROVE ManifestInv
    OBVIOUS
<1> DEFINE q == [group |-> ISSNs, from |-> 1, to |-> LastDay, carry |-> {}]
<1>1. q \in Queries /\ stack = <<q>>
    BY ManifestAssumption DEF Init, Queries
<1>2. stack \in Seq(Queries) /\ Waiting(stack) = {q}
    BY <1>1 DEF Waiting
<1>3. NoCursor \in Traversals /\ cursor = NoCursor /\ cursor.members = {} /\ ~cursor.active
    BY DEF Init, NoCursor, Traversals
<1>4. /\ rev \in [DOIs -> 0 .. MaxRevision] /\ seen \in [DOIs -> 0 .. MaxRevision]
      /\ \A d \in DOIs : seen[d] = 0 /\ rev[d] >= 0
      /\ start \in SUBSET DOIs /\ \A d \in start : rev[d] > 0
  <2>1. 0 .. 1 \subseteq 0 .. MaxRevision /\ 0 \in 0 .. MaxRevision
      BY ManifestAssumption
  <2> QED
      BY <2>1 DEF Init
<1>5. unit \in Units /\ \A i \in Issn : unit[i].members = {}
    BY DEF Init, Units
<1>6. ManifestTypes
    BY <1>2, <1>3, <1>4, <1>5 DEF ManifestTypes
<1>7. GroupOf(q) = Issn
    BY DEF GroupOf, Issn
<1>8. StartIsCovered
    BY <1>2, <1>4, <1>7 DEF StartIsCovered, InDays
<1>9. DeliveredIsHeld /\ OnlyWhatWasDelivered
    BY <1>2, <1>4, <1>5 DEF DeliveredIsHeld, OnlyWhatWasDelivered, Of
<1> QED
    BY <1>3, <1>6, <1>8, <1>9 DEF ManifestInv, CursorIsOfQuery

LEMMA IndexKeeps == ASSUME ManifestInv, NEW d \in DOIs, Index(d) PROVE ManifestInv'
<1>1. rev' \in [DOIs -> 0 .. MaxRevision] /\ \A x \in DOIs : rev[x] <= rev'[x] /\ rev[x] \in Nat /\ rev'[x] \in Nat
    BY ManifestAssumption DEF Index, ManifestInv, ManifestTypes
<1>2. UNCHANGED <<stack, cursor, unit, start, seen>>
    BY DEF Index
<1>3. ManifestTypes'
    BY <1>1, <1>2 DEF ManifestInv, ManifestTypes
<1>4. CursorIsOfQuery'
    BY <1>2 DEF ManifestInv, CursorIsOfQuery, Done, Q
<1>5. StartIsCovered'
  <2>1. \A x \in start : rev'[x] > 0
      BY <1>1 DEF ManifestInv, ManifestTypes, StartIsCovered
  <2> QED
      BY <1>2, <2>1 DEF ManifestInv, StartIsCovered, Dois
<1>6. DeliveredIsHeld'
    BY <1>2 DEF ManifestInv, DeliveredIsHeld
<1>7. OnlyWhatWasDelivered'
  <2>1. \A x \in DOIs : seen[x] \in Nat /\ seen[x] <= rev[x]
      BY DEF ManifestInv, ManifestTypes, OnlyWhatWasDelivered
  <2> QED
      BY <1>1, <1>2, <2>1 DEF ManifestInv, OnlyWhatWasDelivered
<1> QED
    BY <1>3, <1>4, <1>5, <1>6, <1>7 DEF ManifestInv

LEMMA SameManifest ==
    ASSUME ManifestInv, UNCHANGED <<rev, stack, cursor, unit, start, seen>>
    PROVE  ManifestInv'
BY DEF ManifestInv, ManifestTypes, CursorIsOfQuery, StartIsCovered, DeliveredIsHeld, OnlyWhatWasDelivered, Done, Q,
       Dois

\* A page of a query that found nothing, and the members of one that did.
LEMMA NothingFound ==
    ASSUME ManifestInv, ~Done, seen' = seen
    PROVE  Found(cursor.members, {})
<1>1. Delivered({})
    BY DEF Delivered, ManifestInv, ManifestTypes
<1>2. cursor.members \in SUBSET Observed
    BY DEF ManifestInv, ManifestTypes, Traversals
<1>3. \A m \in cursor.members : m.doi \in DOIs /\ rev[m.doi] > 0
    BY <1>2 DEF ManifestInv, ManifestTypes, CursorIsOfQuery, OnlyWhatWasDelivered, Observed
<1> QED
    BY <1>1, <1>2, <1>3, MatchesFx DEF Found, ManifestInv, CursorIsOfQuery

LEMMA PageFound ==
    ASSUME ManifestInv, ~Done, NEW S \in SUBSET Matches(Q), Delivers(S)
    PROVE  LET ms == cursor.members \cup {Member(d) : d \in S}
           IN  ms \in SUBSET Observed /\ Of(ms) = Of(cursor.members) \cup S /\ Found(Merge(ms), S)
<1> DEFINE page == {Member(d) : d \in S}
           ms == cursor.members \cup page
<1>1. /\ Matches(Q) \in SUBSET DOIs
      /\ \A d \in DOIs : d \in Matches(Q) <=> rev[d] > 0 /\ Covers(Q, d)
    BY MatchesFx DEF ManifestInv
<1>2. /\ page \in SUBSET Observed /\ Of(page) = S /\ \A m \in page : m.rev = rev[m.doi]
    BY <1>1, PageFx DEF ManifestInv
<1>3. Delivered(S)
    BY DEF Delivers, Delivered
<1>4. /\ \A d \in S : seen'[d] = rev[d]
      /\ \A d \in DOIs \ S : seen'[d] = seen[d]
    BY <1>1, <1>3, DeliveredFx DEF ManifestInv
<1>5. cursor.members \in SUBSET Observed
    BY DEF ManifestInv, ManifestTypes, Traversals
<1> HIDE DEF page
<1>6. ms \in SUBSET Observed /\ Of(ms) = Of(cursor.members) \cup S
    BY <1>2, <1>5 DEF Of
<1>7. \A m \in cursor.members : /\ m.doi \in Matches(Q) /\ m.rev \in {0, seen[m.doi]} /\ m.doi \in DOIs
                                /\ seen[m.doi] > 0
    BY <1>1, <1>5 DEF ManifestInv, ManifestTypes, CursorIsOfQuery, OnlyWhatWasDelivered, Observed
<1>8. \A d \in Of(ms) : d \in Matches(Q) /\ d \in DOIs /\ seen'[d] > 0
    BY <1>1, <1>4, <1>6, <1>7 DEF Of
<1> HIDE DEF ms
<1>9. /\ Merge(ms) \in SUBSET Observed /\ Of(Merge(ms)) = Of(ms)
      /\ \A m \in Merge(ms) : m.rev # 0 => \A n \in ms : n.doi = m.doi => n.rev = m.rev
    BY <1>6, MergeFx
<1>10. ASSUME NEW m \in Merge(ms) PROVE m.doi \in Matches(Q) /\ m.rev \in {0, seen'[m.doi]} /\ seen'[m.doi] > 0
  <2>1. m.doi \in Of(ms)
      BY <1>9 DEF Of
  <2>2. PICK n \in ms : n.doi = m.doi
      BY <2>1 DEF Of
  <2>3. CASE m.doi \in S
    <3>1. PICK p \in page : p.doi = m.doi
        BY <1>2, <2>3 DEF Of
    <3>2. p \in ms /\ p.rev = seen'[m.doi]
        BY <1>2, <1>4, <2>3, <3>1 DEF ms
    <3> QED
        BY <1>8, <1>9, <2>1, <3>1, <3>2
  <2>4. CASE m.doi \notin S
    <3>1. n \in cursor.members
        BY <1>2, <2>2, <2>4 DEF ms, Of
    <3> QED
        BY <1>4, <1>7, <1>8, <1>9, <2>1, <2>2, <2>4, <3>1
  <2> QED
      BY <2>3, <2>4
<1>11. Found(Merge(ms), S)
    BY <1>3, <1>6, <1>9, <1>10 DEF Found
<1> QED
    BY <1>6, <1>11 DEF ms, page

\* The members of a first page are of one observation each.
LEMMA FirstPage ==
    ASSUME ManifestInv, ~Done, ~cursor.active, NEW S \in SUBSET Matches(Q), Delivers(S)
    PROVE  LET ms == {Member(d) : d \in S}
           IN  Found(ms, S) /\ Of(ms) = S /\ Single(ms)
<1> DEFINE ms == {Member(d) : d \in S}
<1>1. /\ Matches(Q) \in SUBSET DOIs
      /\ \A d \in DOIs : d \in Matches(Q) <=> rev[d] > 0 /\ Covers(Q, d)
    BY MatchesFx DEF ManifestInv
<1>2. /\ ms \in SUBSET Observed /\ Of(ms) = S /\ Single(ms) /\ \A m \in ms : m.rev = rev[m.doi]
    BY <1>1, PageFx DEF ManifestInv
<1>3. Delivered(S)
    BY DEF Delivers, Delivered
<1>4. \A d \in S : seen'[d] = rev[d] /\ rev[d] > 0
    BY <1>1, <1>3, DeliveredFx DEF ManifestInv
<1>5. cursor.members = {}
    BY DEF ManifestInv, CursorIsOfQuery
<1> HIDE DEF ms
<1>6. \A m \in ms : m.doi \in S
    BY <1>2 DEF Of
<1>7. Found(ms, S)
    BY <1>2, <1>3, <1>4, <1>5, <1>6 DEF Found, Of
<1> QED
    BY <1>2, <1>7 DEF ms

LEMMA PlanPageKeeps == ASSUME ManifestInv, PlanPage PROVE ManifestInv'
<1>1. ~Done /\ ~cursor.active /\ rev' = rev /\ start' = start
    BY DEF PlanPage
<1>2. PICK items \in Pages(Matches(Q)) : \E unusable \in SUBSET items, known \in BOOLEAN :
          LET members == {Member(d) : d \in items \ unusable}
              total == Cardinality(Matches(Q))
              valid == known /\ unusable = {}
          IN  /\ Delivers(items \ unusable)
              /\ IF known /\ Complete(members, total, valid) THEN Finish(members, TRUE) ELSE Split(members)
    BY DEF PlanPage
<1>3. PICK unusable \in SUBSET items, known \in BOOLEAN :
          LET members == {Member(d) : d \in items \ unusable}
              total == Cardinality(Matches(Q))
              valid == known /\ unusable = {}
          IN  /\ Delivers(items \ unusable)
              /\ IF known /\ Complete(members, total, valid) THEN Finish(members, TRUE) ELSE Split(members)
    BY <1>2
<1> DEFINE S == items \ unusable
           members == {Member(d) : d \in S}
           total == Cardinality(Matches(Q))
<1>4. S \in SUBSET Matches(Q) /\ Delivers(S)
    BY <1>3 DEF Pages
<1>5. \/ Cardinality(members) = total /\ Finish(members, TRUE)
      \/ Split(members)
    BY <1>3 DEF Complete
<1>6. Found(members, S) /\ Of(members) = S /\ Single(members) /\ members \in SUBSET Observed
    BY <1>1, <1>4, FirstPage DEF Found
<1>7. Matches(Q) \in SUBSET DOIs
    BY <1>1, MatchesFx DEF ManifestInv
<1> HIDE DEF S, members
<1>8. CASE Cardinality(members) = total /\ Finish(members, TRUE)
  <2>1. Of(members) = Matches(Q)
      BY <1>4, <1>6, <1>7, <1>8, CountFx
  <2> QED
      BY <1>1, <1>6, <1>8, <2>1, FinishKeeps
<1>9. CASE Split(members)
    BY <1>1, <1>6, <1>9, SplitKeeps
<1> QED
    BY <1>5, <1>8, <1>9

LEMMA QuietKeeps ==
    ASSUME ManifestInv, PlanDenied \/ PlanFails \/ CursorFails \/ CursorRepeats
    PROVE  ManifestInv'
<1>1. ~Done /\ rev' = rev /\ start' = start /\ seen' = seen
    BY DEF PlanDenied, PlanFails, CursorFails, CursorRepeats, Fails, ManifestInv, CursorIsOfQuery
<1>2. Found(cursor.members, {})
    BY <1>1, NothingFound
<1>3. CASE PlanFails
    BY <1>1, <1>2, <1>3, SplitKeeps DEF PlanFails, ManifestInv, CursorIsOfQuery
<1>4. CASE Finish(cursor.members, FALSE)
    BY <1>1, <1>2, <1>4, FinishKeeps
<1>5. PlanDenied => cursor.members = {}
    BY DEF PlanDenied, ManifestInv, CursorIsOfQuery
<1> QED
    BY <1>3, <1>4, <1>5 DEF PlanDenied, CursorFails, CursorRepeats, CursorEnds

LEMMA CursorPageKeeps == ASSUME ManifestInv, CursorPage PROVE ManifestInv'
<1>1. ~Done /\ rev' = rev /\ start' = start /\ cursor.active
    BY DEF CursorPage, ManifestInv, CursorIsOfQuery
<1> DEFINE served == {m.doi : m \in cursor.members}
           total == Cardinality(Matches(Q))
           ms(S) == cursor.members \cup {Member(d) : d \in S}
<1>2. PICK items \in Pages(Matches(Q) \ served) \cup {served} : \E unusable \in SUBSET items :
          \E valid, repeats \in BOOLEAN :
             LET members == Merge(ms(items \ unusable))
             IN  /\ Delivers(items \ unusable)
                 /\ \/ Cardinality(members) = total /\ Finish(members, valid)
                    \/ /\ cursor' = [active |-> TRUE, members |-> members, expected |-> total, valid |-> valid,
                                     first |-> FALSE, repeats |-> repeats, parity |-> 1 - cursor.parity]
                       /\ UNCHANGED <<stack, unit>>
                    \/ Finish(members, FALSE)
  <2>1. cursor.valid \in BOOLEAN
      BY DEF ManifestInv, ManifestTypes, Traversals
  <2> QED
      BY <2>1, ZenonT(60) DEF CursorPage, CursorEnds
<1>3. PICK unusable \in SUBSET items, valid \in BOOLEAN, repeats \in BOOLEAN :
             LET members == Merge(ms(items \ unusable))
             IN  /\ Delivers(items \ unusable)
                 /\ \/ Cardinality(members) = total /\ Finish(members, valid)
                    \/ /\ cursor' = [active |-> TRUE, members |-> members, expected |-> total, valid |-> valid,
                                     first |-> FALSE, repeats |-> repeats, parity |-> 1 - cursor.parity]
                       /\ UNCHANGED <<stack, unit>>
                    \/ Finish(members, FALSE)
    BY <1>2
<1> DEFINE S == items \ unusable
           members == Merge(ms(S))
<1>4. /\ Matches(Q) \in SUBSET DOIs
      /\ \A d \in DOIs : d \in Matches(Q) <=> rev[d] > 0 /\ Covers(Q, d)
    BY <1>1, MatchesFx DEF ManifestInv
<1>5. served \subseteq Matches(Q)
    BY <1>1, NothingFound, <1>4 DEF ManifestInv, ManifestTypes, CursorIsOfQuery, OnlyWhatWasDelivered, Traversals, Observed
<1>6. S \in SUBSET Matches(Q)
    BY <1>5 DEF Pages
<1>7. ms(S) \in SUBSET Observed /\ Found(members, S)
    BY <1>1, <1>3, <1>6, PageFound
<1> HIDE DEF S, ms
<1>8. Single(members) /\ members \in SUBSET Observed
    BY <1>7, MergeFx
<1>9. \/ Cardinality(members) = total /\ Finish(members, valid)
      \/ /\ cursor' = [active |-> TRUE, members |-> members, expected |-> total, valid |-> valid,
                       first |-> FALSE, repeats |-> repeats, parity |-> 1 - cursor.parity]
         /\ UNCHANGED <<stack, unit>>
      \/ Finish(members, FALSE)
    BY <1>3 DEF S
<1> HIDE DEF members
<1>10. CASE Cardinality(members) = total /\ Finish(members, valid)
  <2>1. Of(members) \subseteq Matches(Q)
      BY <1>7 DEF Found, Of
  <2>2. Of(members) = Matches(Q)
      BY <1>4, <1>8, <1>10, <2>1, CountFx
  <2> QED
      BY <1>1, <1>7, <1>10, <2>2, FinishKeeps
<1>11. CASE Finish(members, FALSE)
    BY <1>1, <1>7, <1>11, FinishKeeps
<1>12. CASE /\ cursor' = [active |-> TRUE, members |-> members, expected |-> total, valid |-> valid,
                          first |-> FALSE, repeats |-> repeats, parity |-> 1 - cursor.parity]
            /\ UNCHANGED <<stack, unit>>
  <2>1. Delivered(S) /\ S \in SUBSET DOIs
      BY <1>4, <1>6, <1>7 DEF Found
  <2>2. /\ seen' \in [DOIs -> 0 .. MaxRevision]
        /\ \A d \in S : seen'[d] = rev[d]
        /\ \A d \in DOIs \ S : seen'[d] = seen[d]
      BY <2>1, DeliveredFx DEF ManifestInv
  <2>3. cursor' \in Traversals /\ cursor'.members = members /\ cursor'.active
    <3>1. total \in Nat
      <4>1. IsFiniteSet(Matches(Q))
          BY <1>4, ManifestAssumption, FS_Subset
      <4> QED
          BY <4>1, FS_CardinalityType
    <3>2. 1 - cursor.parity \in Int
        BY DEF ManifestInv, ManifestTypes, Traversals
    <3> HIDE DEF total
    <3> QED
        BY <1>8, <1>12, <3>1, <3>2 DEF Traversals
  <2>4. \A d \in DOIs : /\ seen[d] > 0 => seen'[d] > 0
                        /\ seen'[d] <= rev[d]
    <3> SUFFICES ASSUME NEW d \in DOIs PROVE (seen[d] > 0 => seen'[d] > 0) /\ seen'[d] <= rev[d]
        OBVIOUS
    <3>1. rev[d] \in Nat /\ seen[d] <= rev[d] /\ (d \in S => rev[d] > 0)
        BY <1>4, <1>6 DEF ManifestInv, ManifestTypes, OnlyWhatWasDelivered
    <3> QED
        BY <2>2, <3>1
  <2>5. ManifestTypes'
      BY <1>1, <1>12, <2>2, <2>3 DEF ManifestInv, ManifestTypes
  <2>6. CursorIsOfQuery'
    <3>1. \A m \in members : m.doi \in DOIs /\ Covers(Q, m.doi) /\ m.rev \in {0, seen'[m.doi]} /\ seen'[m.doi] > 0
        BY <1>4, <1>7 DEF Found
    <3>2. Q' = Q /\ ~Done'
        BY <1>1, <1>12 DEF Q, Done
    <3> QED
        BY <2>3, <3>1, <3>2 DEF CursorIsOfQuery
  <2>7. StartIsCovered'
      BY <1>1, <1>12 DEF ManifestInv, StartIsCovered, Dois
  <2>8. DeliveredIsHeld'
    <3>1. ASSUME NEW d \in Of(members) PROVE Holds(members, d, seen'[d])
      <4>1. PICK m \in members : m.doi = d
          BY <3>1 DEF Of
      <4> QED
          BY <1>7, <4>1 DEF Found, Holds
    <3>2. ASSUME NEW d \in DOIs, d \notin Of(members) PROVE seen'[d] = seen[d] /\ ~Holds(cursor.members, d, seen[d])
        BY <1>7, <2>2, <3>2 DEF Found, Holds, Of
    <3> QED
        BY <1>12, <2>3, <3>1, <3>2 DEF ManifestInv, DeliveredIsHeld
  <2>9. OnlyWhatWasDelivered'
    <3>1. Waiting(stack) \subseteq Queries
        BY <1>1, StackFx DEF ManifestInv, ManifestTypes, Done
    <3>2. \A q \in Waiting(stack) : \A d \in Of(q.carry) : seen'[d] > 0
        BY <2>4, <3>1 DEF ManifestInv, OnlyWhatWasDelivered, Queries, Observed, Of
    <3>3. \A i \in Issn : \A d \in Of(unit[i].members) : seen'[d] > 0
        BY <2>4 DEF ManifestInv, ManifestTypes, OnlyWhatWasDelivered, Units, Observed, Of
    <3> QED
        BY <1>1, <1>12, <2>4, <3>2, <3>3 DEF OnlyWhatWasDelivered
  <2> QED
      BY <2>5, <2>6, <2>7, <2>8, <2>9 DEF ManifestInv
<1> QED
    BY <1>9, <1>10, <1>11, <1>12

LEMMA ManifestStep == ASSUME ManifestInv, [Next]_vars PROVE ManifestInv'
<1>1. CASE Retry \/ UNCHANGED vars
    BY <1>1, SameManifest DEF Retry, vars
<1> QED
    BY <1>1, IndexKeeps, PlanPageKeeps, QuietKeeps, CursorPageKeeps DEF Next, Retrieve

LEMMA ManifestEnd == ManifestInv => ManifestIsTrue
<1> SUFFICES ASSUME ManifestInv, Done PROVE ManifestIsTrue
    BY DEF ManifestIsTrue, CompleteMissesNothing, DeliveredIsKept
<1>1. Waiting(stack) = {} /\ cursor.members = {}
    BY DEF Done, Waiting, ManifestInv, CursorIsOfQuery
<1>2. CompleteMissesNothing
    BY <1>1 DEF CompleteMissesNothing, ManifestInv, ManifestTypes, Units, StartIsCovered
<1> DEFINE every == UNION {unit[i].members : i \in DOMAIN unit}
<1>3. DOMAIN unit = Issn /\ every \in SUBSET Observed
    BY DEF ManifestInv, ManifestTypes, Units
<1>4. \A i \in Issn : unit[i].members \subseteq every
    BY <1>3
<1>5. \A m \in every : m.doi \in DOIs /\ seen[m.doi] > 0
    BY <1>3 DEF ManifestInv, OnlyWhatWasDelivered, Of, Observed
<1> HIDE DEF every
<1>6. \A d \in DOIs : seen[d] > 0 => Holds(every, d, seen[d])
    BY <1>1, <1>4 DEF ManifestInv, DeliveredIsHeld, Holds
<1>7. \A d \in DOIs : seen[d] > 0 => d \in Of(Merge(every))
    BY <1>3, <1>6, MergeFx DEF Holds, Of
<1>8. ASSUME NEW m \in Merge(every) PROVE m.rev \in {0, seen[m.doi]}
  <2>1. m.doi \in Of(every)
      BY <1>3, MergeFx DEF Of
  <2>2. PICK n \in every : n.doi = m.doi /\ n.rev \in {0, seen[m.doi]}
      BY <1>5, <1>6, <2>1 DEF Holds, Of
  <2> QED
      BY <1>3, <2>2, MergeFx
<1>9. DeliveredIsKept
    BY <1>7, <1>8 DEF DeliveredIsKept, Of, every
<1> QED
    BY <1>2, <1>9 DEF ManifestIsTrue

\* Whatever is cut, indexed meanwhile or fails: a unit that is reported complete misses nothing, and
\* what a page delivered stays, with the revision it was delivered with last or with none
\* (retrieve_crossref_manifests).
THEOREM ManifestMissesNothing == Spec => []ManifestIsTrue
<1> QED
    BY InitManifest, ManifestStep, ManifestEnd, PTL DEF Spec
=============================================================================
