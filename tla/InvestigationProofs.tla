------------------------ MODULE InvestigationProofs ------------------------
(***************************************************************************)
(* Proofs about Investigation, for any sessions, limits and windows of     *)
(* time and any order of arrival: the learned behavior, the pairing of     *)
(* replies, the failures behind a fallback, and the volume and the encoded *)
(* messages a finding counts, and the grade of a score.  What folds over   *)
(* finite sets come to is proved by induction on their size.               *)
(***************************************************************************)
EXTENDS Investigation, FiniteSetTheorems, SequenceTheorems, TLAPS

----------------------------------------------------------------------------
(* Sessions. *)

IsSession(r) == DOMAIN r = Fields /\ r.time \in Nat /\ Template(r) \in Traffic

\* The parts the proofs speak of are there.
LEMMA HasFields ==
    {"kind", "host", "path", "method", "size", "type", "process", "executable", "pid", "client",
     "id", "failed", "rawIp", "random", "encoded"} \subseteq Fields \ {"time", "number"}
  BY DEF Fields

\* Time and number are parts too.
LEMMA HasTime == {"time", "number"} \subseteq Fields
  BY DEF Fields

\* A session that is given a time and a number stays the one it was.
LEMMA Stamped ==
  ASSUME NEW t \in Traffic, NEW u \in Nat, NEW n
  PROVE  LET r == [t EXCEPT !.time = u, !.number = n] IN IsSession(r) /\ r.number = n /\ r.time = u
  <1> DEFINE r == [t EXCEPT !.time = u, !.number = n]
  <1>1. t = [f \in Fields |-> t[f]] /\ t.time = 0 /\ t.number = 0
    BY InvestigationAssumption
  <1>2. DOMAIN t = Fields
    BY <1>1
  <1>3. /\ DOMAIN r = Fields /\ r["time"] = u /\ r["number"] = n
        /\ \A f \in Fields \ {"time", "number"} : r[f] = t[f]
    BY <1>2, HasTime
  <1>4. Template(r) = [f \in Fields |-> t[f]]
    <2> HIDE DEF r
    <2>1. Template(r) = [f \in Fields |-> IF f = "number" THEN 0 ELSE IF f = "time" THEN 0 ELSE r[f]]
      BY <1>3, HasTime DEF Template
    <2> QED  BY <2>1, <1>1, <1>3
  <1>5. Template(r) \in Traffic
    BY <1>1, <1>4
  <1> HIDE DEF r
  <1>6. IsSession(r) /\ r.number = n /\ r.time = u
    BY <1>3, <1>5 DEF IsSession
  <1> QED  BY <1>6 DEF r

\* What a session is, but for time and number, is what its template is.
LEMMA TemplateParts ==
  ASSUME NEW r, IsSession(r), NEW f \in Fields \ {"time", "number"}
  PROVE  Template(r)[f] = r[f]
  BY HasTime DEF IsSession, Template

\* The kinds and sizes of sessions.
LEMMA SessionFacts ==
  ASSUME NEW r, IsSession(r)
  PROVE  r.size \in Nat /\ r.kind \in {"http", "ws"}
  <1>1. Template(r).size \in Nat /\ Template(r).kind \in {"http", "ws"}
    BY InvestigationAssumption DEF IsSession
  <1>2. Template(r)["size"] = r["size"] /\ Template(r)["kind"] = r["kind"]
    BY TemplateParts, HasFields
  <1> QED  BY <1>1, <1>2

----------------------------------------------------------------------------
(* Learned behavior. *)

Sets == {"methods", "paths", "types", "socketPaths", "socketTypes"}

\* Whether a profile holds a session, or has no room for what it lacks.
Fits(p, t) ==
    IF t.kind = "http"
    THEN /\ t.method \in p.methods /\ t.size <= p.largest
         /\ t.path \in p.paths \/ Cardinality(p.paths) >= MaxPaths
         /\ t.type = None \/ t.type \in p.types \/ Cardinality(p.types) >= MaxTypes
    ELSE /\ t.path \in p.socketPaths \/ Cardinality(p.socketPaths) >= MaxPaths
         /\ t.type = None \/ t.type \in p.socketTypes \/ Cardinality(p.socketTypes) >= MaxSocketTypes

Grows(p, q) == p.largest <= q.largest /\ \A set \in Sets : p[set] \subseteq q[set]
With(p, r) == IF r.kind = "http" THEN WithHttp(p, r) ELSE WithWebSocket(p, r)

\* A profile is its five sets and the largest size.
LEMMA ProfileParts ==
  ASSUME NEW p
  PROVE  IsProfile(p) <=> /\ DOMAIN p = Sets \cup {"largest"} /\ p.largest \in Nat
                          /\ \A set \in Sets : IsFiniteSet(p[set])
  <1>1. DOMAIN Unknown = Sets \cup {"largest"} /\ DOMAIN Unknown \ {"largest"} = Sets
    BY DEF Unknown, Sets
  <1> QED  BY <1>1 DEF IsProfile

\* A set at its cap stays, and one below takes the value.
LEMMA CappedGrows ==
  ASSUME NEW set, IsFiniteSet(set), NEW value, NEW cap \in Nat
  PROVE  LET after == Capped(set, value, cap)
         IN /\ IsFiniteSet(after) /\ set \subseteq after
            /\ value \in after \/ Cardinality(after) >= cap
  <1>1. IsFiniteSet(set \cup {value}) /\ Cardinality(set) \in Nat
    BY FS_AddElement, FS_CardinalityType
  <1> QED  BY <1>1 DEF Capped

\* The profile of nothing.
LEMMA UnknownIsProfile == IsProfile(Unknown)
  <1>1. /\ DOMAIN Unknown = Sets \cup {"largest"} /\ Unknown.largest \in Nat
        /\ \A set \in Sets : Unknown[set] = {}
    BY DEF Unknown, Sets
  <1> QED  BY <1>1, FS_EmptySet, ProfileParts

\* A session makes a profile grow until it fits.
LEMMA WithGrows ==
  ASSUME NEW p, IsProfile(p), NEW r, r.size \in Nat
  PROVE  IsProfile(With(p, r)) /\ Grows(p, With(p, r)) /\ Fits(With(p, r), r)
  <1>1. /\ DOMAIN p = Sets \cup {"largest"} /\ p.largest \in Nat
        /\ \A set \in Sets : IsFiniteSet(p[set])
    BY ProfileParts
  <1>2. MaxPaths \in Nat /\ MaxTypes \in Nat /\ MaxSocketTypes \in Nat
    BY CapsAssumption
  <1>3. /\ Largest(p, r) \in Nat /\ p.largest <= Largest(p, r) /\ r.size <= Largest(p, r)
    BY <1>1 DEF Largest
  <1>4. CASE r.kind = "http"
    <2> DEFINE paths == Capped(p.paths, r.path, MaxPaths)
               types == IF r.type = None THEN p.types ELSE Capped(p.types, r.type, MaxTypes)
               q == With(p, r)
    <2>1. /\ IsFiniteSet(paths) /\ p.paths \subseteq paths
          /\ r.path \in paths \/ Cardinality(paths) >= MaxPaths
      BY <1>1, <1>2, CappedGrows DEF Sets
    <2>2. /\ IsFiniteSet(types) /\ p.types \subseteq types
          /\ r.type = None \/ r.type \in types \/ Cardinality(types) >= MaxTypes
      BY <1>1, <1>2, CappedGrows DEF Sets
    <2>3. IsFiniteSet(p.methods \cup {r.method})
      BY <1>1, FS_AddElement DEF Sets
    <2> HIDE DEF paths, types
    <2>4. q = [p EXCEPT !.methods = @ \cup {r.method}, !.paths = paths, !.types = types,
                        !.largest = Largest(p, r)]
      BY <1>4 DEF With, WithHttp, paths, types
    <2> HIDE DEF q
    <2>5. /\ DOMAIN q = DOMAIN p /\ q.largest = Largest(p, r)
          /\ q.methods = p.methods \cup {r.method} /\ q.paths = paths /\ q.types = types
          /\ q.socketPaths = p.socketPaths /\ q.socketTypes = p.socketTypes
      BY <2>4, <1>1 DEF Sets
    <2>6. \A set \in Sets : IsFiniteSet(q[set]) /\ p[set] \subseteq q[set]
      BY <2>1, <2>2, <2>3, <2>5, <1>1 DEF Sets
    <2>7. IsProfile(q) /\ Grows(p, q)
      BY <2>5, <2>6, <1>1, <1>3, ProfileParts DEF Grows
    <2>8. Fits(q, r)
      BY <2>5, <2>1, <2>2, <1>3, <1>4 DEF Fits
    <2> QED  BY <2>7, <2>8 DEF q
  <1>5. CASE r.kind # "http"
    <2> DEFINE paths == Capped(p.socketPaths, r.path, MaxPaths)
               types == IF r.type = None THEN p.socketTypes
                        ELSE Capped(p.socketTypes, r.type, MaxSocketTypes)
               q == With(p, r)
    <2>1. /\ IsFiniteSet(paths) /\ p.socketPaths \subseteq paths
          /\ r.path \in paths \/ Cardinality(paths) >= MaxPaths
      BY <1>1, <1>2, CappedGrows DEF Sets
    <2>2. /\ IsFiniteSet(types) /\ p.socketTypes \subseteq types
          /\ r.type = None \/ r.type \in types \/ Cardinality(types) >= MaxSocketTypes
      BY <1>1, <1>2, CappedGrows DEF Sets
    <2> HIDE DEF paths, types
    <2>4. q = [p EXCEPT !.socketPaths = paths, !.socketTypes = types, !.largest = Largest(p, r)]
      BY <1>5 DEF With, WithWebSocket, paths, types
    <2> HIDE DEF q
    <2>5. /\ DOMAIN q = DOMAIN p /\ q.largest = Largest(p, r)
          /\ q.methods = p.methods /\ q.paths = p.paths /\ q.types = p.types
          /\ q.socketPaths = paths /\ q.socketTypes = types
      BY <2>4, <1>1 DEF Sets
    <2>6. \A set \in Sets : IsFiniteSet(q[set]) /\ p[set] \subseteq q[set]
      BY <2>1, <2>2, <2>5, <1>1 DEF Sets
    <2>7. IsProfile(q) /\ Grows(p, q)
      BY <2>5, <2>6, <1>1, <1>3, ProfileParts DEF Grows
    <2>8. Fits(q, r)
      BY <2>5, <2>1, <2>2, <1>5 DEF Fits
    <2> QED  BY <2>7, <2>8 DEF q
  <1> QED  BY <1>4, <1>5

\* What fits a profile fits it when it has grown.
LEMMA FitsStays ==
  ASSUME NEW p, NEW q, IsProfile(p), IsProfile(q), Grows(p, q), NEW t, t.size \in Nat, Fits(p, t)
  PROVE  Fits(q, t)
  <1>1. /\ p.largest \in Nat /\ q.largest \in Nat /\ p.largest <= q.largest
        /\ \A set \in Sets : /\ p[set] \subseteq q[set]
                             /\ IsFiniteSet(p[set]) /\ IsFiniteSet(q[set])
    BY ProfileParts DEF Grows
  <1>2. \A set \in Sets : /\ Cardinality(p[set]) <= Cardinality(q[set])
                          /\ Cardinality(p[set]) \in Nat /\ Cardinality(q[set]) \in Nat
    BY <1>1, FS_Subset, FS_CardinalityType
  <1>3. MaxPaths \in Nat /\ MaxTypes \in Nat /\ MaxSocketTypes \in Nat
    BY CapsAssumption
  <1>4. {"methods", "paths", "types", "socketPaths", "socketTypes"} \subseteq Sets
    BY DEF Sets
  <1>5. CASE t.kind = "http"
    BY <1>1, <1>2, <1>3, <1>4, <1>5 DEF Fits
  <1>6. CASE t.kind # "http"
    BY <1>1, <1>2, <1>3, <1>4, <1>6 DEF Fits
  <1> QED  BY <1>5, <1>6

\* What fits is not reported, but for what the profile has no room for.
LEMMA FitIsNormal ==
  ASSUME NEW b, NEW t, t.size \in Nat, IsProfile(ProfileOf(b, t)), Knows(b, t),
         Fits(ProfileOf(b, t), t)
  PROVE  Assess(b, t, FALSE) \subseteq Full(ProfileOf(b, t), t)
  <1> DEFINE p == ProfileOf(b, t)
  <1>1. p.largest \in Nat /\ BigBody \in Nat
    BY ProfileParts, CapsAssumption
  <1>2. /\ ProcessKey(t) \in DOMAIN b
        /\ Assess(b, t, FALSE) = IF t.kind = "http" THEN NewInHttp(p, t) ELSE NewInWebSocket(p, t)
    BY Zenon DEF Assess, Knows
  <1> HIDE DEF p
  <1>3. CASE t.kind = "http"
    <2>1. Fits(p, t)
      BY DEF p
    <2>2. NewInHttp(p, t) \subseteq Full(p, t)
      BY <1>1, <2>1, <1>3 DEF Fits, NewInHttp, Full, If
    <2> QED  BY <1>2, <1>3, <2>2 DEF p
  <1>4. CASE t.kind # "http"
    <2>1. Fits(p, t)
      BY DEF p
    <2>2. NewInWebSocket(p, t) \subseteq Full(p, t)
      BY <2>1, <1>4 DEF Fits, NewInWebSocket, Full, If
    <2> QED  BY <1>2, <1>4, <2>2 DEF p
  <1> QED  BY <1>3, <1>4

Holds(b, t) == Knows(b, t) /\ Fits(ProfileOf(b, t), t)

\* The profile of a session in a baseline is one.
LEMMA ProfileIsProfile ==
  ASSUME NEW b, IsBaseline(b), NEW t
  PROVE  IsProfile(ProfileOf(b, t))
  BY UnknownIsProfile DEF ProfileOf, Knows, IsBaseline

\* A baseline that observes a session holds it, and all it held before.
LEMMA Observed ==
  ASSUME NEW b, IsBaseline(b), NEW r, r.size \in Nat
  PROVE  /\ IsBaseline(Observe(b, r)) /\ Holds(Observe(b, r), r)
         /\ \A t : t.size \in Nat /\ Holds(b, t) => Holds(Observe(b, r), t)
  <1> DEFINE old == ProfileOf(b, r)
             key == ProcessKey(r)
             hosts == IF key \in DOMAIN b THEN b[key] ELSE NoFunction
             profile == With(old, r)
             after == Observe(b, r)
  <1>1. IsProfile(profile) /\ Grows(old, profile) /\ Fits(profile, r) /\ IsProfile(old)
    BY ProfileIsProfile, WithGrows
  <1>2. after = Put(b, key, Put(hosts, r.host, profile))
    BY DEF Observe, With
  <1>3. old = IF key \in DOMAIN b /\ r.host \in DOMAIN b[key] THEN b[key][r.host] ELSE Unknown
    BY DEF ProfileOf, Knows
  <1> HIDE DEF old, profile, after
  <1>4. /\ DOMAIN after = DOMAIN b \cup {key} /\ after[key] = Put(hosts, r.host, profile)
        /\ \A k \in DOMAIN b : k # key => after[k] = b[k]
    BY <1>2 DEF Put
  <1>5. /\ DOMAIN after[key] = DOMAIN hosts \cup {r.host} /\ after[key][r.host] = profile
        /\ \A h \in DOMAIN hosts : h # r.host => after[key][h] = hosts[h]
    BY <1>4 DEF Put
  <1>6. IsBaseline(after)
    <2> SUFFICES ASSUME NEW k \in DOMAIN after, NEW h \in DOMAIN after[k]
                 PROVE  IsProfile(after[k][h])
      BY DEF IsBaseline
    <2>1. CASE k # key
      BY <2>1, <1>4 DEF IsBaseline
    <2>2. CASE k = key /\ h = r.host
      BY <2>2, <1>5, <1>1
    <2>3. CASE k = key /\ h # r.host
      <3>1. h \in DOMAIN hosts /\ after[k][h] = hosts[h]
        BY <2>3, <1>5
      <3>2. key \in DOMAIN b
        BY <3>1 DEF NoFunction
      <3> QED  BY <3>1, <3>2 DEF IsBaseline
    <2> QED  BY <2>1, <2>2, <2>3
  <1>7. Holds(after, r)
    <2>1. Knows(after, r) /\ ProfileOf(after, r) = profile
      BY <1>4, <1>5 DEF Knows, ProfileOf
    <2> QED  BY <2>1, <1>1 DEF Holds
  <1>8. ASSUME NEW t, t.size \in Nat, Holds(b, t)
        PROVE  Holds(after, t)
    <2>1. /\ ProcessKey(t) \in DOMAIN b /\ t.host \in DOMAIN b[ProcessKey(t)]
          /\ Fits(b[ProcessKey(t)][t.host], t)
      BY <1>8, Zenon DEF Holds, Knows, ProfileOf
    <2>2. CASE ProcessKey(t) = key /\ t.host = r.host
      <3>1. Fits(old, t)
        BY <2>1, <2>2, <1>3
      <3>2. Fits(profile, t)
        BY <3>1, <1>8, <1>1, FitsStays
      <3>3. Knows(after, t) /\ ProfileOf(after, t) = profile
        BY <2>1, <2>2, <1>4, <1>5 DEF Knows, ProfileOf
      <3> QED  BY <3>2, <3>3 DEF Holds
    <2>3. CASE ~(ProcessKey(t) = key /\ t.host = r.host)
      <3>1. /\ ProcessKey(t) \in DOMAIN after /\ t.host \in DOMAIN after[ProcessKey(t)]
            /\ after[ProcessKey(t)][t.host] = b[ProcessKey(t)][t.host]
        BY <2>1, <2>3, <1>4, <1>5
      <3>2. Knows(after, t) /\ ProfileOf(after, t) = b[ProcessKey(t)][t.host]
        BY <3>1 DEF Knows, ProfileOf
      <3> QED  BY <3>2, <2>1 DEF Holds
    <2> QED  BY <2>2, <2>3
  <1> QED  BY <1>6, <1>7, <1>8 DEF after

\* A baseline does not look at time and number.
LEMMA TemplateHolds ==
  ASSUME NEW b, NEW r, IsSession(r), Holds(b, r)
  PROVE  Holds(b, Template(r))
  <1> DEFINE t == Template(r)
  <1>1. \A f \in {"kind", "host", "path", "method", "size", "type", "process", "executable", "pid"} :
            t[f] = r[f]
    BY TemplateParts, HasFields
  <1> HIDE DEF t
  <1>2. /\ t.kind = r.kind /\ t.host = r.host /\ t.path = r.path /\ t.method = r.method
        /\ t.size = r.size /\ t.type = r.type /\ t.process = r.process
        /\ t.executable = r.executable /\ t.pid = r.pid
    BY <1>1
  <1>3. ProcessKey(t) = ProcessKey(r)
    BY <1>2 DEF ProcessKey
  <1>4. Knows(b, t) /\ ProfileOf(b, t) = ProfileOf(b, r)
    BY <1>2, <1>3 DEF Knows, ProfileOf, Holds
  <1>5. Fits(ProfileOf(b, r), r)
    BY DEF Holds
  <1>6. Fits(ProfileOf(b, r), t)
    BY <1>5, <1>2 DEF Fits
  <1> QED  BY <1>4, <1>6 DEF Holds, t

----------------------------------------------------------------------------
(* Histories. *)

Times == [time : Nat]
Hosts == {t.host : t \in Traffic}
Visits == [time : Nat, host : Hosts]

\* A set of natural numbers that is not empty has a least.
LEMMA MinOf ==
  ASSUME NEW S \in SUBSET Nat, S # {}
  PROVE  Min(S) \in S /\ \A x \in S : Min(S) <= x
  <1>1. PICK m \in S : \A y \in S : ~(<<y, m>> \in OpToRel(<, Nat))
    BY WFMin, NatLessThanWellFounded
  <1>2. \A y \in S : ~(y < m)
    BY <1>1 DEF OpToRel
  <1>3. \A y \in S : m <= y
    BY <1>2
  <1> QED  BY <1>3 DEF Min

\* Pruning takes entries away and adds none.
LEMMA PrunedHistory ==
  ASSUME NEW S, NEW past \in Seq(S), NEW now, NEW window
  PROVE  Pruned(past, now, window) \in Seq(S) /\ Len(Pruned(past, now, window)) <= Len(past)
  <1> DEFINE recent == {i \in DOMAIN past : now - past[i].time <= window}
  <1>1. DOMAIN past = 1..Len(past) /\ Len(past) \in Nat
    BY LenProperties
  <1>2. CASE recent = {}
    <2>1. Pruned(past, now, window) = <<>>
      BY <1>2 DEF Pruned
    <2> QED  BY <2>1, <1>1, EmptySeq
  <1>3. CASE recent # {}
    <2>1. recent \in SUBSET Nat
      BY <1>1
    <2>2. Min(recent) \in 1..Len(past)
      BY <1>1, <1>3, <2>1, MinOf
    <2>3. Pruned(past, now, window) = SubSeq(past, Min(recent), Len(past))
      BY <1>3 DEF Pruned
    <2> HIDE DEF recent
    <2>4. /\ SubSeq(past, Min(recent), Len(past)) \in Seq(S)
          /\ Len(SubSeq(past, Min(recent), Len(past))) <= Len(past)
      BY <2>2, <1>1, SubSeqProperties
    <2> QED  BY <2>3, <2>4
  <1> QED  BY <1>2, <1>3

\* The last few entries.
LEMMA LastEntries ==
  ASSUME NEW S, NEW past \in Seq(S), Len(past) > 0, NEW n \in Nat, n > 0
  PROVE  LastOf(past, n) \in Seq(S) /\ Len(LastOf(past, n)) \in 1..n
  <1>1. Len(past) \in Nat
    BY LenProperties
  <1>2. CASE Len(past) <= n
    BY <1>1, <1>2 DEF LastOf
  <1>3. CASE Len(past) > n
    <2>1. LastOf(past, n) = SubSeq(past, Len(past) - n + 1, Len(past))
      BY <1>1, <1>3 DEF LastOf
    <2>2. /\ SubSeq(past, Len(past) - n + 1, Len(past)) \in Seq(S)
          /\ Len(SubSeq(past, Len(past) - n + 1, Len(past))) = n
      BY <1>1, <1>3, SubSeqProperties
    <2> QED  BY <2>1, <2>2
  <1> QED  BY <1>1, <1>2, <1>3

------------------------------------------------------------------
(* Sums. *)

\* A set of natural numbers that holds 0 and every next one is all of them.
LEMMA AllNumbers ==
  ASSUME NEW S \in SUBSET Nat, 0 \in S, \A n \in S : n + 1 \in S
  PROVE  S = Nat
  <1> SUFFICES ASSUME Nat \ S # {} PROVE FALSE
    OBVIOUS
  <1>1. PICK m \in Nat \ S : \A y \in Nat \ S : ~(<<y, m>> \in OpToRel(<, Nat))
    BY WFMin, NatLessThanWellFounded
  <1>2. \A y \in Nat \ S : ~(y < m)
    BY <1>1 DEF OpToRel
  <1>3. m # 0 /\ m \in Nat
    BY <1>1
  <1>4. m - 1 \in Nat /\ m - 1 < m /\ (m - 1) + 1 = m
    BY <1>3
  <1>5. m - 1 \in S
    BY <1>2, <1>4
  <1> QED  BY <1>1, <1>4, <1>5

\* How FoldSet adds: one entry is taken out, and what the others come to is added.
Picked(s) == CHOOSE x \in s : TRUE
Added(entries, g, s) == IF s = {} THEN 0 ELSE entries[Picked(s)].size + g[s \ {Picked(s)}]
IsSum(g, entries, sets) == g = [s \in sets |-> Added(entries, g, s)]
UpTo(S, n) == {s \in SUBSET S : Cardinality(s) <= n}

\* Without the entry taken out, a set is smaller.
LEMMA WithoutPicked ==
  ASSUME NEW s, IsFiniteSet(s), s # {}
  PROVE  /\ Picked(s) \in s /\ s = (s \ {Picked(s)}) \cup {Picked(s)}
         /\ IsFiniteSet(s \ {Picked(s)})
         /\ Cardinality(s) \in Nat /\ Cardinality(s \ {Picked(s)}) \in Nat
         /\ Cardinality(s) = Cardinality(s \ {Picked(s)}) + 1
  <1>1. Picked(s) \in s
    BY DEF Picked
  <1>2. /\ IsFiniteSet(s \ {Picked(s)}) /\ Cardinality(s) \in Nat
        /\ Cardinality(s \ {Picked(s)}) \in Nat
        /\ Cardinality(s \ {Picked(s)}) = Cardinality(s) - 1
    BY <1>1, FS_RemoveElement, FS_CardinalityType
  <1> QED  BY <1>1, <1>2

\* Of a finite set there are such sums.
LEMMA SumExists ==
  ASSUME NEW entries, NEW S, IsFiniteSet(S)
  PROVE  \E g : IsSum(g, entries, SUBSET S)
  <1> DEFINE T == {n \in Nat : \E g : IsSum(g, entries, UpTo(S, n))}
  <1>0. \A s \in SUBSET S : IsFiniteSet(s) /\ Cardinality(s) \in Nat /\ Cardinality(s) <= Cardinality(S)
    BY FS_Subset, FS_CardinalityType
  <1>1. 0 \in T
    <2> DEFINE g == [s \in UpTo(S, 0) |-> 0]
    <2>1. \A s \in UpTo(S, 0) : s = {}
      BY <1>0, FS_EmptySet DEF UpTo
    <2>2. \A s \in UpTo(S, 0) : Added(entries, g, s) = 0
      BY <2>1 DEF Added
    <2>3. g = [s \in UpTo(S, 0) |-> Added(entries, g, s)]
      BY <2>2
    <2> HIDE DEF g
    <2> QED  BY <2>3 DEF IsSum
  <1>2. ASSUME NEW m \in T PROVE m + 1 \in T
    <2>1. PICK g : IsSum(g, entries, UpTo(S, m))
      BY <1>2
    <2> DEFINE next(s) == Added(entries, g, s)
               h == [s \in UpTo(S, m + 1) |-> next(s)]
    <2>2. UpTo(S, m) \subseteq UpTo(S, m + 1)
      BY <1>0 DEF UpTo
    <2>3. \A s \in UpTo(S, m) : g[s] = next(s)
      BY <2>1 DEF IsSum
    <2> HIDE DEF next
    <2>4. ASSUME NEW s \in UpTo(S, m + 1), s # {}
          PROVE  g[s \ {Picked(s)}] = h[s \ {Picked(s)}]
      <3>1. s \in SUBSET S /\ Cardinality(s) <= m + 1
        BY DEF UpTo
      <3>2. /\ Cardinality(s \ {Picked(s)}) \in Nat
            /\ Cardinality(s) = Cardinality(s \ {Picked(s)}) + 1
        BY <1>0, <2>4, <3>1, WithoutPicked
      <3>3. Cardinality(s \ {Picked(s)}) <= m
        BY <3>1, <3>2
      <3>4. s \ {Picked(s)} \in UpTo(S, m)
        BY <3>1, <3>3 DEF UpTo
      <3> QED  BY <2>2, <2>3, <3>4
    <2>5. \A s \in UpTo(S, m + 1) : next(s) = Added(entries, h, s)
      BY <2>4 DEF next, Added
    <2>6. h = [s \in UpTo(S, m + 1) |-> Added(entries, h, s)]
      <3> DEFINE k == [s \in UpTo(S, m + 1) |-> Added(entries, h, s)]
      <3>1. \A s \in UpTo(S, m + 1) : next(s) = k[s]
        BY <2>5
      <3>2. h = [s \in UpTo(S, m + 1) |-> k[s]]
        BY <3>1
      <3> QED  BY <3>2
    <2> HIDE DEF h
    <2>7. IsSum(h, entries, UpTo(S, m + 1))
      BY <2>6 DEF IsSum
    <2> QED  BY <2>7
  <1>3. T = Nat
    <2>1. T \in SUBSET Nat
      OBVIOUS
    <2> HIDE DEF T
    <2> QED  BY <1>1, <1>2, <2>1, AllNumbers
  <1>4. Cardinality(S) \in Nat /\ UpTo(S, Cardinality(S)) = SUBSET S
    BY <1>0, FS_CardinalityType DEF UpTo
  <1>5. Cardinality(S) \in T
    BY <1>3, <1>4
  <1> QED  BY <1>4, <1>5

\* Two of them say the same of a set both speak of.
LEMMA SumsAgree ==
  ASSUME NEW entries, NEW S, NEW T, NEW g, NEW h,
         IsSum(g, entries, SUBSET S), IsSum(h, entries, SUBSET T), IsFiniteSet(S)
  PROVE  \A s \in (SUBSET S) \cap (SUBSET T) : g[s] = h[s]
  <1> DEFINE Both == (SUBSET S) \cap (SUBSET T)
             N == {n \in Nat : \A s \in Both : Cardinality(s) <= n => g[s] = h[s]}
  <1>0. \A s \in Both : IsFiniteSet(s) /\ Cardinality(s) \in Nat
    BY FS_Subset, FS_CardinalityType
  <1>a. \A s \in Both : g[s] = Added(entries, g, s) /\ h[s] = Added(entries, h, s)
    <2> SUFFICES ASSUME NEW s \in SUBSET S, s \in SUBSET T
                 PROVE  g[s] = Added(entries, g, s) /\ h[s] = Added(entries, h, s)
      OBVIOUS
    <2>1. g[s] = Added(entries, g, s)
      BY DEF IsSum
    <2>2. h[s] = Added(entries, h, s)
      BY DEF IsSum
    <2> QED  BY <2>1, <2>2
  <1>b. \A s \in Both : s \ {Picked(s)} \in Both
    OBVIOUS
  <1> HIDE DEF Both
  <1>1. 0 \in N
    <2> SUFFICES ASSUME NEW s \in Both, Cardinality(s) <= 0 PROVE g[s] = h[s]
      OBVIOUS
    <2>1. s = {}
      BY <1>0, FS_EmptySet
    <2> QED  BY <1>a, <2>1 DEF Added
  <1>2. ASSUME NEW m \in N PROVE m + 1 \in N
    <2> SUFFICES ASSUME NEW s \in Both, Cardinality(s) <= m + 1 PROVE g[s] = h[s]
      OBVIOUS
    <2>1. CASE s = {}
      BY <1>a, <2>1 DEF Added
    <2>2. CASE s # {}
      <3>1. /\ Cardinality(s \ {Picked(s)}) \in Nat
            /\ Cardinality(s) = Cardinality(s \ {Picked(s)}) + 1
        BY <1>0, <2>2, WithoutPicked
      <3>2. Cardinality(s \ {Picked(s)}) <= m
        BY <3>1
      <3>3. g[s \ {Picked(s)}] = h[s \ {Picked(s)}]
        BY <1>2, <1>b, <3>2
      <3> QED  BY <1>a, <2>2, <3>3 DEF Added
    <2> QED  BY <2>1, <2>2
  <1>3. N = Nat
    <2>1. N \in SUBSET Nat
      OBVIOUS
    <2> HIDE DEF N
    <2> QED  BY <1>1, <1>2, <2>1, AllNumbers
  <1>4. ASSUME NEW s \in Both PROVE g[s] = h[s]
    <2>1. Cardinality(s) \in N /\ Cardinality(s) <= Cardinality(s)
      BY <1>0, <1>3
    <2> QED  BY <2>1
  <1> QED  BY <1>4 DEF Both

\* What some of the entries come to, one taken out.
LEMMA TotalIsSum ==
  ASSUME NEW entries, NEW S, IsFiniteSet(S)
  PROVE  \E g : IsSum(g, entries, SUBSET S) /\ TotalSize(entries, S) = g[S]
  <1> DEFINE g == CHOOSE g : g = [s \in SUBSET S |->
                      IF s = {} THEN 0
                      ELSE LET x == CHOOSE x \in s : TRUE IN entries[x].size + g[s \ {x}]]
  <1>1. \E h : IsSum(h, entries, SUBSET S)
    BY SumExists
  <1>2. \E h : h = [s \in SUBSET S |->
                      IF s = {} THEN 0
                      ELSE LET x == CHOOSE x \in s : TRUE IN entries[x].size + h[s \ {x}]]
    BY <1>1 DEF IsSum, Added, Picked
  <1>3. g = [s \in SUBSET S |->
                      IF s = {} THEN 0
                      ELSE LET x == CHOOSE x \in s : TRUE IN entries[x].size + g[s \ {x}]]
    BY <1>2
  <1>4. TotalSize(entries, S) = g[S]
    BY DEF TotalSize, FoldSet, MapThenFoldSet
  <1> HIDE DEF g
  <1>5. IsSum(g, entries, SUBSET S)
    BY <1>3 DEF IsSum, Added, Picked
  <1> QED  BY <1>4, <1>5

\* The total of a set by the entry that is taken out first.
LEMMA TotalStep ==
  ASSUME NEW entries, NEW S, IsFiniteSet(S)
  PROVE  TotalSize(entries, S) = IF S = {} THEN 0
                                 ELSE entries[Picked(S)].size + TotalSize(entries, S \ {Picked(S)})
  <1>1. PICK g : IsSum(g, entries, SUBSET S) /\ TotalSize(entries, S) = g[S]
    BY TotalIsSum
  <1>2. g[S] = Added(entries, g, S)
    <2>1. S \in SUBSET S
      OBVIOUS
    <2> QED  BY <1>1, <2>1 DEF IsSum
  <1>3. CASE S = {}
    BY <1>1, <1>2, <1>3 DEF Added
  <1>4. CASE S # {}
    <2> DEFINE R == S \ {Picked(S)}
    <2>1. IsFiniteSet(R)
      BY <1>4, WithoutPicked
    <2>2. PICK h : IsSum(h, entries, SUBSET R) /\ TotalSize(entries, R) = h[R]
      BY <2>1, TotalIsSum
    <2>a. R \subseteq S
      OBVIOUS
    <2> HIDE DEF R
    <2>3. R \in (SUBSET S) \cap (SUBSET R)
      BY <2>a
    <2>c. \A s \in (SUBSET S) \cap (SUBSET R) : g[s] = h[s]
      <3>1. IsSum(g, entries, SUBSET S)
        BY <1>1
      <3>2. IsSum(h, entries, SUBSET R)
        BY <2>2
      <3> QED  BY <3>1, <3>2, SumsAgree
    <2>4. g[R] = h[R]
      BY <2>3, <2>c
    <2>b. Added(entries, g, S) = entries[Picked(S)].size + g[S \ {Picked(S)}]
      BY <1>4 DEF Added
    <2>5. g[S] = entries[Picked(S)].size + g[R]
      BY <1>2, <2>b DEF R
    <2> QED  BY <1>1, <1>4, <2>2, <2>4, <2>5 DEF R
  <1> QED  BY <1>3, <1>4

Sized(entries, S) == \A i \in S : entries[i].size \in Nat

\* What one adds and what the rest comes to, any entry taken out.
LEMMA TotalTypes ==
  ASSUME NEW entries, NEW S, IsFiniteSet(S), Sized(entries, S)
  PROVE  TotalSize(entries, S) \in Nat
  <1> DEFINE N == {n \in Nat : \A s \in SUBSET S : Cardinality(s) <= n => TotalSize(entries, s) \in Nat}
  <1>0. \A s \in SUBSET S : IsFiniteSet(s) /\ Cardinality(s) \in Nat
    BY FS_Subset, FS_CardinalityType
  <1>1. 0 \in N
    <2> SUFFICES ASSUME NEW s \in SUBSET S, Cardinality(s) <= 0 PROVE TotalSize(entries, s) \in Nat
      OBVIOUS
    <2>1. s = {} /\ IsFiniteSet(s)
      BY <1>0, FS_EmptySet
    <2>2. TotalSize(entries, s) = 0
      BY <2>1, TotalStep
    <2> QED  BY <2>2
  <1>2. ASSUME NEW m \in N PROVE m + 1 \in N
    <2> SUFFICES ASSUME NEW s \in SUBSET S, Cardinality(s) <= m + 1, s # {}
                 PROVE  TotalSize(entries, s) \in Nat
      <3>1. TotalSize(entries, {}) = 0
        BY FS_EmptySet, TotalStep
      <3> QED  BY <3>1
    <2>1. /\ Picked(s) \in s /\ Cardinality(s \ {Picked(s)}) \in Nat
          /\ Cardinality(s) = Cardinality(s \ {Picked(s)}) + 1
      BY <1>0, WithoutPicked
    <2>2. Cardinality(s \ {Picked(s)}) <= m
      BY <2>1
    <2>3. TotalSize(entries, s \ {Picked(s)}) \in Nat /\ entries[Picked(s)].size \in Nat
      BY <1>2, <2>1, <2>2 DEF Sized
    <2>4. TotalSize(entries, s) = entries[Picked(s)].size + TotalSize(entries, s \ {Picked(s)})
      BY <1>0, TotalStep
    <2> QED  BY <2>3, <2>4
  <1>3. N = Nat
    <2>1. N \in SUBSET Nat
      OBVIOUS
    <2> HIDE DEF N
    <2> QED  BY <1>1, <1>2, <2>1, AllNumbers
  <1>4. S \in SUBSET S /\ Cardinality(S) \in N /\ Cardinality(S) <= Cardinality(S)
    BY <1>0, <1>3
  <1> QED  BY <1>4

\* Of three numbers.
LEMMA InAnyOrder ==
  ASSUME NEW a \in Nat, NEW b \in Nat, NEW c \in Nat
  PROVE  a + (b + c) = b + (a + c)
  OBVIOUS

\* Whichever entry is taken out, the total is that of the others and its size.
LEMMA TotalWithout ==
  ASSUME NEW entries, NEW S, IsFiniteSet(S), Sized(entries, S), NEW x \in S
  PROVE  TotalSize(entries, S) = entries[x].size + TotalSize(entries, S \ {x})
  <1> DEFINE N == {n \in Nat : \A s \in SUBSET S : \A y \in s : Cardinality(s) <= n =>
                       TotalSize(entries, s) = entries[y].size + TotalSize(entries, s \ {y})}
  <1>0. \A s \in SUBSET S : IsFiniteSet(s) /\ Cardinality(s) \in Nat /\ Sized(entries, s)
    BY FS_Subset, FS_CardinalityType DEF Sized
  <1>1. 0 \in N
    <2>1. \A s \in SUBSET S : Cardinality(s) <= 0 => s = {}
      BY <1>0, FS_EmptySet
    <2> QED  BY <2>1
  <1>2. ASSUME NEW m \in N PROVE m + 1 \in N
    <2> SUFFICES ASSUME NEW s \in SUBSET S, NEW y \in s, Cardinality(s) <= m + 1, Picked(s) # y
                 PROVE  TotalSize(entries, s) = entries[y].size + TotalSize(entries, s \ {y})
      <3>1. \A s \in SUBSET S : s # {} => TotalSize(entries, s) =
                entries[Picked(s)].size + TotalSize(entries, s \ {Picked(s)})
        BY <1>0, TotalStep
      <3> QED  BY <3>1
    <2> DEFINE p == Picked(s)
               rest == (s \ {p}) \ {y}
    <2>1. /\ p \in s /\ Cardinality(s \ {p}) \in Nat
          /\ Cardinality(s) = Cardinality(s \ {p}) + 1
      BY <1>0, WithoutPicked
    <2>2. Cardinality(s \ {y}) = Cardinality(s) - 1 /\ Cardinality(s \ {p}) = Cardinality(s) - 1
      BY <1>0, <2>1, FS_RemoveElement
    <2>3. Cardinality(s \ {y}) <= m /\ Cardinality(s \ {p}) <= m
      BY <2>1, <2>2
    <2> HIDE DEF p
    <2>4. y \in s \ {p} /\ p \in s \ {y} /\ s \ {p} \in SUBSET S /\ s \ {y} \in SUBSET S
      BY <2>1 DEF p
    <2>5. (s \ {y}) \ {p} = rest
      OBVIOUS
    <2>6. TotalSize(entries, s \ {p}) = entries[y].size + TotalSize(entries, rest)
      BY <1>2, <2>3, <2>4
    <2>7. TotalSize(entries, s \ {y}) = entries[p].size + TotalSize(entries, rest)
      BY <1>2, <2>3, <2>4, <2>5
    <2>8. TotalSize(entries, s) = entries[p].size + TotalSize(entries, s \ {p})
      BY <1>0, <2>1, TotalStep DEF p
    <2>9. rest \in SUBSET S
      OBVIOUS
    <2> HIDE DEF rest
    <2>10. entries[p].size \in Nat /\ entries[y].size \in Nat /\ TotalSize(entries, rest) \in Nat
      BY <1>0, <2>1, <2>9, TotalTypes DEF Sized
    <2> QED  BY <2>6, <2>7, <2>8, <2>10, InAnyOrder
  <1>3. N = Nat
    <2>1. N \in SUBSET Nat
      OBVIOUS
    <2> HIDE DEF N
    <2> QED  BY <1>1, <1>2, <2>1, AllNumbers
  <1>4. S \in SUBSET S /\ Cardinality(S) \in N /\ Cardinality(S) <= Cardinality(S)
    BY <1>0, <1>3
  <1> QED  BY <1>4

\* Fewer entries do not come to more.
LEMMA TotalOfPart ==
  ASSUME NEW entries, NEW S, IsFiniteSet(S), Sized(entries, S), NEW R \in SUBSET S
  PROVE  TotalSize(entries, R) <= TotalSize(entries, S)
  <1> DEFINE N == {n \in Nat : \A s \in SUBSET S : Cardinality(s) <= n /\ R \subseteq s =>
                       TotalSize(entries, R) <= TotalSize(entries, s)}
  <1>0. \A s \in SUBSET S : IsFiniteSet(s) /\ Cardinality(s) \in Nat /\ Sized(entries, s)
    BY FS_Subset, FS_CardinalityType DEF Sized
  <1>a. \A s \in SUBSET S : TotalSize(entries, s) \in Nat
    BY <1>0, TotalTypes
  <1>1. 0 \in N
    <2> SUFFICES ASSUME NEW s \in SUBSET S, Cardinality(s) <= 0, R \subseteq s
                 PROVE  TotalSize(entries, R) <= TotalSize(entries, s)
      OBVIOUS
    <2>1. s = {} /\ R = s
      BY <1>0, FS_EmptySet
    <2> QED  BY <1>a, <2>1
  <1>2. ASSUME NEW m \in N PROVE m + 1 \in N
    <2> SUFFICES ASSUME NEW s \in SUBSET S, Cardinality(s) <= m + 1, R \subseteq s, R # s
                 PROVE  TotalSize(entries, R) <= TotalSize(entries, s)
      BY <1>a
    <2>1. PICK x \in s : x \notin R
      OBVIOUS
    <2>2. Cardinality(s \ {x}) = Cardinality(s) - 1
      BY <1>0, FS_RemoveElement
    <2>3. s \ {x} \in SUBSET S /\ R \subseteq s \ {x}
      BY <2>1
    <2>4. Cardinality(s \ {x}) <= m
      BY <1>0, <2>2
    <2>5. TotalSize(entries, R) <= TotalSize(entries, s \ {x})
      BY <1>2, <2>3, <2>4
    <2>6. TotalSize(entries, s) = entries[x].size + TotalSize(entries, s \ {x})
      BY <1>0, TotalWithout
    <2>7. entries[x].size \in Nat
      BY DEF Sized
    <2> QED  BY <1>a, <2>3, <2>5, <2>6, <2>7
  <1>3. N = Nat
    <2>1. N \in SUBSET Nat
      OBVIOUS
    <2> HIDE DEF N
    <2> QED  BY <1>1, <1>2, <2>1, AllNumbers
  <1>4. Cardinality(S) \in N /\ Cardinality(S) <= Cardinality(S)
    BY <1>0, <1>3
  <1> QED  BY <1>4

\* Entries that correspond one to one, and have the same sizes, come to the same.
LEMMA TotalOfImage ==
  ASSUME NEW entries, NEW others, NEW S, IsFiniteSet(S), NEW p,
         \A i \in S : others[p[i]].size = entries[i].size /\ entries[i].size \in Nat,
         \A i, j \in S : p[i] = p[j] => i = j,
         IsFiniteSet({p[i] : i \in S})
  PROVE  TotalSize(entries, S) = TotalSize(others, {p[i] : i \in S})
  <1> DEFINE N == {n \in Nat : \A s \in SUBSET S : Cardinality(s) <= n =>
                       TotalSize(entries, s) = TotalSize(others, {p[i] : i \in s})}
  <1>0. \A s \in SUBSET S : IsFiniteSet(s) /\ Cardinality(s) \in Nat /\ Sized(entries, s)
    BY FS_Subset, FS_CardinalityType DEF Sized
  <1>a. \A s \in SUBSET S : IsFiniteSet({p[i] : i \in s}) /\ Sized(others, {p[i] : i \in s})
    <2> SUFFICES ASSUME NEW s \in SUBSET S
                 PROVE  IsFiniteSet({p[i] : i \in s}) /\ Sized(others, {p[i] : i \in s})
      OBVIOUS
    <2>1. {p[i] : i \in s} \in SUBSET {p[i] : i \in S}
      OBVIOUS
    <2>2. IsFiniteSet({p[i] : i \in s})
      BY <2>1, FS_Subset
    <2> QED  BY <2>2 DEF Sized
  <1>1. 0 \in N
    <2> SUFFICES ASSUME NEW s \in SUBSET S, Cardinality(s) <= 0
                 PROVE  TotalSize(entries, s) = TotalSize(others, {p[i] : i \in s})
      OBVIOUS
    <2>1. s = {}
      BY <1>0, FS_EmptySet
    <2>2. {p[i] : i \in s} = {}
      BY <2>1
    <2> QED  BY <1>0, <2>1, <2>2, FS_EmptySet, TotalStep
  <1>2. ASSUME NEW m \in N PROVE m + 1 \in N
    <2> SUFFICES ASSUME NEW s \in SUBSET S, Cardinality(s) <= m + 1
                 PROVE  TotalSize(entries, s) = TotalSize(others, {p[i] : i \in s})
      OBVIOUS
    <2> DEFINE image(t) == {p[i] : i \in t}
    <2>1. CASE s = {}
      <3>1. image(s) = {}
        BY <2>1
      <3>2. TotalSize(entries, {}) = 0 /\ TotalSize(others, {}) = 0
        BY FS_EmptySet, TotalStep
      <3> QED  BY <2>1, <3>1, <3>2
    <2>2. CASE s # {}
      <3>1. PICK x \in s : TRUE
        BY <2>2
      <3>2. Cardinality(s \ {x}) = Cardinality(s) - 1
        BY <1>0, FS_RemoveElement
      <3>3. Cardinality(s \ {x}) <= m /\ s \ {x} \in SUBSET S
        BY <1>0, <3>2
      <3>4. TotalSize(entries, s \ {x}) = TotalSize(others, image(s \ {x}))
        BY <1>2, <3>3
      <3>5. image(s) \ {p[x]} = image(s \ {x}) /\ p[x] \in image(s)
        OBVIOUS
      <3>6. TotalSize(entries, s) = entries[x].size + TotalSize(entries, s \ {x})
        BY <1>0, TotalWithout
      <3>7. IsFiniteSet(image(s)) /\ Sized(others, image(s))
        BY <1>a
      <3> HIDE DEF image
      <3>8. TotalSize(others, image(s)) = others[p[x]].size + TotalSize(others, image(s) \ {p[x]})
        BY <3>5, <3>7, TotalWithout
      <3>9. others[p[x]].size = entries[x].size
        OBVIOUS
      <3>10. TotalSize(entries, s) = TotalSize(others, image(s))
        BY <3>4, <3>5, <3>6, <3>8, <3>9
      <3> QED  BY <3>10 DEF image
    <2> QED  BY <2>1, <2>2
  <1>3. N = Nat
    <2>1. N \in SUBSET Nat
      OBVIOUS
    <2> HIDE DEF N
    <2> QED  BY <1>1, <1>2, <2>1, AllNumbers
  <1>4. S \in SUBSET S /\ Cardinality(S) \in N /\ Cardinality(S) <= Cardinality(S)
    BY <1>0, <1>3
  <1> QED  BY <1>4

----------------------------------------------------------------------------
(* Histories as evidence. *)

\* The end of a history of L entries that is left without its first d: these are too old, and the
\* one after is not.
IsEnd(rest, past, L, d, now, window) ==
    /\ Len(rest) = L - d
    /\ \A k \in 1..L - d : rest[k] = past[k + d]
    /\ \A k \in 1..d : ~(now - past[k].time <= window)
    /\ d < L => now - past[d + 1].time <= window

\* That is what pruning leaves.
LEMMA PrunedIsEnd ==
  ASSUME NEW S, NEW past \in Seq(S), NEW now, NEW window, NEW L \in Nat, L = Len(past)
  PROVE  /\ Pruned(past, now, window) \in Seq(S)
         /\ \E d \in 0..L : IsEnd(Pruned(past, now, window), past, L, d, now, window)
  <1> DEFINE recent == {i \in DOMAIN past : now - past[i].time <= window}
  <1>1. DOMAIN past = 1..L
    BY LenProperties
  <1>2. CASE recent = {}
    <2>1. Pruned(past, now, window) = <<>>
      BY <1>2 DEF Pruned
    <2>2. \A k \in 1..L : ~(now - past[k].time <= window)
      BY <1>1, <1>2
    <2>4. <<>> \in Seq(S) /\ Len(<<>>) = 0
      BY EmptySeq
    <2>5. L \in 0..L /\ L - L = 0 /\ ~(L < L) /\ 1..0 = {}
      OBVIOUS
    <2> HIDE DEF recent
    <2> QED  BY <2>1, <2>2, <2>4, <2>5 DEF IsEnd
  <1>3. CASE recent # {}
    <2>1. recent \in SUBSET Nat
      BY <1>1
    <2>2. Min(recent) \in recent /\ \A x \in recent : Min(recent) <= x
      BY <1>3, <2>1, MinOf
    <2>a. Min(recent) \in 1..L
      BY <1>1, <2>2
    <2>3. PICK m \in 1..L : m = Min(recent)
      BY <2>a
    <2>4. Pruned(past, now, window) = SubSeq(past, m, L)
      BY <1>3, <2>3 DEF Pruned
    <2>5. now - past[m].time <= window
      BY <2>2, <2>3
    <2>6. \A k \in 1..L : k < m => ~(now - past[k].time <= window)
      <3> SUFFICES ASSUME NEW k \in 1..L, now - past[k].time <= window PROVE ~(k < m)
        OBVIOUS
      <3>1. k \in recent
        BY <1>1
      <3>2. m <= k
        BY <2>2, <2>3, <3>1
      <3> QED  BY <3>2
    <2> HIDE DEF recent
    <2>7. PICK d \in 0..L : d + 1 = m /\ m - 1 = d /\ d < L
      <3>1. m - 1 \in 0..L /\ (m - 1) + 1 = m /\ m - 1 < L
        OBVIOUS
      <3> QED  BY <3>1
    <2>8. /\ SubSeq(past, m, L) \in Seq(S)
          /\ Len(SubSeq(past, m, L)) = L - m + 1
          /\ \A k \in 1..L - m + 1 : SubSeq(past, m, L)[k] = past[m + k - 1]
      BY <1>1, <2>3, SubSeqProperties
    <2>9. L - m + 1 = L - d /\ \A k \in 1..L - d : m + k - 1 = k + d
      BY <2>3, <2>7
    <2>10. \A k \in 1..d : k \in 1..L /\ k < m
      BY <2>3, <2>7
    <2>11. Len(SubSeq(past, m, L)) = L - d
      BY <2>8, <2>9
    <2>12. \A k \in 1..L - d : SubSeq(past, m, L)[k] = past[k + d]
      BY <2>8, <2>9
    <2> QED  BY <2>4, <2>5, <2>6, <2>7, <2>8, <2>10, <2>11, <2>12 DEF IsEnd
  <1> QED  BY <1>2, <1>3

\* A history mirrors sessions of a category: its entries are of different ones, in the order of
\* arrival; those left out are older than a minute, measured by one of the category; and when
\* these arrived in the order of their times, those kept are not.
Mirrors(past, L, rec, mine, p, fields) ==
    /\ past \in Seq([fields -> Nat]) /\ L = Len(past)
    /\ \A k \in 1..L : p[k] \in mine /\ \A f \in fields : past[k][f] = rec[p[k]][f]
    /\ \A k, l \in 1..L : k < l => p[k] < p[l]
    /\ \A i \in mine : \/ \E k \in 1..L : p[k] = i
                       \/ \E j \in mine : ~(rec[j].time - rec[i].time <= Minute)
    /\ (\A i, j \in mine : i < j => rec[i].time <= rec[j].time) =>
          \A k \in 1..L, j \in mine : rec[j].time - rec[p[k]].time <= Minute

\* Of times in order, the differences are as well.
LEMMA TimesInOrder ==
  ASSUME NEW a \in Nat, NEW b \in Nat, NEW c \in Nat, NEW now \in Nat,
         a <= b, c <= now, now - a <= Minute
  PROVE  c - b <= Minute
  BY WindowsAssumption

\* A session that is appended to the category and to its history.
LEMMA MirrorsAppended ==
  ASSUME NEW past, NEW rec, NEW mine, NEW p, NEW fields, "time" \in fields,
         NEW L, Mirrors(past, L, rec, mine, p, fields),
         NEW S, rec \in Seq(S), NEW r \in S, mine \subseteq DOMAIN rec, \A i \in mine : rec[i].time \in Nat,
         r.time \in Nat,
         NEW e \in [fields -> Nat], \A f \in fields : e[f] = r[f],
         NEW rec2, rec2 = Append(rec, r), NEW n, n = Len(rec) + 1,
         NEW mine2, mine2 = mine \cup {n},
         NEW past2, past2 = Pruned(Append(past, e), r.time, Minute)
  PROVE  \E L2, p2 : Mirrors(past2, L2, rec2, mine2, p2, fields)
  <1>1. /\ Len(rec) \in Nat /\ DOMAIN rec = 1..Len(rec) /\ rec2[n] = r
        /\ \A i \in 1..Len(rec) : rec2[i] = rec[i]
    BY LenProperties, AppendProperties
  <1>2. /\ \A i \in mine : i \in Nat /\ i < n /\ rec2[i] = rec[i] /\ i \in mine2
        /\ n \in Nat /\ n \in mine2 /\ n \notin mine
    BY <1>1
  <1>3. past \in Seq([fields -> Nat])
    BY DEF Mirrors
  <1>4. L \in Nat /\ L = Len(past)
    BY <1>3, LenProperties DEF Mirrors
  <1> DEFINE long == Append(past, e)
             q == [k \in 1..L + 1 |-> IF k = L + 1 THEN n ELSE p[k]]
  <1>5. /\ long \in Seq([fields -> Nat]) /\ Len(long) = L + 1 /\ long[L + 1] = e
        /\ \A k \in 1..L : long[k] = past[k]
    BY <1>3, <1>4, AppendProperties
  <1>6. /\ past2 \in Seq([fields -> Nat])
        /\ \E d \in 0..L + 1 : IsEnd(past2, long, L + 1, d, r.time, Minute)
    <2>1. PICK M \in Nat : M = L + 1
      BY <1>4
    <2>2. past2 = Pruned(long, r.time, Minute)
      OBVIOUS
    <2> HIDE DEF long
    <2>3. long \in Seq([fields -> Nat]) /\ M = Len(long)
      BY <1>5, <2>1
    <2>4. /\ past2 \in Seq([fields -> Nat])
          /\ \E d \in 0..M : IsEnd(past2, long, M, d, r.time, Minute)
      BY <2>2, <2>3, PrunedIsEnd
    <2> QED  BY <2>1, <2>4
  <1>b. PICK d \in 0..L + 1 :
            /\ Len(past2) = (L + 1) - d
            /\ \A k \in 1..(L + 1) - d : past2[k] = long[k + d]
            /\ \A k \in 1..d : ~(r.time - long[k].time <= Minute)
            /\ d < L + 1 => r.time - long[d + 1].time <= Minute
    <2>1. PICK d \in 0..L + 1 : IsEnd(past2, long, L + 1, d, r.time, Minute)
      BY <1>6
    <2> HIDE DEF long
    <2>2. /\ Len(past2) = (L + 1) - d
          /\ \A k \in 1..(L + 1) - d : past2[k] = long[k + d]
          /\ \A k \in 1..d : ~(r.time - long[k].time <= Minute)
          /\ d < L + 1 => r.time - long[d + 1].time <= Minute
      BY <2>1 DEF IsEnd
    <2> QED  BY <2>2
  <1> HIDE DEF long
  <1>7. \A k \in 1..L + 1 : k = L + 1 \/ k \in 1..L
    BY <1>4
  <1>8. q[L + 1] = n /\ \A k \in 1..L : q[k] = p[k]
    BY <1>4
  <1> HIDE DEF q
  <1>a. /\ \A k \in 1..L : p[k] \in mine /\ \A f \in fields : past[k][f] = rec[p[k]][f]
        /\ \A k, l \in 1..L : k < l => p[k] < p[l]
        /\ \A i \in mine : \/ \E k \in 1..L : p[k] = i
                           \/ \E j \in mine : ~(rec[j].time - rec[i].time <= Minute)
    BY <1>4, Zenon DEF Mirrors
  <1>9. \A k \in 1..L + 1 : q[k] \in mine2 /\ \A f \in fields : long[k][f] = rec2[q[k]][f]
    <2>1. ASSUME NEW k \in 1..L
          PROVE  q[k] \in mine2 /\ \A f \in fields : long[k][f] = rec2[q[k]][f]
      <3>1. q[k] = p[k] /\ p[k] \in mine /\ long[k] = past[k]
        BY <1>5, <1>8, <1>a
      <3>2. rec2[p[k]] = rec[p[k]] /\ p[k] \in mine2
        BY <1>2, <3>1
      <3>3. \A f \in fields : past[k][f] = rec[p[k]][f]
        BY <1>a
      <3> QED  BY <3>1, <3>2, <3>3
    <2>2. q[L + 1] \in mine2 /\ \A f \in fields : long[L + 1][f] = rec2[q[L + 1]][f]
      BY <1>1, <1>2, <1>5, <1>8
    <2> QED  BY <1>7, <2>1, <2>2
  <1>10. \A k, l \in 1..L + 1 : k < l => q[k] < q[l]
    <2> SUFFICES ASSUME NEW k \in 1..L + 1, NEW l \in 1..L + 1, k < l PROVE q[k] < q[l]
      OBVIOUS
    <2>1. k \in 1..L
      BY <1>4
    <2>2. CASE l \in 1..L
      BY <1>8, <1>a, <2>1, <2>2
    <2>3. CASE l = L + 1
      BY <1>2, <1>8, <1>a, <2>1, <2>3
    <2> QED  BY <1>7, <2>2, <2>3
  <1>11. \A k \in 1..d : ~(rec2[n].time - rec2[q[k]].time <= Minute)
    <2> SUFFICES ASSUME NEW k \in 1..d PROVE ~(rec2[n].time - rec2[q[k]].time <= Minute)
      OBVIOUS
    <2>1. k \in 1..L + 1
      BY <1>4
    <2>2. long[k].time = rec2[q[k]].time
      BY <1>9, <2>1
    <2> QED  BY <1>1, <1>b, <2>2
  <1> DEFINE p2 == [k \in 1..(L + 1) - d |-> q[k + d]]
  <1>12. \A k \in 1..(L + 1) - d : p2[k] = q[k + d] /\ k + d \in 1..L + 1
    BY <1>4
  <1> HIDE DEF p2
  <1>13. ASSUME NEW i \in mine2
         PROVE  \/ \E k \in 1..(L + 1) - d : p2[k] = i
                \/ \E j \in mine2 : ~(rec2[j].time - rec2[i].time <= Minute)
    <2>1. ASSUME NEW k \in 1..L + 1, q[k] = i
          PROVE  \/ \E l \in 1..(L + 1) - d : p2[l] = i
                 \/ \E j \in mine2 : ~(rec2[j].time - rec2[i].time <= Minute)
      <3>1. CASE k \in 1..d
        BY <1>2, <1>11, <2>1, <3>1
      <3>2. CASE k \notin 1..d
        <4>1. PICK l \in 1..(L + 1) - d : k = l + d
          <5>1. k - d \in 1..(L + 1) - d /\ k = (k - d) + d
            BY <1>4, <3>2
          <5> QED  BY <5>1
        <4> QED  BY <1>12, <2>1, <4>1
      <3> QED  BY <3>1, <3>2
    <2>2. CASE i = n
      <3>1. L + 1 \in 1..L + 1
        BY <1>4
      <3> QED  BY <1>8, <2>1, <2>2, <3>1
    <2>3. CASE i \in mine
      <3>1. CASE \E k \in 1..L : p[k] = i
        <4>1. PICK k \in 1..L : p[k] = i
          BY <3>1
        <4>2. k \in 1..L + 1
          BY <1>4
        <4> QED  BY <1>8, <2>1, <4>1, <4>2
      <3>2. CASE \E j \in mine : ~(rec[j].time - rec[i].time <= Minute)
        BY <1>2, <2>3, <3>2
      <3> QED  BY <1>a, <2>3, <3>1, <3>2
    <2> QED  BY <2>2, <2>3
  <1>14. ASSUME \A i, j \in mine2 : i < j => rec2[i].time <= rec2[j].time,
                NEW k \in 1..(L + 1) - d, NEW j \in mine2
         PROVE  rec2[j].time - rec2[p2[k]].time <= Minute
    <2>1. \A i \in mine2 : rec2[i].time \in Nat /\ rec2[i].time <= r.time
      <3> SUFFICES ASSUME NEW i \in mine2 PROVE rec2[i].time \in Nat /\ rec2[i].time <= r.time
        OBVIOUS
      <3>1. CASE i = n
        BY <1>1, <3>1
      <3>2. CASE i \in mine
        BY <1>1, <1>2, <1>14, <3>2
      <3> QED  BY <3>1, <3>2
    <2>2. d + 1 \in 1..L + 1 /\ d < L + 1 /\ (k + d = d + 1 \/ d + 1 < k + d)
      BY <1>4
    <2>3. r.time - rec2[q[d + 1]].time <= Minute
      <3>1. long[d + 1].time = rec2[q[d + 1]].time
        BY <1>9, <2>2
      <3> QED  BY <1>b, <2>2, <3>1
    <2>4. q[d + 1] \in mine2 /\ q[k + d] \in mine2
      BY <1>9, <1>12, <2>2
    <2>5. rec2[q[d + 1]].time <= rec2[q[k + d]].time
      <3>1. CASE k + d = d + 1
        BY <2>1, <2>4, <3>1
      <3>2. CASE d + 1 < k + d
        <4>1. q[d + 1] < q[k + d]
          BY <1>10, <1>12, <2>2, <3>2
        <4> QED  BY <1>14, <2>4, <4>1
      <3> QED  BY <2>2, <3>1, <3>2
    <2>6. rec2[j].time - rec2[q[k + d]].time <= Minute
      <3> DEFINE a == rec2[q[d + 1]].time
                 b == rec2[q[k + d]].time
                 c == rec2[j].time
      <3>1. a \in Nat /\ b \in Nat /\ c \in Nat /\ c <= r.time
        BY <2>1, <2>4
      <3>2. a <= b /\ r.time - a <= Minute
        BY <2>3, <2>5
      <3> HIDE DEF a, b, c
      <3>3. c - b <= Minute
        BY <3>1, <3>2, TimesInOrder
      <3> QED  BY <3>3 DEF b, c
    <2> QED  BY <1>12, <2>6
  <1>15. Mirrors(past2, (L + 1) - d, rec2, mine2, p2, fields)
    <2>1. \A k \in 1..(L + 1) - d : p2[k] \in mine2 /\ \A f \in fields : past2[k][f] = rec2[p2[k]][f]
      <3> SUFFICES ASSUME NEW k \in 1..(L + 1) - d
                   PROVE  p2[k] \in mine2 /\ \A f \in fields : past2[k][f] = rec2[p2[k]][f]
        OBVIOUS
      <3>1. p2[k] = q[k + d] /\ k + d \in 1..L + 1 /\ past2[k] = long[k + d]
        BY <1>b, <1>12
      <3> QED  BY <1>9, <3>1
    <2>2. \A k, l \in 1..(L + 1) - d : k < l => p2[k] < p2[l]
      <3> SUFFICES ASSUME NEW k \in 1..(L + 1) - d, NEW l \in 1..(L + 1) - d, k < l PROVE p2[k] < p2[l]
        OBVIOUS
      <3>1. k + d < l + d
        BY <1>4
      <3> QED  BY <1>10, <1>12, <3>1
    <2>3. Len(past2) = (L + 1) - d /\ past2 \in Seq([fields -> Nat])
      BY <1>6, <1>b
    <2>4. (\A i, j \in mine2 : i < j => rec2[i].time <= rec2[j].time) =>
             \A k \in 1..(L + 1) - d, j \in mine2 : rec2[j].time - rec2[p2[k]].time <= Minute
      BY <1>14
    <2>5. \A i \in mine2 : \/ \E k \in 1..(L + 1) - d : p2[k] = i
                          \/ \E j \in mine2 : ~(rec2[j].time - rec2[i].time <= Minute)
      BY <1>13
    <2> QED  BY <2>1, <2>2, <2>3, <2>4, <2>5 DEF Mirrors
  <1> QED  BY <1>15

\* The positions of the entries, and those of the minute before the newest of the category.
Kept(p, L) == {p[k] : k \in 1..L}
LastMinute(rec, mine) == {i \in mine : \A j \in mine : rec[j].time - rec[i].time <= Minute}
Ordered(rec, mine) == \A i, j \in mine : i < j => rec[i].time <= rec[j].time

\* The entries are as many as their positions; none of the last minute is left out, and none other
\* is there when the category arrived in the order of its times.
LEMMA MirrorFacts ==
  ASSUME NEW past, NEW L \in Nat, NEW rec, NEW mine \in SUBSET Nat, IsFiniteSet(mine), NEW p, NEW fields,
         Mirrors(past, L, rec, mine, p, fields)
  PROVE  /\ LastMinute(rec, mine) \subseteq Kept(p, L) /\ Kept(p, L) \subseteq mine
         /\ IsFiniteSet(Kept(p, L)) /\ Cardinality(Kept(p, L)) = L
         /\ Ordered(rec, mine) => Kept(p, L) = LastMinute(rec, mine)
  <1>1. /\ \A k \in 1..L : p[k] \in mine
        /\ \A k, l \in 1..L : k < l => p[k] < p[l]
        /\ \A i \in mine : \/ \E k \in 1..L : p[k] = i
                           \/ \E j \in mine : ~(rec[j].time - rec[i].time <= Minute)
        /\ Ordered(rec, mine) =>
              \A k \in 1..L, j \in mine : rec[j].time - rec[p[k]].time <= Minute
    BY Zenon DEF Mirrors, Ordered
  <1>2. LastMinute(rec, mine) \subseteq Kept(p, L) /\ Kept(p, L) \subseteq mine
    <2>1. ASSUME NEW i \in LastMinute(rec, mine) PROVE i \in Kept(p, L)
      <3>1. i \in mine /\ \A j \in mine : rec[j].time - rec[i].time <= Minute
        BY DEF LastMinute
      <3>2. \E k \in 1..L : p[k] = i
        BY <1>1, <3>1
      <3> QED  BY <3>2 DEF Kept
    <2>2. Kept(p, L) \subseteq mine
      BY <1>1 DEF Kept
    <2> QED  BY <2>1, <2>2
  <1>3. Ordered(rec, mine) => Kept(p, L) = LastMinute(rec, mine)
    <2> SUFFICES ASSUME Ordered(rec, mine), NEW i \in Kept(p, L)
                 PROVE  \A j \in mine : rec[j].time - rec[i].time <= Minute
      BY <1>2 DEF LastMinute
    <2>1. PICK k \in 1..L : i = p[k]
      BY DEF Kept
    <2> QED  BY <1>1, <2>1
  <1>4. IsFiniteSet(Kept(p, L)) /\ Cardinality(Kept(p, L)) = L
    <2> DEFINE f == [k \in 1..L |-> p[k]]
    <2>1. \A k, l \in 1..L : p[k] = p[l] => k = l
      <3> SUFFICES ASSUME NEW k \in 1..L, NEW l \in 1..L, k < l PROVE p[k] # p[l]
        OBVIOUS
      <3>1. p[k] \in Nat /\ p[l] \in Nat /\ p[k] < p[l]
        BY <1>1
      <3> QED  BY <3>1
    <2>2. f \in Bijection(1..L, Kept(p, L))
      <3>1. f \in [1..L -> Kept(p, L)]
        BY DEF Kept
      <3>2. \A k, l \in 1..L : f[k] = f[l] => k = l
        BY <2>1
      <3>3. \A i \in Kept(p, L) : \E k \in 1..L : f[k] = i
        BY DEF Kept
      <3> HIDE DEF f
      <3> QED  BY <3>1, <3>2, <3>3 DEF Bijection, Injection, Surjection, IsInjective
    <2>3. IsFiniteSet(1..L) /\ Cardinality(1..L) = L
      <3>1. IsFiniteSet(1..L) /\ Cardinality(1..L) = IF 1 > L THEN 0 ELSE L - 1 + 1
        BY FS_Interval
      <3> QED  BY <3>1
    <2> QED  BY <2>2, <2>3, FS_Bijection DEF ExistsBijection
  <1> QED  BY <1>2, <1>3, <1>4

\* The number of entries is that of the last minute, or larger.
LEMMA MirrorCount ==
  ASSUME NEW past, NEW L \in Nat, NEW rec, NEW mine \in SUBSET Nat, IsFiniteSet(mine), NEW p, NEW fields,
         Mirrors(past, L, rec, mine, p, fields)
  PROVE  /\ Len(past) >= Cardinality(LastMinute(rec, mine))
         /\ Ordered(rec, mine) => Len(past) = Cardinality(LastMinute(rec, mine))
  <1>1. /\ LastMinute(rec, mine) \subseteq Kept(p, L) /\ IsFiniteSet(Kept(p, L))
        /\ Cardinality(Kept(p, L)) = L
        /\ Ordered(rec, mine) => Kept(p, L) = LastMinute(rec, mine)
    BY MirrorFacts
  <1>2. /\ Cardinality(LastMinute(rec, mine)) <= Cardinality(Kept(p, L))
        /\ Cardinality(LastMinute(rec, mine)) \in Nat
    BY <1>1, FS_Subset, FS_CardinalityType
  <1>3. L = Len(past)
    BY DEF Mirrors
  <1> QED  BY <1>1, <1>2, <1>3

\* The sizes of the entries come to those of the last minute, or more.
LEMMA MirrorTotal ==
  ASSUME NEW past, NEW L \in Nat, NEW rec, NEW mine \in SUBSET Nat, IsFiniteSet(mine), NEW p, NEW fields,
         Mirrors(past, L, rec, mine, p, fields), "size" \in fields, Sized(rec, mine)
  PROVE  /\ VolumeOf(past) >= TotalSize(rec, LastMinute(rec, mine))
         /\ Ordered(rec, mine) => VolumeOf(past) = TotalSize(rec, LastMinute(rec, mine))
  <1>1. /\ LastMinute(rec, mine) \subseteq Kept(p, L) /\ Kept(p, L) \subseteq mine
        /\ IsFiniteSet(Kept(p, L))
        /\ Ordered(rec, mine) => Kept(p, L) = LastMinute(rec, mine)
    BY MirrorFacts
  <1>2. DOMAIN past = 1..L
    BY LenProperties DEF Mirrors
  <1>3. \A k \in 1..L : p[k] \in mine /\ past[k].size = rec[p[k]].size
    BY DEF Mirrors
  <1>4. \A k, l \in 1..L : p[k] = p[l] => k = l
    <2> SUFFICES ASSUME NEW k \in 1..L, NEW l \in 1..L, k < l PROVE p[k] # p[l]
      OBVIOUS
    <2>1. p[k] \in Nat /\ p[l] \in Nat /\ p[k] < p[l]
      BY <1>3 DEF Mirrors
    <2> QED  BY <2>1
  <1>5. \A k \in 1..L : rec[p[k]].size = past[k].size /\ past[k].size \in Nat
    BY <1>3 DEF Sized
  <1>6. TotalSize(past, 1..L) = TotalSize(rec, Kept(p, L))
    <2>1. IsFiniteSet(1..L)
      BY FS_Interval
    <2> DEFINE S == 1..L
    <2>3. /\ \A i \in S : rec[p[i]].size = past[i].size /\ past[i].size \in Nat
          /\ \A i, j \in S : p[i] = p[j] => i = j
          /\ IsFiniteSet(S) /\ IsFiniteSet({p[i] : i \in S})
      BY <1>1, <1>4, <1>5, <2>1 DEF Kept
    <2> HIDE DEF S
    <2>4. TotalSize(past, S) = TotalSize(rec, {p[i] : i \in S})
      BY <2>3, TotalOfImage
    <2> QED  BY <2>4 DEF Kept, S
  <1>7. Sized(rec, Kept(p, L)) /\ Sized(rec, LastMinute(rec, mine))
    BY <1>1 DEF Sized
  <1>8. /\ TotalSize(rec, LastMinute(rec, mine)) <= TotalSize(rec, Kept(p, L))
        /\ TotalSize(rec, Kept(p, L)) \in Nat
    BY <1>1, <1>7, TotalOfPart, TotalTypes
  <1>9. TotalSize(rec, LastMinute(rec, mine)) \in Nat
    BY <1>1, <1>7, FS_Subset, TotalTypes
  <1>10. VolumeOf(past) = TotalSize(rec, Kept(p, L))
    BY <1>2, <1>6 DEF VolumeOf
  <1> QED  BY <1>1, <1>8, <1>9, <1>10

\* No session, no entry.
LEMMA NothingMirrors ==
  ASSUME NEW rec, NEW p, NEW fields
  PROVE  Mirrors(<<>>, 0, rec, {}, p, fields)
  <1>1. <<>> \in Seq([fields -> Nat]) /\ Len(<<>>) = 0 /\ 1..0 = {}
    BY EmptySeq
  <1> QED  BY <1>1 DEF Mirrors

----------------------------------------------------------------------------
(* The analyzer. *)

Known == [first : Nat, count : Nat \ {0}]
IsAnalyzer(an) ==
    /\ DOMAIN an = DOMAIN Fresh
    /\ \A key \in DOMAIN an.beacons :
          an.beacons[key] \in Seq(Times) /\ Len(an.beacons[key]) \in 1..BeaconKept
    /\ \A key \in DOMAIN an.seen : an.seen[key] \in Known
    /\ \A key \in DOMAIN an.failures : an.failures[key] \in Seq(Visits)

\* What an encoded message, or one that goes out, makes of its history.
EncodedAfter(an, r) ==
    Put(an.encoded, EncodedKey(r),
        Pruned(Append(At(an.encoded, EncodedKey(r)), [time |-> r.time]), r.time, Minute))
VolumeAfter(an, r) == Pruned(Append(an.volume, [time |-> r.time, size |-> r.size]), r.time, Minute)
SameCounts(an, bn) == an.volume = bn.volume /\ an.encoded = bn.encoded

\* One that differs in other parts only.
LEMMA OtherParts ==
  ASSUME NEW an, IsAnalyzer(an), NEW new, DOMAIN new = DOMAIN an,
         new.beacons = an.beacons, new.seen = an.seen, new.failures = an.failures
  PROVE  IsAnalyzer(new)
  BY DEF IsAnalyzer

\* The parts of an analyzer.
LEMMA Parts == DOMAIN Fresh = {"seen", "beacons", "failures", "destinations", "encoded", "volume"}
  BY DEF Fresh

\* At the start there are no histories.
LEMMA FreshIsAnalyzer == IsAnalyzer(Fresh)
  BY DEF IsAnalyzer, Fresh, NoFunction

\* Encoded uploads, the volume and the destinations have histories of their own.
LEMMA RecordEncodedKeeps ==
  ASSUME NEW an, IsAnalyzer(an), NEW r
  PROVE  /\ IsAnalyzer(RecordEncoded(an, r)) /\ RecordEncoded(an, r).failures = an.failures
         /\ RecordEncoded(an, r).encoded = EncodedAfter(an, r)
         /\ RecordEncoded(an, r).volume = an.volume
  <1> DEFINE new == EncodedAfter(an, r)
  <1>1. RecordEncoded(an, r) = [an EXCEPT !.encoded = new]
    BY DEF RecordEncoded, EncodedAfter, EncodedKey
  <1> HIDE DEF new
  <1> DEFINE after == [an EXCEPT !.encoded = new]
  <1>2. /\ DOMAIN after = DOMAIN an /\ after.beacons = an.beacons
        /\ after.seen = an.seen /\ after.failures = an.failures
        /\ after.encoded = new /\ after.volume = an.volume
    BY Parts DEF IsAnalyzer
  <1> HIDE DEF after
  <1>3. IsAnalyzer(after)
    BY <1>2, OtherParts
  <1> QED  BY <1>1, <1>2, <1>3 DEF after, new

\* The volume likewise.
LEMMA RecordOutboundKeeps ==
  ASSUME NEW an, IsAnalyzer(an), NEW r
  PROVE  /\ IsAnalyzer(RecordOutbound(an, r)) /\ RecordOutbound(an, r).failures = an.failures
         /\ RecordOutbound(an, r).volume = VolumeAfter(an, r)
         /\ RecordOutbound(an, r).encoded = an.encoded
  <1> DEFINE new == VolumeAfter(an, r)
  <1>1. RecordOutbound(an, r) = [an EXCEPT !.volume = new]
    BY DEF RecordOutbound, VolumeAfter
  <1> HIDE DEF new
  <1> DEFINE after == [an EXCEPT !.volume = new]
  <1>2. /\ DOMAIN after = DOMAIN an /\ after.beacons = an.beacons
        /\ after.seen = an.seen /\ after.failures = an.failures
        /\ after.volume = new /\ after.encoded = an.encoded
    BY Parts DEF IsAnalyzer
  <1> HIDE DEF after
  <1>3. IsAnalyzer(after)
    BY <1>2, OtherParts
  <1> QED  BY <1>1, <1>2, <1>3 DEF after, new

\* The destinations likewise.
LEMMA RecordDestinationKeeps ==
  ASSUME NEW an, IsAnalyzer(an), NEW r
  PROVE  /\ IsAnalyzer(RecordDestination(an, r)) /\ RecordDestination(an, r).failures = an.failures
         /\ SameCounts(RecordDestination(an, r), an)
  <1> DEFINE visit == [time |-> r.time, host |-> r.host, suspicious |-> r.rawIp \/ r.random]
             new == Put(an.destinations, StableIdentity(r),
                        Pruned(Append(At(an.destinations, StableIdentity(r)), visit), r.time, Minute))
  <1>1. RecordDestination(an, r) = IF StableIdentity(r) = None THEN an
                                   ELSE [an EXCEPT !.destinations = new]
    BY DEF RecordDestination
  <1> HIDE DEF new
  <1> DEFINE after == [an EXCEPT !.destinations = new]
  <1>2. /\ DOMAIN after = DOMAIN an /\ after.beacons = an.beacons
        /\ after.seen = an.seen /\ after.failures = an.failures /\ SameCounts(after, an)
    BY Parts DEF IsAnalyzer, SameCounts
  <1> HIDE DEF after
  <1>3. IsAnalyzer(after)
    BY <1>2, OtherParts
  <1>4. SameCounts(an, an)
    BY DEF SameCounts
  <1> QED  BY <1>1, <1>2, <1>3, <1>4 DEF after

\* A stream keeps its last few times.
LEMMA RecordBeaconKeeps ==
  ASSUME NEW an, IsAnalyzer(an), NEW r, r.time \in Nat
  PROVE  /\ IsAnalyzer(RecordBeacon(an, r)) /\ RecordBeacon(an, r).failures = an.failures
         /\ SameCounts(RecordBeacon(an, r), an)
  <1> DEFINE past == Append(At(an.beacons, Stream(r)), [time |-> r.time])
             kept == LastOf(past, BeaconKept)
             new == Put(an.beacons, Stream(r), kept)
             after == RecordBeacon(an, r)
  <1>1. At(an.beacons, Stream(r)) \in Seq(Times) /\ [time |-> r.time] \in Times
    BY EmptySeq DEF At, IsAnalyzer, Times
  <1>2. past \in Seq(Times) /\ Len(past) > 0
    BY <1>1, AppendProperties, LenProperties
  <1>3. BeaconKept \in Nat /\ BeaconKept > 0
    BY ThresholdsAssumption
  <1> HIDE DEF past
  <1>4. kept \in Seq(Times) /\ Len(kept) \in 1..BeaconKept
    BY <1>2, <1>3, LastEntries
  <1>5. after = [an EXCEPT !.beacons = new]
    BY DEF RecordBeacon, past
  <1> HIDE DEF kept, new, after
  <1>6. /\ DOMAIN after = DOMAIN an /\ after.beacons = new
        /\ after.seen = an.seen /\ after.failures = an.failures /\ SameCounts(after, an)
    BY <1>5, Parts DEF IsAnalyzer, SameCounts
  <1>7. \A key \in DOMAIN new : new[key] \in Seq(Times) /\ Len(new[key]) \in 1..BeaconKept
    BY <1>4 DEF new, Put, IsAnalyzer
  <1>8. IsAnalyzer(after)
    BY <1>6, <1>7 DEF IsAnalyzer
  <1> QED  BY <1>6, <1>8 DEF after

\* The number of visits goes up.
LEMMA RecordSeenKeeps ==
  ASSUME NEW an, IsAnalyzer(an), NEW r, r.time \in Nat, NEW key
  PROVE  /\ IsAnalyzer(RecordSeen(an, r, key)) /\ RecordSeen(an, r, key).failures = an.failures
         /\ SameCounts(RecordSeen(an, r, key), an)
  <1> DEFINE old == IF key \in DOMAIN an.seen THEN an.seen[key] ELSE [first |-> r.time, count |-> 0]
             new == Put(an.seen, key, [old EXCEPT !.count = @ + 1])
             after == RecordSeen(an, r, key)
  <1>1. old \in [first : Nat, count : Nat]
    BY DEF IsAnalyzer, Known
  <1>2. [old EXCEPT !.count = @ + 1] \in Known
    <2> HIDE DEF old
    <2> QED  BY <1>1 DEF Known
  <1>3. after = [an EXCEPT !.seen = new]
    BY DEF RecordSeen
  <1> HIDE DEF old, after
  <1>4. \A k \in DOMAIN new : new[k] \in Known
    BY <1>2 DEF Put, IsAnalyzer
  <1> HIDE DEF new
  <1>5. /\ DOMAIN after = DOMAIN an /\ after.seen = new
        /\ after.beacons = an.beacons /\ after.failures = an.failures /\ SameCounts(after, an)
    BY <1>3, Parts DEF IsAnalyzer, SameCounts
  <1>6. IsAnalyzer(after)
    BY <1>5, <1>4 DEF IsAnalyzer
  <1> QED  BY <1>5, <1>6 DEF after

\* What AnalyzeFailover leaves of the failures of a process.
FailuresLeft(an, r) ==
    IF r.failed THEN Append(FailuresOf(an, r), [time |-> r.time, host |-> r.host])
    ELSE IF FellBack(an, r) THEN <<>> ELSE FailuresOf(an, r)

\* The failures of a process, pruned, and those elsewhere among them.
LEMMA FailuresFacts ==
  ASSUME NEW an, IsAnalyzer(an), NEW r, r.time \in Nat, r.host \in Hosts
  PROVE  /\ FailuresOf(an, r) \in Seq(Visits) /\ FailuresLeft(an, r) \in Seq(Visits)
         /\ At(an.failures, StableIdentity(r)) \in Seq(Visits)
         /\ Len(FailuresOf(an, r)) <= Len(At(an.failures, StableIdentity(r)))
         /\ Cardinality(Elsewhere(an, r)) <= Len(FailuresOf(an, r))
         /\ Cardinality(Elsewhere(an, r)) \in Nat
  <1>1. At(an.failures, StableIdentity(r)) \in Seq(Visits)
    BY EmptySeq DEF At, IsAnalyzer
  <1>2. /\ FailuresOf(an, r) \in Seq(Visits)
        /\ Len(FailuresOf(an, r)) <= Len(At(an.failures, StableIdentity(r)))
    BY <1>1, PrunedHistory DEF FailuresOf
  <1>3. [time |-> r.time, host |-> r.host] \in Visits
    BY DEF Visits
  <1>4. FailuresLeft(an, r) \in Seq(Visits)
    BY <1>2, <1>3, AppendProperties, EmptySeq DEF FailuresLeft
  <1>5. DOMAIN FailuresOf(an, r) = 1..Len(FailuresOf(an, r)) /\ Len(FailuresOf(an, r)) \in Nat
    BY <1>2, LenProperties
  <1>6. IsFiniteSet(DOMAIN FailuresOf(an, r))
        /\ Cardinality(DOMAIN FailuresOf(an, r)) = Len(FailuresOf(an, r))
    <2>1. ASSUME NEW n \in Nat
          PROVE  IsFiniteSet(1..n) /\ Cardinality(1..n) = n
      <3>1. IsFiniteSet(1..n) /\ Cardinality(1..n) = IF 1 > n THEN 0 ELSE n - 1 + 1
        BY FS_Interval
      <3> QED  BY <3>1
    <2> QED  BY <1>5, <2>1
  <1>7. Elsewhere(an, r) \in SUBSET DOMAIN FailuresOf(an, r)
    BY DEF Elsewhere
  <1> QED  BY <1>1, <1>2, <1>4, <1>6, <1>7, FS_Subset, FS_CardinalityType

\* The failures of other processes stay.
LEMMA AnalyzeFailoverKeeps ==
  ASSUME NEW an, IsAnalyzer(an), NEW r, r.time \in Nat, r.host \in Hosts
  PROVE  /\ IsAnalyzer(AnalyzeFailover(an, r)) /\ SameCounts(AnalyzeFailover(an, r), an)
         /\ AnalyzeFailover(an, r).failures =
              IF StableIdentity(r) = None THEN an.failures
              ELSE Put(an.failures, StableIdentity(r), FailuresLeft(an, r))
  <1> DEFINE new == Put(an.failures, StableIdentity(r), FailuresLeft(an, r))
             after == AnalyzeFailover(an, r)
  <1>1. CASE StableIdentity(r) = None
    BY <1>1 DEF AnalyzeFailover, SameCounts
  <1>2. CASE StableIdentity(r) # None
    <2>1. after = [an EXCEPT !.failures = new]
      BY <1>2 DEF AnalyzeFailover, FailuresLeft
    <2>2. \A key \in DOMAIN new : new[key] \in Seq(Visits)
      BY FailuresFacts DEF Put, IsAnalyzer
    <2> HIDE DEF new, after
    <2>3. /\ DOMAIN after = DOMAIN an /\ after.failures = new
          /\ after.beacons = an.beacons /\ after.seen = an.seen /\ SameCounts(after, an)
      BY <2>1, Parts DEF IsAnalyzer, SameCounts
    <2>4. IsAnalyzer(after)
      BY <2>2, <2>3 DEF IsAnalyzer
    <2> QED  BY <2>3, <2>4, <1>2 DEF new, after
  <1> QED  BY <1>1, <1>2

\* The failures alone decide about a fallback.
LEMMA SameFailures ==
  ASSUME NEW an, NEW bn, an.failures = bn.failures, NEW r
  PROVE  FailuresLeft(an, r) = FailuresLeft(bn, r)
  BY DEF FailuresLeft, FellBack, Elsewhere, FailuresOf

\* The histories of what went out and of what was encoded, after a session.
CountedAfter(new, an, r) ==
    /\ new.volume = IF Outbound(r) THEN VolumeAfter(an, r) ELSE an.volume
    /\ new.encoded = IF CountsAsEncoded(r) THEN EncodedAfter(an, r) ELSE an.encoded

\* A request changes the failures of its process only.
LEMMA AfterHttpKeeps ==
  ASSUME NEW an, IsAnalyzer(an), NEW r, r.time \in Nat, r.host \in Hosts
  PROVE  /\ IsAnalyzer(AfterHttp(an, r))
         /\ AfterHttp(an, r).failures =
              IF StableIdentity(r) = None THEN an.failures
              ELSE Put(an.failures, StableIdentity(r), FailuresLeft(an, r))
         /\ r.kind = "http" => CountedAfter(AfterHttp(an, r), an, r)
  <1> DEFINE encoded == IF IsUpload(r) /\ r.size > 0 /\ r.encoded THEN RecordEncoded(an, r) ELSE an
             out == IF r.size > 0 THEN RecordOutbound(encoded, r) ELSE encoded
             known == RecordSeen(out, r, HostKey(r))
             seen == RecordBeacon(known, r)
             failed == AnalyzeFailover(seen, r)
  <1>1. /\ IsAnalyzer(encoded) /\ encoded.failures = an.failures /\ encoded.volume = an.volume
        /\ r.kind = "http" =>
              encoded.encoded = IF CountsAsEncoded(r) THEN EncodedAfter(an, r) ELSE an.encoded
    BY RecordEncodedKeeps DEF CountsAsEncoded
  <1> HIDE DEF encoded
  <1>2. /\ IsAnalyzer(out) /\ out.failures = an.failures
        /\ r.kind = "http" => CountedAfter(out, an, r)
    BY <1>1, RecordOutboundKeeps DEF CountedAfter, Outbound, VolumeAfter
  <1> HIDE DEF out
  <1>3. IsAnalyzer(known) /\ known.failures = an.failures /\ SameCounts(known, out)
    BY <1>2, RecordSeenKeeps
  <1> HIDE DEF known
  <1>4. IsAnalyzer(seen) /\ seen.failures = an.failures /\ SameCounts(seen, known)
    BY <1>3, RecordBeaconKeeps
  <1> HIDE DEF seen
  <1>5. /\ IsAnalyzer(failed) /\ SameCounts(failed, seen)
        /\ failed.failures = IF StableIdentity(r) = None THEN an.failures
                             ELSE Put(an.failures, StableIdentity(r), FailuresLeft(an, r))
    BY <1>4, AnalyzeFailoverKeeps, SameFailures
  <1> HIDE DEF failed
  <1>6. /\ IsAnalyzer(RecordDestination(failed, r))
        /\ RecordDestination(failed, r).failures = failed.failures
        /\ SameCounts(RecordDestination(failed, r), failed)
    BY <1>5, RecordDestinationKeeps
  <1>7. AfterHttp(an, r) = RecordDestination(failed, r)
    BY Zenon DEF AfterHttp, failed, seen, known, out, encoded
  <1>8. r.kind = "http" => CountedAfter(AfterHttp(an, r), an, r)
    BY <1>2, <1>3, <1>4, <1>5, <1>6, <1>7 DEF CountedAfter, SameCounts
  <1> QED  BY <1>5, <1>6, <1>7, <1>8

\* A message changes no failures.
LEMMA AfterWebSocketKeeps ==
  ASSUME NEW an, IsAnalyzer(an), NEW r, r.time \in Nat
  PROVE  /\ IsAnalyzer(AfterWebSocket(an, r)) /\ AfterWebSocket(an, r).failures = an.failures
         /\ r.kind = "ws" => CountedAfter(AfterWebSocket(an, r), an, r)
  <1> DEFINE seen == RecordSeen(an, r, SocketKey(r))
             encoded == IF SocketEncoded(r) /\ r.size > 0 THEN RecordEncoded(seen, r) ELSE seen
             out == IF r.method = "out" THEN RecordOutbound(encoded, r) ELSE encoded
  <1>1. IsAnalyzer(seen) /\ seen.failures = an.failures /\ SameCounts(seen, an)
    BY RecordSeenKeeps
  <1> HIDE DEF seen
  <1>2. /\ IsAnalyzer(encoded) /\ encoded.failures = an.failures /\ encoded.volume = an.volume
        /\ r.kind = "ws" =>
              encoded.encoded = IF CountsAsEncoded(r) THEN EncodedAfter(an, r) ELSE an.encoded
    BY <1>1, RecordEncodedKeeps DEF CountsAsEncoded, SocketEncoded, EncodedAfter, SameCounts
  <1> HIDE DEF encoded
  <1>3. /\ IsAnalyzer(out) /\ out.failures = an.failures
        /\ r.kind = "ws" => CountedAfter(out, an, r)
    BY <1>2, RecordOutboundKeeps DEF CountedAfter, Outbound, VolumeAfter
  <1> HIDE DEF out
  <1>4. /\ IsAnalyzer(RecordBeacon(out, r)) /\ RecordBeacon(out, r).failures = an.failures
        /\ SameCounts(RecordBeacon(out, r), out)
    BY <1>3, RecordBeaconKeeps
  <1>5. AfterWebSocket(an, r) = RecordBeacon(out, r)
    BY Zenon DEF AfterWebSocket, out, encoded, seen
  <1>6. r.kind = "ws" => CountedAfter(AfterWebSocket(an, r), an, r)
    BY <1>3, <1>4, <1>5 DEF CountedAfter, SameCounts
  <1> QED  BY <1>4, <1>5, <1>6

----------------------------------------------------------------------------
(* The inductive invariant. *)

LearnInv == \A t \in learned : t \in Traffic /\ Holds(baseline, t)

\* The messages that asked in a conversation under a number, and those that answered it.
Asked(key, n) ==
    {j \in DOMAIN arrived : /\ arrived[j].session.kind = "ws" /\ arrived[j].session.method = "out"
                            /\ arrived[j].session.number = n
                            /\ Conversation(arrived[j].session) = key}
Answers(key, n) ==
    {j \in DOMAIN arrived : arrived[j].reply = n /\ Conversation(arrived[j].session) = key}
Waits(key, n) == key \in DOMAIN pending /\ pending[key] = n

\* For each answer there is a question, and one more while a question waits.
PairInv ==
    \A key, n : n # 0 =>
        Cardinality(Answers(key, n)) + (IF Waits(key, n) THEN 1 ELSE 0) <= Cardinality(Asked(key, n))

\* The failures looked at, and the fallbacks reported.
Failures(key) ==
    {i \in DOMAIN recorded : /\ recorded[i].kind = "http" /\ recorded[i].failed
                             /\ StableIdentity(recorded[i]) = key}
Reported(key) == IF key \in DOMAIN fallbacks THEN fallbacks[key] ELSE 0

\* Failures are those that fallbacks were reported for, and those kept.
BlameInv ==
    \A key : /\ Reported(key) \in Nat
             /\ Fallback * Reported(key) + Len(At(analyzer.failures, key)) <= Cardinality(Failures(key))

Sessions == {[s[1] EXCEPT !.time = s[2], !.number = s[3]] : s \in Traffic \X Nat \X Nat}
Arrivals == [session : Sessions, reply : Nat]

SentInv == \A r \in sent : r \in Sessions /\ r.time \in 0..clock /\ r.number \in Nat \ {0}

TypeInv ==
    /\ clock \in 0..MaxTime /\ numbered \in Nat /\ left \in [{"sessions", "clicks"} -> Nat]
    /\ IsAnalyzer(analyzer) /\ IsBaseline(baseline)
    /\ \A key \in DOMAIN pending : pending[key] \in Nat \ {0}
    /\ learning \in BOOLEAN /\ detecting \in BOOLEAN
    /\ \A host \in DOMAIN dossiers : dossiers[host] \in [sessions : Nat, warnings : Nat]
    /\ arrived \in Seq(Arrivals) /\ recorded \in Seq(Sessions)

\* The sessions that went out, and the encoded ones of a process and host.
OutOf(rec) == {i \in DOMAIN rec : Outbound(rec[i])}
EncodedOf(rec, key) == {i \in DOMAIN rec : CountsAsEncoded(rec[i]) /\ EncodedKey(rec[i]) = key}

Mirrored(past, rec, mine, fields) == \E L, p : Mirrors(past, L, rec, mine, p, fields)

\* The histories that are counted mirror the sessions looked at.
CountsMirrored(an, rec) ==
    /\ Mirrored(an.volume, rec, OutOf(rec), {"time", "size"})
    /\ \A key : Mirrored(At(an.encoded, key), rec, EncodedOf(rec, key), {"time"})
CountsInv == CountsMirrored(analyzer, recorded)

IInv == TypeInv /\ SentInv /\ LearnInv /\ PairInv /\ BlameInv /\ CountsInv

\* Sessions with a time and a number are sessions.
LEMMA SessionsAreSessions ==
  ASSUME NEW r \in Sessions
  PROVE  IsSession(r) /\ r.host \in Hosts
  <1>1. PICK s \in Traffic \X Nat \X Nat : r = [s[1] EXCEPT !.time = s[2], !.number = s[3]]
    BY DEF Sessions
  <1>2. s[1] \in Traffic /\ s[2] \in Nat
    OBVIOUS
  <1>5. IsSession(r)
    BY <1>1, <1>2, Stamped
  <1>3. Template(r)["host"] = r["host"]
    BY <1>5, TemplateParts, HasFields
  <1>4. Template(r).host \in Hosts
    BY <1>5 DEF IsSession, Hosts
  <1> QED  BY <1>5, <1>3, <1>4

\* What appending does to positions.
LEMMA Appended ==
  ASSUME NEW S, NEW s \in Seq(S), NEW e \in S
  PROVE  LET m == Len(s) + 1
         IN /\ Append(s, e) \in Seq(S) /\ DOMAIN Append(s, e) = DOMAIN s \cup {m}
            /\ m \notin DOMAIN s /\ Append(s, e)[m] = e
            /\ \A i \in DOMAIN s : Append(s, e)[i] = s[i]
  <1>1. Len(s) \in Nat /\ DOMAIN s = 1..Len(s)
    BY LenProperties
  <1>2. /\ Append(s, e) \in Seq(S) /\ Len(Append(s, e)) = Len(s) + 1
        /\ \A i \in 1..Len(s) : Append(s, e)[i] = s[i]
        /\ Append(s, e)[Len(s) + 1] = e
    BY AppendProperties
  <1>3. DOMAIN Append(s, e) = 1..Len(s) + 1
    BY <1>2, LenProperties
  <1>4. 1..Len(s) + 1 = (1..Len(s)) \cup {Len(s) + 1} /\ Len(s) + 1 \notin 1..Len(s)
    BY <1>1
  <1> QED  BY <1>1, <1>2, <1>3, <1>4

\* Positions of a sequence can be counted.
LEMMA Positions ==
  ASSUME NEW S, NEW s \in Seq(S), NEW T \in SUBSET DOMAIN s
  PROVE  IsFiniteSet(T) /\ Cardinality(T) \in Nat
  <1>1. DOMAIN s = 1..Len(s) /\ Len(s) \in Nat
    BY LenProperties
  <1>2. IsFiniteSet(DOMAIN s)
    BY <1>1, FS_Interval
  <1> QED  BY <1>2, FS_Subset, FS_CardinalityType

\* Both handlers: what is observed is held, and all that was held before still is.
LEMMA RecordStep ==
  ASSUME TypeInv, LearnInv, NEW r \in Sessions, NEW findings, Record(r, findings)
  PROVE  /\ IsBaseline(baseline') /\ LearnInv'
         /\ \A host \in DOMAIN dossiers' : dossiers'[host] \in [sessions : Nat, warnings : Nat]
  <1>1. IsSession(r) /\ r.size \in Nat /\ Template(r) \in Traffic
    BY SessionsAreSessions, SessionFacts DEF IsSession
  <1>2. ASSUME learning
        PROVE  IsBaseline(baseline') /\ LearnInv'
    <2>1. baseline' = Observe(baseline, r) /\ learned' = learned \cup {Template(r)}
      BY <1>2 DEF Record
    <2>2. /\ IsBaseline(baseline') /\ Holds(baseline', r)
          /\ \A t : t.size \in Nat /\ Holds(baseline, t) => Holds(baseline', t)
      BY <2>1, <1>1, Observed DEF TypeInv
    <2>3. Holds(baseline', Template(r))
      BY <2>2, <1>1, TemplateHolds
    <2>4. \A t \in learned : t \in Traffic /\ Holds(baseline', t)
      BY <2>2, InvestigationAssumption DEF LearnInv
    <2> QED  BY <2>1, <2>2, <2>3, <2>4, <1>1 DEF LearnInv
  <1>3. ASSUME ~learning
        PROVE  IsBaseline(baseline') /\ LearnInv'
    <2>1. baseline' = baseline /\ learned' = learned
      BY <1>3 DEF Record
    <2> QED  BY <2>1 DEF TypeInv, LearnInv
  <1>4. \A host \in DOMAIN dossiers' : dossiers'[host] \in [sessions : Nat, warnings : Nat]
    <2> DEFINE old == IF r.host \in DOMAIN dossiers THEN dossiers[r.host]
                      ELSE [sessions |-> 0, warnings |-> 0]
               warned == IF IsWarning(findings) THEN 1 ELSE 0
               new == [sessions |-> old.sessions + 1, warnings |-> old.warnings + warned]
    <2>1. old \in [sessions : Nat, warnings : Nat] /\ warned \in Nat
      BY DEF TypeInv
    <2>2. dossiers' = Put(dossiers, r.host, new)
      BY DEF Record
    <2> HIDE DEF old, warned
    <2>3. new \in [sessions : Nat, warnings : Nat]
      BY <2>1
    <2> HIDE DEF new
    <2> QED  BY <2>2, <2>3 DEF Put, TypeInv
  <1> QED  BY <1>2, <1>3, <1>4

\* A request that arrives asks and answers nothing.
LEMMA ExchangePairs ==
  ASSUME TypeInv, PairInv, NEW r \in Sessions, r.kind = "http",
         arrived' = Append(arrived, [session |-> r, reply |-> 0]), pending' = pending
  PROVE  PairInv' /\ arrived' \in Seq(Arrivals)
  <1> DEFINE e == [session |-> r, reply |-> 0]
             m == Len(arrived) + 1
  <1>1. /\ e \in Arrivals /\ arrived \in Seq(Arrivals)
    BY DEF Arrivals, TypeInv
  <1>2. e.session = r /\ e.reply = 0
    OBVIOUS
  <1> HIDE DEF e
  <1>3. /\ arrived' \in Seq(Arrivals) /\ DOMAIN arrived' = DOMAIN arrived \cup {m}
        /\ arrived'[m] = e /\ \A i \in DOMAIN arrived : arrived'[i] = arrived[i]
    BY <1>1, Appended DEF e
  <1> HIDE DEF m
  <1>4. ASSUME NEW key, NEW n, n # 0
        PROVE  /\ Cardinality(Answers(key, n)') + (IF Waits(key, n)' THEN 1 ELSE 0)
                     <= Cardinality(Asked(key, n)')
    <2>1. Answers(key, n)' = Answers(key, n)
      BY <1>2, <1>3, <1>4 DEF Answers
    <2>2. Asked(key, n)' = Asked(key, n)
      BY <1>2, <1>3 DEF Asked
    <2> QED  BY <2>1, <2>2, <1>4 DEF PairInv, Waits
  <1> QED  BY <1>3, <1>4 DEF PairInv

\* A message that arrives asks, or answers the one that waits, which then waits no more.
LEMMA MessagePairs ==
  ASSUME TypeInv, PairInv, NEW r \in Sessions, r.kind = "ws",
         arrived' = Append(arrived, [session |-> r, reply |-> ReplyOf(r)]),
         pending' = PendingAfter(r)
  PROVE  PairInv' /\ arrived' \in Seq(Arrivals)
  <1> DEFINE reply == ReplyOf(r)
             e == [session |-> r, reply |-> reply]
             m == Len(arrived) + 1
  <1>1. reply \in Nat
    BY DEF ReplyOf, TypeInv
  <1> HIDE DEF reply
  <1>2. e \in Arrivals /\ arrived \in Seq(Arrivals) /\ e.session = r /\ e.reply = reply
    BY <1>1 DEF Arrivals, TypeInv
  <1> HIDE DEF e
  <1>3. /\ arrived' \in Seq(Arrivals) /\ DOMAIN arrived' = DOMAIN arrived \cup {m}
        /\ m \notin DOMAIN arrived
        /\ arrived'[m] = e /\ \A i \in DOMAIN arrived : arrived'[i] = arrived[i]
    BY <1>2, Appended DEF e, reply
  <1> HIDE DEF m
  <1>4. ASSUME NEW key, NEW n, n # 0
        PROVE  Cardinality(Answers(key, n)') + (IF Waits(key, n)' THEN 1 ELSE 0)
                   <= Cardinality(Asked(key, n)')
    <2> DEFINE answers == reply = n /\ Conversation(r) = key
               asks == r.method = "out" /\ r.number = n /\ Conversation(r) = key
    <2>1. Answers(key, n)' = Answers(key, n) \cup (IF answers THEN {m} ELSE {})
      BY <1>2, <1>3 DEF Answers
    <2>2. Asked(key, n)' = Asked(key, n) \cup (IF asks THEN {m} ELSE {})
      BY <1>2, <1>3 DEF Asked
    <2>3. /\ IsFiniteSet(Answers(key, n)) /\ Cardinality(Answers(key, n)) \in Nat
          /\ IsFiniteSet(Asked(key, n)) /\ Cardinality(Asked(key, n)) \in Nat
          /\ m \notin Answers(key, n) /\ m \notin Asked(key, n)
      BY <1>2, <1>3, Positions DEF Answers, Asked
    <2>4. /\ Cardinality(Answers(key, n)') = Cardinality(Answers(key, n)) + (IF answers THEN 1 ELSE 0)
          /\ Cardinality(Asked(key, n)') = Cardinality(Asked(key, n)) + (IF asks THEN 1 ELSE 0)
      <3> HIDE DEF answers, asks
      <3>1. /\ Cardinality(Answers(key, n) \cup {m}) = Cardinality(Answers(key, n)) + 1
            /\ Cardinality(Asked(key, n) \cup {m}) = Cardinality(Asked(key, n)) + 1
        BY <2>3, FS_AddElement
      <3>4. Cardinality(Asked(key, n)') = Cardinality(Asked(key, n)) + (IF asks THEN 1 ELSE 0)
        <4>1. CASE asks
          BY <2>2, <3>1, <4>1
        <4>2. CASE ~asks
          BY <2>2, <2>3, <4>2
        <4> QED  BY <4>1, <4>2
      <3>2. CASE answers
        <4>1. Cardinality(Answers(key, n)') = Cardinality(Answers(key, n)) + 1
          BY <2>1, <3>1, <3>2
        <4> QED  BY <4>1, <3>4, <3>2
      <3>3. CASE ~answers
        <4>1. Cardinality(Answers(key, n)') = Cardinality(Answers(key, n))
          BY <2>1, <3>3
        <4> QED  BY <4>1, <3>4, <2>3, <3>3
      <3> QED  BY <3>2, <3>3
    <2>5. Cardinality(Answers(key, n)) + (IF Waits(key, n) THEN 1 ELSE 0) <= Cardinality(Asked(key, n))
      BY <1>4 DEF PairInv
    <2>6. answers => Waits(key, n) /\ ~Waits(key, n)'
      BY <1>4 DEF reply, ReplyOf, PendingAfter, Waits
    <2>7. ~answers /\ Waits(key, n)' => Waits(key, n) \/ asks
      BY DEF PendingAfter, Waits, Put
    <2>8. Waits(key, n)' /\ ~asks => Waits(key, n)
      BY DEF PendingAfter, Waits, Put
    <2>9. asks => ~answers
      BY <1>4 DEF reply, ReplyOf
    <2> HIDE DEF answers, asks
    <2> QED  BY <2>3, <2>4, <2>5, <2>6, <2>7, <2>8, <2>9
  <1> QED  BY <1>3, <1>4 DEF PairInv

\* A request moves failures from those kept to those a fallback was reported for.
LEMMA ExchangeBlame ==
  ASSUME TypeInv, BlameInv, NEW r \in Sessions, r.kind = "http",
         recorded' = Append(recorded, r), analyzer' = AfterHttp(analyzer, r),
         fallbacks' = IF StableIdentity(r) # None /\ FellBack(analyzer, r)
                      THEN Put(fallbacks, StableIdentity(r), 1 + Reported(StableIdentity(r)))
                      ELSE fallbacks
  PROVE  BlameInv'
  <1> DEFINE id == StableIdentity(r)
             m == Len(recorded) + 1
  <1>1. r.time \in Nat /\ r.host \in Hosts
    BY SessionsAreSessions DEF IsSession
  <1>2. IsAnalyzer(analyzer) /\ recorded \in Seq(Sessions)
    BY DEF TypeInv
  <1>3. /\ DOMAIN recorded' = DOMAIN recorded \cup {m} /\ m \notin DOMAIN recorded
        /\ recorded'[m] = r /\ \A i \in DOMAIN recorded : recorded'[i] = recorded[i]
        /\ recorded' \in Seq(Sessions)
    BY <1>2, Appended
  <1>4. analyzer'.failures = IF id = None THEN analyzer.failures
                             ELSE Put(analyzer.failures, id, FailuresLeft(analyzer, r))
    BY <1>1, <1>2, AfterHttpKeeps
  <1>5. Fallback \in Nat \ {0}
    BY ThresholdsAssumption
  <1>6. /\ FailuresOf(analyzer, r) \in Seq(Visits)
        /\ Len(FailuresOf(analyzer, r)) <= Len(At(analyzer.failures, id))
        /\ Cardinality(Elsewhere(analyzer, r)) <= Len(FailuresOf(analyzer, r))
        /\ Cardinality(Elsewhere(analyzer, r)) \in Nat
        /\ Len(FailuresOf(analyzer, r)) \in Nat
    BY <1>1, <1>2, FailuresFacts, LenProperties
  <1> HIDE DEF m
  <1>7. ASSUME NEW key
        PROVE  /\ Reported(key)' \in Nat
               /\ Fallback * Reported(key)' + Len(At(analyzer.failures, key)')
                     <= Cardinality(Failures(key)')
    <2>1. /\ Reported(key) \in Nat
          /\ Fallback * Reported(key) + Len(At(analyzer.failures, key)) <= Cardinality(Failures(key))
      BY DEF BlameInv
    <2>2. At(analyzer.failures, key) \in Seq(Visits)
      BY <1>2, EmptySeq DEF At, IsAnalyzer
    <2>3. Len(At(analyzer.failures, key)) \in Nat
      BY <2>2, LenProperties
    <2>4. /\ IsFiniteSet(Failures(key)) /\ Cardinality(Failures(key)) \in Nat
          /\ m \notin Failures(key)
      BY <1>2, <1>3, Positions DEF Failures
    <2>5. Failures(key)' = Failures(key) \cup (IF r.failed /\ id = key THEN {m} ELSE {})
      BY <1>3 DEF Failures
    <2>6. Cardinality(Failures(key)') = Cardinality(Failures(key)) + (IF r.failed /\ id = key THEN 1 ELSE 0)
      <3>1. Cardinality(Failures(key) \cup {m}) = Cardinality(Failures(key)) + 1
        BY <2>4, FS_AddElement
      <3>2. CASE r.failed /\ id = key
        BY <2>5, <3>1, <3>2
      <3>3. CASE ~(r.failed /\ id = key)
        <4>1. Failures(key)' = Failures(key)
          BY <2>5, <3>3
        <4> QED  BY <4>1, <2>4, <3>3
      <3> QED  BY <3>2, <3>3
    <2>7. CASE key # id \/ id = None
      <3>1. At(analyzer.failures, key)' = At(analyzer.failures, key)
        BY <1>4, <2>7 DEF At, Put
      <3>2. Reported(key)' = Reported(key)
        BY <2>7 DEF Reported, Put
      <3> QED  BY <3>1, <3>2, <2>1, <2>3, <2>4, <2>6, <1>5
    <2>8. CASE key = id /\ id # None
      <3>1. At(analyzer.failures, key)' = FailuresLeft(analyzer, r)
        BY <1>4, <2>8 DEF At, Put
      <3>2. CASE r.failed
        <4>1. Reported(key)' = Reported(key)
          BY <3>2 DEF FellBack, Reported
        <4>2. Len(FailuresLeft(analyzer, r)) = Len(FailuresOf(analyzer, r)) + 1
          BY <3>2, <1>1, <1>6, AppendProperties DEF FailuresLeft, Visits
        <4> QED  BY <4>1, <4>2, <3>1, <3>2, <2>1, <2>3, <2>4, <2>6, <2>8, <1>5, <1>6
      <3>3. CASE ~r.failed /\ FellBack(analyzer, r)
        <4>1. Reported(key)' = 1 + Reported(key)
          BY <3>3, <2>8 DEF Reported, Put
        <4>2. Len(FailuresLeft(analyzer, r)) = 0
          BY <3>3, EmptySeq DEF FailuresLeft
        <4>3. Fallback <= Len(At(analyzer.failures, key))
          BY <3>3, <1>5, <1>6, <2>3, <2>8 DEF FellBack
        <4>4. Fallback * (1 + Reported(key)) = Fallback + Fallback * Reported(key)
          BY <1>5, <2>1
        <4>5. Fallback * Reported(key) \in Nat
          BY <1>5, <2>1
        <4>6. Cardinality(Failures(key)') = Cardinality(Failures(key))
          BY <2>6, <2>4, <3>3
        <4> HIDE DEF id
        <4>7. Fallback * Reported(key)' + 0 <= Cardinality(Failures(key)')
          BY <4>1, <4>3, <4>4, <4>5, <4>6, <2>1, <2>3, <2>4, <1>5
        <4> QED  BY <4>1, <4>2, <4>7, <3>1, <2>1
      <3>4. CASE ~r.failed /\ ~FellBack(analyzer, r)
        <4>1. Reported(key)' = Reported(key)
          BY <3>4 DEF Reported
        <4>2. FailuresLeft(analyzer, r) = FailuresOf(analyzer, r)
          BY <3>4 DEF FailuresLeft
        <4> QED  BY <4>1, <4>2, <3>1, <3>4, <2>1, <2>3, <2>4, <2>6, <2>8, <1>5, <1>6
      <3> QED  BY <3>2, <3>3, <3>4
    <2> QED  BY <2>7, <2>8
  <1> QED  BY <1>7 DEF BlameInv

\* A message changes neither.
LEMMA MessageBlame ==
  ASSUME TypeInv, BlameInv, NEW r \in Sessions, r.kind = "ws",
         recorded' = Append(recorded, r), analyzer'.failures = analyzer.failures,
         fallbacks' = fallbacks
  PROVE  BlameInv'
  <1> DEFINE m == Len(recorded) + 1
  <1>1. recorded \in Seq(Sessions)
    BY DEF TypeInv
  <1>2. /\ DOMAIN recorded' = DOMAIN recorded \cup {m}
        /\ recorded'[m] = r /\ \A i \in DOMAIN recorded : recorded'[i] = recorded[i]
    BY <1>1, Appended
  <1> HIDE DEF m
  <1>3. ASSUME NEW key
        PROVE  /\ Failures(key)' = Failures(key) /\ Reported(key)' = Reported(key)
               /\ At(analyzer.failures, key)' = At(analyzer.failures, key)
    BY <1>2 DEF Failures, Reported, At
  <1> QED  BY <1>3 DEF BlameInv

----------------------------------------------------------------------------
(* The counts. *)

\* Nothing counted, nothing looked at.
LEMMA NothingCounted == CountsMirrored(Fresh, <<>>)
  <1>1. OutOf(<<>>) = {} /\ \A key : EncodedOf(<<>>, key) = {} /\ At(Fresh.encoded, key) = <<>>
    BY DEF OutOf, EncodedOf, At, Fresh, NoFunction
  <1>2. Fresh.volume = <<>>
    BY DEF Fresh
  <1>3. \A fields : Mirrored(<<>>, <<>>, {}, fields)
    <2> SUFFICES ASSUME NEW fields PROVE \E L, p : Mirrors(<<>>, L, <<>>, {}, p, fields)
      BY DEF Mirrored
    <2>1. Mirrors(<<>>, 0, <<>>, {}, <<>>, fields)
      BY NothingMirrors
    <2> QED  BY <2>1
  <1> QED  BY <1>1, <1>2, <1>3 DEF CountsMirrored

\* A session of another category changes nothing.
LEMMA MirrorsStay ==
  ASSUME NEW past, NEW rec, NEW mine, NEW fields, Mirrored(past, rec, mine, fields),
         NEW rec2, \A i \in mine : rec2[i] = rec[i]
  PROVE  Mirrored(past, rec2, mine, fields)
  <1>1. PICK L, p : Mirrors(past, L, rec, mine, p, fields)
    BY DEF Mirrored
  <1>2. /\ \A k \in 1..L : p[k] \in mine
        /\ (\A i, j \in mine : i < j => rec[i].time <= rec[j].time) =>
              \A k \in 1..L, j \in mine : rec[j].time - rec[p[k]].time <= Minute
        /\ \A i \in mine : \/ \E k \in 1..L : p[k] = i
                           \/ \E j \in mine : ~(rec[j].time - rec[i].time <= Minute)
    BY <1>1, Zenon DEF Mirrors
  <1>3. (\A i, j \in mine : i < j => rec2[i].time <= rec2[j].time) =>
              \A k \in 1..L, j \in mine : rec2[j].time - rec2[p[k]].time <= Minute
    <2> SUFFICES ASSUME \A i, j \in mine : i < j => rec2[i].time <= rec2[j].time,
                        NEW k \in 1..L, NEW j \in mine
                 PROVE  rec2[j].time - rec2[p[k]].time <= Minute
      OBVIOUS
    <2>1. \A i, l \in mine : i < l => rec[i].time <= rec[l].time
      OBVIOUS
    <2>2. rec[j].time - rec[p[k]].time <= Minute
      BY <1>2, <2>1
    <2> QED  BY <1>2, <2>2
  <1>4. \A i \in mine : \/ \E k \in 1..L : p[k] = i
                       \/ \E j \in mine : ~(rec2[j].time - rec2[i].time <= Minute)
    <2> SUFFICES ASSUME NEW i \in mine, ~ \E k \in 1..L : p[k] = i
                 PROVE  \E j \in mine : ~(rec2[j].time - rec2[i].time <= Minute)
      OBVIOUS
    <2>1. PICK j \in mine : ~(rec[j].time - rec[i].time <= Minute)
      BY <1>2
    <2>2. rec2[j] = rec[j] /\ rec2[i] = rec[i]
      OBVIOUS
    <2>3. ~(rec2[j].time - rec2[i].time <= Minute)
      BY <2>1, <2>2
    <2> QED  BY <2>3
  <1>5. \A k \in 1..L : p[k] \in mine /\ \A f \in fields : past[k][f] = rec2[p[k]][f]
    <2> SUFFICES ASSUME NEW k \in 1..L
                 PROVE  p[k] \in mine /\ \A f \in fields : past[k][f] = rec2[p[k]][f]
      OBVIOUS
    <2>1. p[k] \in mine /\ \A f \in fields : past[k][f] = rec[p[k]][f]
      BY <1>1 DEF Mirrors
    <2> QED  BY <2>1
  <1>6. Mirrors(past, L, rec2, mine, p, fields)
    BY <1>1, <1>3, <1>4, <1>5, Zenon DEF Mirrors
  <1> QED  BY <1>6 DEF Mirrored

\* A session is looked at: if it is of the category, its entry is appended and old ones leave.
LEMMA MirroredAfter ==
  ASSUME NEW rec \in Seq(Sessions), NEW r \in Sessions, NEW n, n = Len(rec) + 1,
         NEW mine \in SUBSET DOMAIN rec, NEW counted \in BOOLEAN,
         NEW fields \in SUBSET {"time", "size"}, "time" \in fields,
         NEW past, Mirrored(past, rec, mine, fields),
         NEW e \in [fields -> Nat], \A f \in fields : e[f] = r[f]
  PROVE  Mirrored(IF counted THEN Pruned(Append(past, e), r.time, Minute) ELSE past,
                  Append(rec, r), IF counted THEN mine \cup {n} ELSE mine, fields)
  <1>1. r.time \in Nat /\ \A i \in mine : rec[i].time \in Nat
    <2>1. \A q \in Sessions : q.time \in Nat
      BY SessionsAreSessions DEF IsSession
    <2>2. \A i \in mine : rec[i] \in Sessions
      BY ElementOfSeq, LenProperties
    <2> QED  BY <2>1, <2>2
  <1>2. \A i \in mine : Append(rec, r)[i] = rec[i]
    BY Appended
  <1>3. CASE ~counted
    BY <1>2, <1>3, MirrorsStay
  <1>4. CASE counted
    <2>1. PICK L, p : Mirrors(past, L, rec, mine, p, fields)
      BY DEF Mirrored
    <2> DEFINE rec2 == Append(rec, r)
               mine2 == mine \cup {n}
               past2 == Pruned(Append(past, e), r.time, Minute)
    <2> HIDE DEF rec2, mine2, past2
    <2>2. rec2 = Append(rec, r) /\ mine2 = mine \cup {n} /\ past2 = Pruned(Append(past, e), r.time, Minute)
      BY DEF rec2, mine2, past2
    <2>3. \E L2, p2 : Mirrors(past2, L2, rec2, mine2, p2, fields)
      BY <1>1, <2>1, <2>2, MirrorsAppended
    <2> QED  BY <1>4, <2>2, <2>3 DEF Mirrored
  <1> QED  BY <1>3, <1>4

\* What the analyzer makes of a session keeps its counts mirrors.
LEMMA CountsStep ==
  ASSUME NEW rec \in Seq(Sessions), NEW r \in Sessions, NEW an, NEW new,
         CountsMirrored(an, rec), CountedAfter(new, an, r)
  PROVE  CountsMirrored(new, Append(rec, r))
  <1> DEFINE n == Len(rec) + 1
  <1>1. /\ DOMAIN Append(rec, r) = DOMAIN rec \cup {n} /\ Append(rec, r)[n] = r
        /\ \A i \in DOMAIN rec : Append(rec, r)[i] = rec[i]
    BY Appended
  <1>2. r.time \in Nat /\ r.size \in Nat
    BY SessionsAreSessions, SessionFacts DEF IsSession
  <1>3. Mirrored(new.volume, Append(rec, r), OutOf(Append(rec, r)), {"time", "size"})
    <2> DEFINE e == [time |-> r.time, size |-> r.size]
               counted == Outbound(r) = TRUE
    <2>1. /\ e \in [{"time", "size"} -> Nat] /\ \A f \in {"time", "size"} : e[f] = r[f]
          /\ {"time", "size"} \in SUBSET {"time", "size"} /\ "time" \in {"time", "size"}
      BY <1>2
    <2>2. OutOf(rec) \in SUBSET DOMAIN rec
      BY DEF OutOf
    <2>3. Mirrored(an.volume, rec, OutOf(rec), {"time", "size"})
      BY DEF CountsMirrored
    <2>4. OutOf(Append(rec, r)) = IF counted THEN OutOf(rec) \cup {n} ELSE OutOf(rec)
      BY <1>1 DEF OutOf, Outbound
    <2>5. new.volume = IF counted THEN Pruned(Append(an.volume, e), r.time, Minute) ELSE an.volume
      BY DEF CountedAfter, VolumeAfter, Outbound
    <2>6. counted \in BOOLEAN
      OBVIOUS
    <2> HIDE DEF e, counted, n
    <2>7. Mirrored(IF counted THEN Pruned(Append(an.volume, e), r.time, Minute) ELSE an.volume,
                   Append(rec, r), IF counted THEN OutOf(rec) \cup {n} ELSE OutOf(rec), {"time", "size"})
      BY <2>1, <2>2, <2>3, <2>6, MirroredAfter DEF n
    <2> QED  BY <2>4, <2>5, <2>7
  <1>4. ASSUME NEW key
        PROVE  Mirrored(At(new.encoded, key), Append(rec, r), EncodedOf(Append(rec, r), key), {"time"})
    <2> DEFINE e == [time |-> r.time]
               counted == (CountsAsEncoded(r) /\ EncodedKey(r) = key) = TRUE
    <2>1. /\ e \in [{"time"} -> Nat] /\ \A f \in {"time"} : e[f] = r[f]
          /\ {"time"} \in SUBSET {"time", "size"} /\ "time" \in {"time"}
      BY <1>2
    <2>2. EncodedOf(rec, key) \in SUBSET DOMAIN rec
      BY DEF EncodedOf
    <2>3. Mirrored(At(an.encoded, key), rec, EncodedOf(rec, key), {"time"})
      BY DEF CountsMirrored
    <2>4. EncodedOf(Append(rec, r), key) = IF counted THEN EncodedOf(rec, key) \cup {n} ELSE EncodedOf(rec, key)
      BY <1>1 DEF EncodedOf
    <2>5. At(new.encoded, key) = IF counted THEN Pruned(Append(At(an.encoded, key), e), r.time, Minute)
                                 ELSE At(an.encoded, key)
      <3>1. CASE CountsAsEncoded(r)
        <4>1. new.encoded = Put(an.encoded, EncodedKey(r),
                  Pruned(Append(At(an.encoded, EncodedKey(r)), e), r.time, Minute))
          BY <3>1 DEF CountedAfter, EncodedAfter
        <4>2. \A f, k, v : At(Put(f, k, v), key) = IF key = k THEN v ELSE At(f, key)
          BY DEF At, Put
        <4> HIDE DEF e
        <4>3. CASE EncodedKey(r) = key
          BY <3>1, <4>1, <4>2, <4>3
        <4>4. CASE EncodedKey(r) # key
          BY <3>1, <4>1, <4>2, <4>4
        <4> QED  BY <4>3, <4>4
      <3>2. CASE ~CountsAsEncoded(r)
        BY <3>2 DEF CountedAfter
      <3> QED  BY <3>1, <3>2
    <2>6. counted \in BOOLEAN
      OBVIOUS
    <2> HIDE DEF e, counted, n
    <2>7. Mirrored(IF counted THEN Pruned(Append(At(an.encoded, key), e), r.time, Minute)
                   ELSE At(an.encoded, key),
                   Append(rec, r), IF counted THEN EncodedOf(rec, key) \cup {n} ELSE EncodedOf(rec, key),
                   {"time"})
      BY <2>1, <2>2, <2>3, <2>6, MirroredAfter DEF n
    <2> QED  BY <2>4, <2>5, <2>7
  <1> QED  BY <1>3, <1>4 DEF CountsMirrored

----------------------------------------------------------------------------
(* The actions. *)

\* Nothing has happened yet.
LEMMA InitInv == Init => IInv
  <1> SUFFICES ASSUME Init PROVE IInv
    OBVIOUS
  <1>1. TypeInv
    <2>1. analyzer = Fresh /\ DOMAIN baseline = {} /\ DOMAIN pending = {} /\ DOMAIN dossiers = {}
      BY DEF Init, NoFunction
    <2>2. clock \in 0..MaxTime /\ numbered \in Nat /\ left \in [{"sessions", "clicks"} -> Nat]
      BY InvestigationAssumption DEF Init
    <2>3. arrived \in Seq(Arrivals) /\ recorded \in Seq(Sessions)
      BY EmptySeq DEF Init
    <2> QED  BY <2>1, <2>2, <2>3, FreshIsAnalyzer DEF Init, TypeInv, IsBaseline
  <1>2. SentInv /\ LearnInv
    BY DEF Init, SentInv, LearnInv
  <1>3. PairInv
    <2>1. \A key, n : Answers(key, n) = {} /\ Asked(key, n) = {} /\ ~Waits(key, n)
      BY DEF Init, Answers, Asked, Waits, NoFunction
    <2> QED  BY <2>1, FS_EmptySet DEF PairInv
  <1>4. BlameInv
    <2>1. ASSUME NEW key
          PROVE  Failures(key) = {} /\ Reported(key) = 0 /\ At(analyzer.failures, key) = <<>>
      BY DEF Init, Failures, Reported, At, Fresh, NoFunction
    <2>2. Len(<<>>) = 0 /\ Fallback * 0 = 0 /\ Cardinality({}) = 0
      BY ThresholdsAssumption, FS_EmptySet
    <2>3. ASSUME NEW key
          PROVE  /\ Reported(key) \in Nat
                 /\ Fallback * Reported(key) + Len(At(analyzer.failures, key))
                       <= Cardinality(Failures(key))
      <3>1. /\ Reported(key) = 0 /\ Len(At(analyzer.failures, key)) = 0
            /\ Cardinality(Failures(key)) = 0
        BY <2>1, <2>2
      <3>2. Fallback * Reported(key) = 0
        BY <3>1, <2>2
      <3> QED  BY <3>1, <3>2
    <2> QED  BY <2>3 DEF BlameInv
  <1>5. CountsInv
    BY NothingCounted DEF Init, CountsInv
  <1> QED  BY <1>1, <1>2, <1>3, <1>4, <1>5 DEF IInv

\* What does not touch the history of this capture leaves its invariants.
LEMMA SameHistory ==
  ASSUME PairInv, BlameInv, CountsInv, UNCHANGED <<analyzer, pending, history>>
  PROVE  PairInv' /\ BlameInv' /\ CountsInv'
  <1>1. /\ analyzer' = analyzer /\ pending' = pending /\ arrived' = arrived
        /\ recorded' = recorded /\ fallbacks' = fallbacks
    BY DEF history
  <1>2. PairInv'
    <2>1. ASSUME NEW key, NEW n
          PROVE  Answers(key, n)' = Answers(key, n) /\ Asked(key, n)' = Asked(key, n)
      BY <1>1 DEF Answers, Asked
    <2>2. ASSUME NEW key, NEW n
          PROVE  Waits(key, n)' = Waits(key, n)
      BY <1>1 DEF Waits
    <2> QED  BY <2>1, <2>2 DEF PairInv
  <1>3. BlameInv'
    BY <1>1 DEF BlameInv, Failures, Reported, At
  <1>4. CountsInv'
    BY <1>1 DEF CountsInv
  <1> QED  BY <1>2, <1>3, <1>4

\* A task of the worker stamps a session.
LEMMA StampStep == IInv /\ Stamp => IInv'
  <1> SUFFICES ASSUME IInv, Stamp PROVE IInv'
    OBVIOUS
  <1>1. PICK r \in Traffic : sent' = sent \cup {[r EXCEPT !.time = clock', !.number = numbered']}
    BY DEF Stamp
  <1>2. /\ numbered' = numbered + 1 /\ clock' \in clock..MaxTime
        /\ left' = [left EXCEPT !["sessions"] = @ - 1] /\ left["sessions"] > 0
        /\ UNCHANGED <<analyzer, pending, baseline, learned, dossiers, learning, detecting, history>>
    BY DEF Stamp, Spend
  <1>3. /\ clock \in 0..MaxTime /\ numbered \in Nat /\ MaxTime \in Nat
        /\ left \in [{"sessions", "clicks"} -> Nat]
    BY InvestigationAssumption DEF IInv, TypeInv
  <1>4. clock' \in 0..MaxTime /\ numbered' \in Nat \ {0} /\ clock <= clock'
    BY <1>2, <1>3
  <1>5. left' \in [{"sessions", "clicks"} -> Nat]
    BY <1>2, <1>3
  <1>6. TypeInv'
    BY <1>2, <1>4, <1>5 DEF IInv, TypeInv, history
  <1>7. SentInv'
    <2> DEFINE new == [r EXCEPT !.time = clock', !.number = numbered']
    <2>1. new.time = clock' /\ new.number = numbered'
      <3>1. r = [f \in Fields |-> r[f]]
        BY InvestigationAssumption
      <3>2. DOMAIN r = Fields
        BY <3>1
      <3>3. new["time"] = clock' /\ new["number"] = numbered'
        BY <3>2, HasTime
      <3> QED  BY <3>3
    <2>2. new \in Sessions
      <3> DEFINE s == <<r, clock', numbered'>>
      <3>1. s \in Traffic \X Nat \X Nat /\ new = [s[1] EXCEPT !.time = s[2], !.number = s[3]]
        BY <1>4
      <3> HIDE DEF new, s
      <3> QED  BY <3>1 DEF Sessions
    <2> HIDE DEF new
    <2>3. \A q \in sent : q \in Sessions /\ q.time \in 0..clock' /\ q.number \in Nat \ {0}
      BY <1>3, <1>4 DEF IInv, SentInv
    <2>4. sent' = sent \cup {new}
      BY <1>1 DEF new
    <2>5. new.time \in 0..clock' /\ new.number \in Nat \ {0}
      BY <2>1, <1>4
    <2> QED  BY <2>2, <2>3, <2>4, <2>5 DEF SentInv
  <1>8. LearnInv'
    BY <1>2 DEF IInv, LearnInv
  <1>9. PairInv' /\ BlameInv' /\ CountsInv'
    BY <1>2, SameHistory DEF IInv
  <1> QED  BY <1>6, <1>7, <1>8, <1>9 DEF IInv

\* A request arrives.
LEMMA ExchangeStep == IInv /\ HandleExchange => IInv'
  <1> SUFFICES ASSUME IInv, HandleExchange PROVE IInv'
    OBVIOUS
  <1>1. PICK r \in sent, idle \in Idle :
            /\ r.kind = "http" /\ sent' = sent \ {r}
            /\ analyzer' = IF detecting THEN AfterHttp(analyzer, r) ELSE analyzer
            /\ Record(r, Detected(HttpFindings(analyzer, r, idle), r))
            /\ fallbacks' = IF detecting /\ StableIdentity(r) # None /\ FellBack(analyzer, r)
                  THEN Put(fallbacks, StableIdentity(r), 1 + Reported(StableIdentity(r)))
                  ELSE fallbacks
            /\ recorded' = Looked(r) /\ arrived' = Append(arrived, [session |-> r, reply |-> 0])
            /\ UNCHANGED <<clock, numbered, pending, learning, detecting, left>>
    BY Zenon DEF HandleExchange, Reported
  <1>2. r \in Sessions /\ TypeInv /\ LearnInv /\ PairInv /\ BlameInv /\ CountsInv /\ SentInv
    BY DEF IInv, SentInv
  <1>3. r.time \in Nat /\ r.host \in Hosts
    BY <1>2, SessionsAreSessions DEF IsSession
  <1>4. /\ IsBaseline(baseline') /\ LearnInv'
        /\ \A host \in DOMAIN dossiers' : dossiers'[host] \in [sessions : Nat, warnings : Nat]
    BY <1>1, <1>2, RecordStep
  <1>5. PairInv' /\ arrived' \in Seq(Arrivals)
    BY <1>1, <1>2, ExchangePairs
  <1>6. IsAnalyzer(analyzer')
    BY <1>1, <1>2, <1>3, AfterHttpKeeps DEF TypeInv
  <1>7. recorded' \in Seq(Sessions)
    BY <1>1, <1>2, Appended DEF TypeInv, Looked
  <1>8. TypeInv'
    BY <1>1, <1>2, <1>4, <1>5, <1>6, <1>7 DEF TypeInv
  <1>9. SentInv'
    BY <1>1, <1>2 DEF SentInv
  <1>10. BlameInv'
    <2>1. CASE detecting
      BY <1>1, <1>2, <2>1, ExchangeBlame DEF Looked
    <2>2. CASE ~detecting
      <3>1. analyzer' = analyzer /\ fallbacks' = fallbacks /\ recorded' = recorded
        BY <1>1, <2>2 DEF Looked
      <3> QED  BY <3>1, <1>2 DEF BlameInv, Failures, Reported, At
    <2> QED  BY <2>1, <2>2
  <1>11. CountsInv'
    <2>1. CASE detecting
      <3>1. analyzer' = AfterHttp(analyzer, r) /\ recorded' = Append(recorded, r)
        BY <1>1, <2>1 DEF Looked
      <3>2. CountedAfter(analyzer', analyzer, r)
        BY <1>1, <1>2, <1>3, <3>1, AfterHttpKeeps DEF TypeInv
      <3>3. CountsMirrored(analyzer', recorded')
        BY <1>2, <3>1, <3>2, CountsStep DEF TypeInv, CountsInv
      <3> QED  BY <3>3 DEF CountsInv
    <2>2. CASE ~detecting
      <3>1. analyzer' = analyzer /\ recorded' = recorded
        BY <1>1, <2>2 DEF Looked
      <3> QED  BY <3>1, <1>2 DEF CountsInv
    <2> QED  BY <2>1, <2>2
  <1> QED  BY <1>4, <1>5, <1>8, <1>9, <1>10, <1>11 DEF IInv

\* A message arrives.
LEMMA MessageStep == IInv /\ HandleWebSocket => IInv'
  <1> SUFFICES ASSUME IInv, HandleWebSocket PROVE IInv'
    OBVIOUS
  <1>1. PICK r \in sent, idle \in Idle :
            /\ r.kind = "ws" /\ sent' = sent \ {r}
            /\ pending' = PendingAfter(r)
            /\ analyzer' = IF detecting THEN AfterWebSocket(analyzer, r) ELSE analyzer
            /\ Record(r, Detected(WebSocketFindings(analyzer, r, idle), r))
            /\ recorded' = Looked(r)
            /\ arrived' = Append(arrived, [session |-> r, reply |-> ReplyOf(r)])
            /\ UNCHANGED <<clock, numbered, fallbacks, learning, detecting, left>>
    BY Zenon DEF HandleWebSocket
  <1>2. /\ r \in Sessions /\ r.number \in Nat \ {0}
        /\ TypeInv /\ LearnInv /\ PairInv /\ BlameInv /\ CountsInv /\ SentInv
    BY DEF IInv, SentInv
  <1>3. r.time \in Nat
    BY <1>2, SessionsAreSessions DEF IsSession
  <1>4. /\ IsBaseline(baseline') /\ LearnInv'
        /\ \A host \in DOMAIN dossiers' : dossiers'[host] \in [sessions : Nat, warnings : Nat]
    BY <1>1, <1>2, RecordStep
  <1>5. PairInv' /\ arrived' \in Seq(Arrivals)
    BY <1>1, <1>2, MessagePairs
  <1>6. IsAnalyzer(analyzer') /\ analyzer'.failures = analyzer.failures
    BY <1>1, <1>2, <1>3, AfterWebSocketKeeps DEF TypeInv
  <1>7. recorded' \in Seq(Sessions)
    BY <1>1, <1>2, Appended DEF TypeInv, Looked
  <1>8. \A key \in DOMAIN pending' : pending'[key] \in Nat \ {0}
    BY <1>1, <1>2 DEF TypeInv, PendingAfter, Put
  <1>9. TypeInv'
    BY <1>1, <1>2, <1>4, <1>5, <1>6, <1>7, <1>8 DEF TypeInv
  <1>10. SentInv'
    BY <1>1, <1>2 DEF SentInv
  <1>11. BlameInv'
    <2>1. CASE detecting
      BY <1>1, <1>2, <1>6, <2>1, MessageBlame DEF Looked
    <2>2. CASE ~detecting
      <3>1. analyzer' = analyzer /\ fallbacks' = fallbacks /\ recorded' = recorded
        BY <1>1, <2>2 DEF Looked
      <3> QED  BY <3>1, <1>2 DEF BlameInv, Failures, Reported, At
    <2> QED  BY <2>1, <2>2
  <1>12. CountsInv'
    <2>1. CASE detecting
      <3>1. analyzer' = AfterWebSocket(analyzer, r) /\ recorded' = Append(recorded, r)
        BY <1>1, <2>1 DEF Looked
      <3>2. CountedAfter(analyzer', analyzer, r)
        BY <1>1, <1>2, <1>3, <3>1, AfterWebSocketKeeps DEF TypeInv
      <3>3. CountsMirrored(analyzer', recorded')
        BY <1>2, <3>1, <3>2, CountsStep DEF TypeInv, CountsInv
      <3> QED  BY <3>3 DEF CountsInv
    <2>2. CASE ~detecting
      <3>1. analyzer' = analyzer /\ recorded' = recorded
        BY <1>1, <2>2 DEF Looked
      <3> QED  BY <3>1, <1>2 DEF CountsInv
    <2> QED  BY <2>1, <2>2
  <1> QED  BY <1>4, <1>5, <1>9, <1>10, <1>11, <1>12 DEF IInv

\* A capture starts: the histories are new, and so are the numbers.
LEMMA StartStep == IInv /\ StartCapture => IInv'
  <1> SUFFICES ASSUME IInv, StartCapture PROVE IInv'
    OBVIOUS
  <1>1. /\ analyzer' = Fresh /\ pending' = NoFunction /\ arrived' = <<>> /\ recorded' = <<>>
        /\ fallbacks' = NoFunction /\ numbered' = 0 /\ sent' \subseteq sent
        /\ left' = [left EXCEPT !["clicks"] = @ - 1] /\ left["clicks"] > 0
        /\ UNCHANGED <<clock, baseline, learned, dossiers, learning, detecting>>
    BY DEF StartCapture, Spend
  <1>2. left' \in [{"sessions", "clicks"} -> Nat]
    BY <1>1 DEF IInv, TypeInv
  <1>3. TypeInv'
    <2>1. arrived' \in Seq(Arrivals) /\ recorded' \in Seq(Sessions) /\ DOMAIN pending' = {}
      BY <1>1, EmptySeq DEF NoFunction
    <2> QED  BY <1>1, <1>2, <2>1, FreshIsAnalyzer DEF IInv, TypeInv
  <1>4. SentInv' /\ LearnInv'
    BY <1>1 DEF IInv, SentInv, LearnInv
  <1>5. PairInv'
    <2>1. \A key, n : Answers(key, n)' = {} /\ Asked(key, n)' = {} /\ ~Waits(key, n)'
      BY <1>1 DEF Answers, Asked, Waits, NoFunction
    <2> QED  BY <2>1, FS_EmptySet DEF PairInv
  <1>6. BlameInv'
    <2>1. ASSUME NEW key
          PROVE  Failures(key)' = {} /\ Reported(key)' = 0 /\ At(analyzer.failures, key)' = <<>>
      BY <1>1 DEF Failures, Reported, At, Fresh, NoFunction
    <2>2. Len(<<>>) = 0 /\ Fallback * 0 = 0 /\ Cardinality({}) = 0
      BY ThresholdsAssumption, FS_EmptySet
    <2>3. ASSUME NEW key
          PROVE  /\ Reported(key)' \in Nat
                 /\ Fallback * Reported(key)' + Len(At(analyzer.failures, key)')
                       <= Cardinality(Failures(key)')
      <3>1. /\ Reported(key)' = 0 /\ Len(At(analyzer.failures, key)') = 0
            /\ Cardinality(Failures(key)') = 0
        BY <2>1, <2>2
      <3>2. Fallback * Reported(key)' = 0
        BY <3>1, <2>2
      <3> QED  BY <3>1, <3>2
    <2> QED  BY <2>3 DEF BlameInv
  <1>7. CountsInv'
    BY <1>1, NothingCounted DEF CountsInv
  <1> QED  BY <1>3, <1>4, <1>5, <1>6, <1>7 DEF IInv

\* The buttons: what is left of them changes the switches, or replaces the baseline.
LEMMA ClickStep ==
  ASSUME IInv, ToggleLearning \/ ToggleDetection \/ ClearBaseline \/ OpenCapsule
  PROVE  IInv'
  <1>1. /\ UNCHANGED <<worker, analyzer, pending, history>>
        /\ left' = [left EXCEPT !["clicks"] = @ - 1] /\ left["clicks"] > 0
    BY DEF ToggleLearning, ToggleDetection, ClearBaseline, OpenCapsule, Spend
  <1> DEFINE Same == baseline' = baseline /\ learned' = learned
             Replaced == learned' = {} /\ baseline' \in {NoFunction, Foreign}
             Shown == dossiers' = dossiers \/ dossiers' = NoFunction
             Switches == learning' \in BOOLEAN /\ detecting' \in BOOLEAN
  <1>2. Switches /\ Shown /\ (Same \/ Replaced)
    <2>1. learning \in BOOLEAN /\ detecting \in BOOLEAN
      BY DEF IInv, TypeInv
    <2>2. CASE ToggleLearning
      BY <2>1, <2>2 DEF ToggleLearning
    <2>3. CASE ToggleDetection
      BY <2>1, <2>3 DEF ToggleDetection
    <2>4. CASE ClearBaseline
      BY <2>1, <2>4 DEF ClearBaseline
    <2>5. CASE OpenCapsule
      BY <2>1, <2>5 DEF OpenCapsule
    <2> QED  BY <2>2, <2>3, <2>4, <2>5
  <1>3. left' \in [{"sessions", "clicks"} -> Nat]
    BY <1>1 DEF IInv, TypeInv
  <1>4. IsBaseline(NoFunction) /\ IsBaseline(Foreign)
    <2>1. DOMAIN NoFunction = {}
      BY DEF NoFunction
    <2> QED  BY <2>1, InvestigationAssumption DEF IsBaseline
  <1>5. IsBaseline(baseline') /\ LearnInv'
    <2>1. CASE baseline' = baseline /\ learned' = learned
      BY <2>1 DEF IInv, TypeInv, LearnInv
    <2>2. CASE learned' = {} /\ baseline' \in {NoFunction, Foreign}
      BY <2>2, <1>4 DEF LearnInv
    <2> QED  BY <1>2, <2>1, <2>2
  <1>6. \A host \in DOMAIN dossiers' : dossiers'[host] \in [sessions : Nat, warnings : Nat]
    BY <1>2 DEF IInv, TypeInv, NoFunction
  <1>7. TypeInv'
    BY <1>1, <1>2, <1>3, <1>5, <1>6 DEF IInv, TypeInv, worker, history
  <1>8. SentInv'
    BY <1>1 DEF IInv, SentInv, worker
  <1>9. PairInv' /\ BlameInv' /\ CountsInv'
    BY <1>1, SameHistory DEF IInv
  <1> QED  BY <1>5, <1>7, <1>8, <1>9 DEF IInv

\* Nothing happens.
LEMMA StutterStep == IInv /\ UNCHANGED vars => IInv'
  <1> SUFFICES ASSUME IInv, UNCHANGED vars PROVE IInv'
    OBVIOUS
  <1>1. UNCHANGED <<worker, analyzer, pending, baseline, learned, dossiers, learning, detecting, history, left>>
    BY DEF vars
  <1>2. TypeInv' /\ SentInv' /\ LearnInv'
    BY <1>1 DEF IInv, TypeInv, SentInv, LearnInv, worker, history
  <1>3. PairInv' /\ BlameInv' /\ CountsInv'
    BY <1>1, SameHistory DEF IInv
  <1> QED  BY <1>2, <1>3 DEF IInv

----------------------------------------------------------------------------
(* The theorems. *)

\* The invariant of analyzers, histories and the sessions on their way holds whatever order these
\* arrive in (poll_events).
THEOREM InvestigationInvariance == Spec => []IInv
  <1>1. ASSUME IInv, [Next]_vars
        PROVE  IInv'
    <2>1. CASE Stamp
      BY <1>1, <2>1, StampStep
    <2>2. CASE HandleExchange
      BY <1>1, <2>2, ExchangeStep
    <2>3. CASE HandleWebSocket
      BY <1>1, <2>3, MessageStep
    <2>4. CASE StartCapture
      BY <1>1, <2>4, StartStep
    <2>5. CASE ToggleLearning \/ ToggleDetection \/ ClearBaseline \/ OpenCapsule
      BY <1>1, <2>5, ClickStep
    <2>6. CASE UNCHANGED vars
      BY <1>1, <2>6, StutterStep
    <2> QED  BY <1>1, <2>1, <2>2, <2>3, <2>4, <2>5, <2>6, Zenon DEF Next
  <1> QED  BY InitInv, <1>1, PTL DEF Spec

\* The histories of the analyzer, the baseline and the tracker keep their types and limits.
THEOREM InvestigationTypes == Spec => []TypeOK
  <1>1. IInv => TypeOK
    <2> SUFFICES ASSUME IInv PROVE TypeOK
      OBVIOUS
    <2>1. /\ DOMAIN analyzer = DOMAIN Fresh
          /\ \A key \in DOMAIN analyzer.beacons : Len(analyzer.beacons[key]) \in 1..BeaconKept
          /\ \A key \in DOMAIN analyzer.seen : analyzer.seen[key].count \in Nat \ {0}
      BY DEF IInv, TypeInv, IsAnalyzer, Known
    <2>2. learned \subseteq Traffic
      BY DEF IInv, LearnInv
    <2> QED  BY <2>1, <2>2 DEF IInv, TypeInv, SentInv, TypeOK
  <1> QED  BY InvestigationInvariance, <1>1, PTL

\* What was seen while learning is not reported later, unless a profile had no room for it
\* (observe, assess_http and assess_websocket of the baseline).
THEOREM LearnedStaysNormal == Spec => []LearnedIsNormal
  <1>1. IInv => LearnedIsNormal
    <2> SUFFICES ASSUME IInv, NEW t \in learned
                 PROVE  Assess(baseline, t, FALSE) \subseteq Full(ProfileOf(baseline, t), t)
      BY DEF LearnedIsNormal
    <2>1. t \in Traffic /\ Knows(baseline, t) /\ Fits(ProfileOf(baseline, t), t)
      BY DEF IInv, LearnInv, Holds
    <2>2. IsBaseline(baseline) /\ t.size \in Nat
      BY <2>1, InvestigationAssumption DEF IInv, TypeInv
    <2> QED  BY <2>1, <2>2, ProfileIsProfile, FitIsNormal
  <1> QED  BY InvestigationInvariance, <1>1, PTL

\* A reply belongs to one message that asked in its conversation (ProtocolTracker::analyze).
THEOREM RepliesArePaired == Spec => []RepliesMatch
  <1>1. IInv => RepliesMatch
    <2> SUFFICES ASSUME IInv, NEW i \in DOMAIN arrived, arrived[i].reply # 0
                 PROVE  LET same(j) == Conversation(arrived[j].session) = Conversation(arrived[i].session)
                            asked == {j \in DOMAIN arrived :
                                /\ arrived[j].session.kind = "ws" /\ arrived[j].session.method = "out"
                                /\ arrived[j].session.number = arrived[i].reply /\ same(j)}
                            answers == {j \in DOMAIN arrived : arrived[j].reply = arrived[i].reply /\ same(j)}
                        IN Cardinality(answers) <= Cardinality(asked)
      BY Zenon DEF RepliesMatch
    <2> DEFINE key == Conversation(arrived[i].session)
               n == arrived[i].reply
    <2>1. Cardinality(Answers(key, n)) + (IF Waits(key, n) THEN 1 ELSE 0) <= Cardinality(Asked(key, n))
      BY DEF IInv, PairInv
    <2>2. arrived \in Seq(Arrivals)
      BY DEF IInv, TypeInv
    <2>3. Cardinality(Answers(key, n)) \in Nat /\ Cardinality(Asked(key, n)) \in Nat
      BY <2>2, Positions DEF Answers, Asked
    <2>4. Cardinality(Answers(key, n)) <= Cardinality(Asked(key, n))
      BY <2>1, <2>3
    <2> QED  BY <2>4 DEF Answers, Asked
  <1> QED  BY InvestigationInvariance, <1>1, PTL

\* No failure is evidence of two fallbacks (analyze_failover).
THEOREM FailuresCountOnce == Spec => []FailuresBlamedOnce
  <1>1. IInv => FailuresBlamedOnce
    BY DEF IInv, BlameInv, FailuresBlamedOnce, Failures, Reported, At
  <1> QED  BY InvestigationInvariance, <1>1, PTL

\* The volume and the encoded messages a finding speaks of were sent in the last minute, and none
\* of that minute is missing: the histories mirror the sessions, entry by entry (record_outbound,
\* record_encoded).
THEOREM CountsHappened == Spec => []CountsAreEvidence
  <1>1. IInv => VolumeIsRecent
    <2> SUFFICES ASSUME IInv PROVE VolumeIsRecent
      OBVIOUS
    <2> DEFINE mine == OutOf(recorded)
    <2>1. PICK L, p : Mirrors(analyzer.volume, L, recorded, mine, p, {"time", "size"})
      BY DEF IInv, CountsInv, CountsMirrored, Mirrored
    <2>2. recorded \in Seq(Sessions)
      BY DEF IInv, TypeInv
    <2>3. mine \in SUBSET DOMAIN recorded /\ L \in Nat
      BY <2>1, LenProperties DEF OutOf, Mirrors
    <2>4. mine \in SUBSET Nat /\ IsFiniteSet(mine)
      BY <2>2, <2>3, Positions, LenProperties
    <2>5. Sized(recorded, mine)
      <3>1. \A q \in Sessions : q.size \in Nat
        BY SessionsAreSessions, SessionFacts
      <3>2. \A i \in mine : recorded[i] \in Sessions
        BY <2>2, <2>3, ElementOfSeq, LenProperties
      <3> QED  BY <3>1, <3>2 DEF Sized
    <2> HIDE DEF mine
    <2>6. /\ VolumeOf(analyzer.volume) >= TotalSize(recorded, LastMinute(recorded, mine))
          /\ Ordered(recorded, mine) =>
                VolumeOf(analyzer.volume) = TotalSize(recorded, LastMinute(recorded, mine))
      BY <2>1, <2>3, <2>4, <2>5, MirrorTotal
    <2>7. LastMinute(recorded, mine) = Recent(mine) /\ Ordered(recorded, mine) = InOrder(mine)
      BY Zenon DEF LastMinute, Recent, Ordered, InOrder
    <2>8. mine = {i \in DOMAIN recorded : Outbound(recorded[i])}
      BY DEF mine, OutOf
    <2> QED  BY <2>6, <2>7, <2>8 DEF VolumeIsRecent
  <1>2. IInv => EncodedAreRecent
    <2> SUFFICES ASSUME IInv, NEW key \in DOMAIN analyzer.encoded
                 PROVE  LET mine == {i \in DOMAIN recorded :
                                        CountsAsEncoded(recorded[i]) /\ EncodedKey(recorded[i]) = key}
                        IN /\ Len(analyzer.encoded[key]) >= Cardinality(Recent(mine))
                           /\ InOrder(mine) => Len(analyzer.encoded[key]) = Cardinality(Recent(mine))
      BY Zenon DEF EncodedAreRecent
    <2> DEFINE mine == EncodedOf(recorded, key)
    <2>1. PICK L, p : Mirrors(analyzer.encoded[key], L, recorded, mine, p, {"time"})
      BY DEF IInv, CountsInv, CountsMirrored, Mirrored, At
    <2>2. recorded \in Seq(Sessions)
      BY DEF IInv, TypeInv
    <2>3. mine \in SUBSET DOMAIN recorded /\ L \in Nat
      BY <2>1, LenProperties DEF EncodedOf, Mirrors
    <2>4. mine \in SUBSET Nat /\ IsFiniteSet(mine)
      BY <2>2, <2>3, Positions, LenProperties
    <2> HIDE DEF mine
    <2>5. /\ Len(analyzer.encoded[key]) >= Cardinality(LastMinute(recorded, mine))
          /\ Ordered(recorded, mine) =>
                Len(analyzer.encoded[key]) = Cardinality(LastMinute(recorded, mine))
      BY <2>1, <2>3, <2>4, MirrorCount
    <2>6. LastMinute(recorded, mine) = Recent(mine) /\ Ordered(recorded, mine) = InOrder(mine)
      BY Zenon DEF LastMinute, Recent, Ordered, InOrder
    <2>7. mine = {i \in DOMAIN recorded : CountsAsEncoded(recorded[i]) /\ EncodedKey(recorded[i]) = key}
      BY DEF mine, EncodedOf
    <2> QED  BY <2>5, <2>6, <2>7
  <1>3. IInv => FailuresBlamedOnce
    BY DEF IInv, BlameInv, FailuresBlamedOnce, Failures, Reported, At
  <1> QED  BY InvestigationInvariance, <1>1, <1>2, <1>3, PTL DEF CountsAreEvidence

----------------------------------------------------------------------------
(* Scores. *)

Findings == DOMAIN Weight
Weighed == [finding \in Findings |-> [size |-> Weight[finding]]]
Rank == [none |-> 0, notice |-> 1, suspicious |-> 2, high |-> 3]

LEMMA WeightIsWeight == \A finding \in Findings : Weight[finding] \in Nat /\ Weight["credentials"] = 60
  BY DEF Findings, Weight

LEMMA SixAreFinite ==
  ASSUME NEW a, NEW b, NEW c, NEW d, NEW e, NEW f
  PROVE  IsFiniteSet({a, b, c, d, e, f})
  <1>1. IsFiniteSet({a}) /\ IsFiniteSet({a} \cup {b})
    BY FS_Singleton, FS_AddElement
  <1>2. IsFiniteSet(({a} \cup {b}) \cup {c})
    BY <1>1, FS_AddElement
  <1>3. IsFiniteSet((({a} \cup {b}) \cup {c}) \cup {d})
    BY <1>2, FS_AddElement
  <1>4. IsFiniteSet(((({a} \cup {b}) \cup {c}) \cup {d}) \cup {e})
    BY <1>3, FS_AddElement
  <1>5. IsFiniteSet((((({a} \cup {b}) \cup {c}) \cup {d}) \cup {e}) \cup {f})
    BY <1>4, FS_AddElement
  <1>6. {a, b, c, d, e, f} = (((({a} \cup {b}) \cup {c}) \cup {d}) \cup {e}) \cup {f}
    OBVIOUS
  <1> QED  BY <1>5, <1>6

LEMMA FindingsAreFinite == IsFiniteSet(Findings)
  <1> DEFINE A == {"raw_ip", "random_domain", "c2_path", "hosting", "process", "temporary"}
             B == {"no_agent", "odd_agent", "tool_agent", "posing_agent", "no_host", "duplicates"}
             C == {"odd_headers", "credentials", "sensitive", "file", "set_cookie", "connect"}
             D == {"proxied", "upgrade", "very_large", "large", "encoded", "encoded_often"}
             E == {"socket_encoded", "volume", "repeated", "beacon", "fallback", "destinations"}
             F == {"idle", "certificate", "long_socket", "changed", "warned", "redacted"}
             G == {"blocked", "unsigned", "blocked", "blocked", "blocked", "blocked"}
  <1>1. Findings = A \cup (B \cup (C \cup (D \cup (E \cup (F \cup G)))))
    BY DEF Findings, Weight
  <1>2. /\ IsFiniteSet(A) /\ IsFiniteSet(B) /\ IsFiniteSet(C) /\ IsFiniteSet(D) /\ IsFiniteSet(E)
        /\ IsFiniteSet(F) /\ IsFiniteSet(G)
    BY SixAreFinite
  <1> HIDE DEF A, B, C, D, E, F, G
  <1>3. IsFiniteSet(F \cup G)
    BY <1>2, FS_Union
  <1>4. IsFiniteSet(E \cup (F \cup G))
    BY <1>2, <1>3, FS_Union
  <1>5. IsFiniteSet(D \cup (E \cup (F \cup G)))
    BY <1>2, <1>4, FS_Union
  <1>6. IsFiniteSet(C \cup (D \cup (E \cup (F \cup G))))
    BY <1>2, <1>5, FS_Union
  <1>7. IsFiniteSet(B \cup (C \cup (D \cup (E \cup (F \cup G)))))
    BY <1>2, <1>6, FS_Union
  <1> QED  BY <1>1, <1>2, <1>7, FS_Union

\* Score adds as TotalSize does.
LEMMA ScoreIsTotal ==
  ASSUME NEW findings \in SUBSET Findings
  PROVE  /\ TotalSize(Weighed, findings) \in Nat /\ IsFiniteSet(findings) /\ Sized(Weighed, findings)
         /\ Score(findings) = IF TotalSize(Weighed, findings) > 100 THEN 100
                                                                  ELSE TotalSize(Weighed, findings)
  <1> DEFINE g == CHOOSE g : g = [s \in SUBSET findings |->
                      IF s = {} THEN 0 ELSE LET x == CHOOSE x \in s : TRUE IN Weight[x] + g[s \ {x}]]
             sum == FoldSet(LAMBDA finding, total : Weight[finding] + total, 0, findings)
  <1>0. IsFiniteSet(findings) /\ Sized(Weighed, findings)
    BY FindingsAreFinite, FS_Subset, WeightIsWeight DEF Sized, Weighed
  <1>1. PICK h : IsSum(h, Weighed, SUBSET findings) /\ TotalSize(Weighed, findings) = h[findings]
    BY <1>0, TotalIsSum
  <1>2. h = [s \in SUBSET findings |->
                IF s = {} THEN 0 ELSE LET x == CHOOSE x \in s : TRUE IN Weight[x] + h[s \ {x}]]
    <2>1. ASSUME NEW s \in SUBSET findings, s # {} PROVE Weighed[Picked(s)].size = Weight[Picked(s)]
      BY <2>1 DEF Picked, Weighed
    <2>2. ASSUME NEW s \in SUBSET findings
          PROVE  Added(Weighed, h, s) = IF s = {} THEN 0 ELSE Weight[Picked(s)] + h[s \ {Picked(s)}]
      BY <2>1 DEF Added
    <2> QED  BY <1>1, <2>2 DEF IsSum, Picked
  <1>3. g = [s \in SUBSET findings |->
                IF s = {} THEN 0 ELSE LET x == CHOOSE x \in s : TRUE IN Weight[x] + g[s \ {x}]]
    BY <1>2
  <1>4. sum = g[findings]
    BY DEF FoldSet, MapThenFoldSet
  <1> HIDE DEF g
  <1>5. IsSum(g, Weighed, SUBSET findings)
    <2>1. ASSUME NEW s \in SUBSET findings, s # {} PROVE Weighed[Picked(s)].size = Weight[Picked(s)]
      BY <2>1 DEF Picked, Weighed
    <2>2. ASSUME NEW s \in SUBSET findings
          PROVE  Added(Weighed, g, s) = IF s = {} THEN 0 ELSE Weight[Picked(s)] + g[s \ {Picked(s)}]
      BY <2>1 DEF Added
    <2> QED  BY <1>3, <2>2 DEF IsSum, Picked
  <1>6. g[findings] = h[findings]
    BY <1>0, <1>1, <1>5, SumsAgree
  <1>7. TotalSize(Weighed, findings) \in Nat
    BY <1>0, TotalTypes
  <1>8. sum = TotalSize(Weighed, findings)
    BY <1>1, <1>4, <1>6
  <1> QED  BY <1>0, <1>7, <1>8 DEF Score

\* The grade follows the score.
LEMMA LevelsAreOrdered ==
  ASSUME NEW a \in Nat, NEW b \in Nat, a <= b
  PROVE  Rank[Level(a)] <= Rank[Level(b)]
  BY DEF Rank, Level

\* More findings never make a lesser grade, whatever is found and however the score is capped, and
\* credentials in the clear always make the highest (add_finding, finalize).
THEOREM MoreIsWorseAlways ==
  ASSUME NEW findings \in SUBSET Findings, NEW more \in SUBSET Findings
  PROVE  /\ Rank[Level(Score(findings))] <= Rank[Level(Score(findings \cup more))]
         /\ "credentials" \in findings => Level(Score(findings)) = "high"
  <1> DEFINE T(s) == TotalSize(Weighed, s)
  <1>1. ASSUME NEW s \in SUBSET Findings
        PROVE  T(s) \in Nat /\ Score(s) = (IF T(s) > 100 THEN 100 ELSE T(s)) /\ IsFiniteSet(s) /\ Sized(Weighed, s)
    BY ScoreIsTotal
  <1>2. T(findings) <= T(findings \cup more)
    <2>1. IsFiniteSet(findings \cup more) /\ Sized(Weighed, findings \cup more)
      BY <1>1
    <2> QED  BY <2>1, TotalOfPart
  <1>3. ASSUME "credentials" \in findings PROVE T(findings) >= 60
    <2>1. T(findings) = Weighed["credentials"].size + T(findings \ {"credentials"})
      BY <1>1, <1>3, TotalWithout
    <2>2. T(findings \ {"credentials"}) \in Nat
      BY <1>1
    <2>3. Weighed["credentials"].size = 60
      BY <1>3, WeightIsWeight DEF Weighed
    <2> QED  BY <2>1, <2>2, <2>3
  <1> HIDE DEF T
  <1>4. findings \cup more \in SUBSET Findings
    OBVIOUS
  <1>5. /\ Score(findings) \in Nat /\ Score(findings \cup more) \in Nat
        /\ Score(findings) <= Score(findings \cup more)
    BY <1>1, <1>2, <1>4
  <1>6. "credentials" \in findings => Level(Score(findings)) = "high"
    BY <1>1, <1>3 DEF Level
  <1> QED  BY <1>5, <1>6, LevelsAreOrdered
=============================================================================
