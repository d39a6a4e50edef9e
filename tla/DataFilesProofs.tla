--------------------------- MODULE DataFilesProofs ---------------------------
(***************************************************************************)
(* Proofs about DataFiles, for any processes, threads, bodies and numbers  *)
(* of operations: every variable keeps its type, and what is read from the *)
(* data directory is what was written.                                     *)
(***************************************************************************)
EXTENDS DataFiles, TLAPS

\* What may stand under a name, when it was written to the end.
Right(name) == IF name \in Bodies THEN {name} ELSE 0..MaxWritten

Replaced == Bodies \cup Documents
KindOf(document) == IF document = "settings" THEN "settings" ELSE "analysis"

(* The steps of a job. *)

Sound(step) ==
    /\ step.op \in {"create", "fill"} =>
          \/ \E file \in Certificates : step.path = Main(file)
          \/ \E name \in Replaced : step.path = Temporary(name)
    /\ step.op = "fill" => step.what \in Right(step.path[1])
    /\ step.op = "rename" => \E name \in Replaced : step.path = Main(name)
    /\ step.op = "read" => \E file \in Certificates : step.path = Main(file)

\* b comes after a: a file is opened, filled, and then renamed if it is a temporary one; and
\* dossiers come after baselines.
Follows(a, b) ==
    /\ a.op = "create" => b.op = "fill" /\ b.path = a.path
    /\ b.op = "fill" => a.op = "create"
    /\ a.op = "fill" /\ a.path[1] \in Replaced => b.op = "rename" /\ b.path = Main(a.path[1])
    /\ b.op = "rename" => a.op = "fill" /\ a.path = Temporary(b.path[1])
    /\ b.path[1] = "dossiers" => \/ a.path[1] = "dossiers"
                                 \/ a.op = "rename" /\ a.path[1] = "baselines"

WellMade(s) ==
    /\ s \in Seq(Steps)
    /\ \A i \in 1..Len(s) : Sound(s[i])
    /\ \A i \in 1..Len(s) - 1 : Follows(s[i], s[i + 1])
    /\ s # <<>> => s[Len(s)].op # "create"

Starts(s) == s # <<>> => s[1].op \in {"create", "read"} /\ s[1].path[1] # "dossiers"

\* Documents are written by the UI thread, in the version it has.
Assigned(k, w, s) ==
    \A i \in 1..Len(s) : s[i].path[1] \in Documents =>
        /\ w[2] = UI
        /\ s[i].op = "fill" => s[i].what = k[w[1]][KindOf(s[i].path[1])]

\* A job that touches the authority is the rest of a load.
IsSuffix(s, t) == Len(s) <= Len(t) /\ \A i \in 1..Len(s) : s[i] = t[i + Len(t) - Len(s)]
Loads(n) == Generate(n) \o Reads
LoadOf(s, n) == s # <<>> /\ IsSuffix(s, Loads(n))
PartOfLoad(s) == 
    \/ \A i \in 1..Len(s) : s[i].path[1] \notin Certificates
    \/ \E n \in 0..MaxWritten : LoadOf(s, n)

\* What thread w has left of a job, s, the file it has open, and what its process knows.
JobOk(k, w, s, file) ==
    /\ WellMade(s) /\ Assigned(k, w, s) /\ PartOfLoad(s)
    /\ file # Nowhere <=> (s # <<>> /\ Head(s).op = "fill")

JobInv == \A w \in Writers : JobOk(known, w, todo[w], open[w])

(* The files. *)

\* The name thread w is writing under.
NameOf(w) == Head(todo[w]).path[1]

\* A file that a thread has open is under no other name, and two threads that have one file open
\* write under one name.
OpenInv ==
    \A w \in Writers : open[w] # Nowhere =>
        /\ \A path \in Paths : at[path] = open[w] => path[1] = NameOf(w)
        /\ \A v \in Writers : open[v] = open[w] => NameOf(v) = NameOf(w)

\* What is under a name is right for it or short, and a body that is short is being written, or
\* was cut.
ContentInv ==
    \A path \in Paths : at[path] # Nowhere =>
        /\ content[at[path]] \in Right(path[1]) \cup {Short}
        /\ (path[1] \in Bodies /\ content[at[path]] = Short /\ ~cut) =>
              \E w \in Writers : open[w] = at[path]

----------------------------------------------------------------------------

LEMMA StepIsRecord ==
    ASSUME NEW op, NEW path, NEW what
    PROVE  /\ Step(op, path, what).op = op /\ Step(op, path, what).path = path
           /\ Step(op, path, what).what = what
           /\ (op \in Ops /\ path \in Paths /\ what \in Contents => Step(op, path, what) \in Steps)
  BY DEF Step, Steps

LEMMA PathFacts ==
    /\ \A name \in Replaced : /\ Main(name) \in Paths /\ Temporary(name) \in Paths
                              /\ Main(name) # Temporary(name)
    /\ \A name \in Certificates : Main(name) \in Paths
    /\ \A name : Main(name)[1] = name /\ Temporary(name)[1] = name
    /\ Replaced \cap Certificates = {}
  BY NamesAssumption DEF Replaced, Paths, Named, Main, Temporary, Documents, Certificates

LEMMA ContentFacts ==
    /\ Short \in Contents /\ Bodies \subseteq Contents /\ 0..MaxWritten \subseteq Contents
    /\ \A name \in Bodies : Right(name) = {name}
    /\ \A name \in Documents \cup Certificates : Right(name) = 0..MaxWritten
    /\ \A name \in Named : Right(name) \subseteq Contents /\ Short \notin Right(name)
  BY NamesAssumption DEF Contents, Right, Named

LEMMA NotEmpty ==
    ASSUME NEW s, Len(s) \in Nat \ {0}
    PROVE  s # <<>>
  <1>1. Len(<<>>) = 0
    OBVIOUS
  <1> QED
    BY <1>1

\* A part of a job and what comes after it.
LEMMA Joined ==
    ASSUME NEW s, NEW t, WellMade(s), WellMade(t), s # <<>>, t # <<>>, Follows(s[Len(s)], t[1])
    PROVE  /\ WellMade(s \o t) /\ s \o t # <<>>
           /\ (s \o t)[1] = s[1] /\ (s \o t)[Len(s \o t)] = t[Len(t)]
  <1>1. /\ s \in Seq(Steps) /\ t \in Seq(Steps)
        /\ Len(s) \in Nat \ {0} /\ Len(t) \in Nat \ {0}
    BY DEF WellMade
  <1> DEFINE j == s \o t
  <1>2. /\ j \in Seq(Steps) /\ Len(j) = Len(s) + Len(t)
        /\ \A i \in 1..Len(j) : j[i] = IF i <= Len(s) THEN s[i] ELSE t[i - Len(s)]
    BY <1>1
  <1>3. j[1] = s[1] /\ j[Len(j)] = t[Len(t)] /\ j # <<>>
    BY <1>1, <1>2
  <1> HIDE DEF j
  <1>4. ASSUME NEW i \in 1..Len(j) PROVE Sound(j[i])
    <2>1. CASE i <= Len(s)
      <3>1. i \in 1..Len(s) /\ j[i] = s[i]
        BY <1>1, <1>2, <1>4, <2>1
      <3> QED
        BY <3>1 DEF WellMade
    <2>2. CASE i > Len(s)
      <3>1. i - Len(s) \in 1..Len(t) /\ j[i] = t[i - Len(s)]
        BY <1>1, <1>2, <1>4, <2>2
      <3> QED
        BY <3>1 DEF WellMade
    <2> QED
      BY <1>1, <1>4, <2>1, <2>2
  <1>5. ASSUME NEW i \in 1..Len(j) - 1 PROVE Follows(j[i], j[i + 1])
    <2>1. CASE i < Len(s)
      <3>1. i \in 1..Len(s) - 1 /\ j[i] = s[i] /\ j[i + 1] = s[i + 1]
        BY <1>1, <1>2, <1>5, <2>1
      <3> QED
        BY <3>1 DEF WellMade
    <2>2. CASE i = Len(s)
      <3>1. j[i] = s[Len(s)] /\ j[i + 1] = t[1]
        BY <1>1, <1>2, <1>5, <2>2
      <3> QED
        BY <3>1
    <2>3. CASE i > Len(s)
      <3>1. i - Len(s) \in 1..Len(t) - 1 /\ j[i] = t[i - Len(s)] /\ j[i + 1] = t[(i - Len(s)) + 1]
        BY <1>1, <1>2, <1>5, <2>3
      <3> QED
        BY <3>1 DEF WellMade
    <2> QED
      BY <1>1, <1>5, <2>1, <2>2, <2>3
  <1>6. j[Len(j)].op # "create"
    BY <1>3 DEF WellMade
  <1> QED
    BY <1>2, <1>3, <1>4, <1>5, <1>6 DEF WellMade, j

\* What is left of a job after its first step.
LEMMA RestOfJob ==
    ASSUME NEW s, WellMade(s), s # <<>>
    PROVE  /\ WellMade(Tail(s)) /\ Head(s) = s[1] /\ Sound(Head(s)) /\ Head(s) \in Steps
           /\ Tail(s) # <<>> => Follows(Head(s), Head(Tail(s))) /\ Head(Tail(s)) = s[2]
           /\ Head(s).op = "create" => Tail(s) # <<>>
           /\ Len(Tail(s)) = Len(s) - 1 /\ \A i \in 1..Len(Tail(s)) : Tail(s)[i] = s[i + 1]
           /\ Len(s) \in Nat \ {0}
  <1>1. s \in Seq(Steps) /\ Len(s) \in Nat \ {0} /\ Head(s) = s[1] /\ s[1] \in Steps
    BY DEF WellMade
  <1>2. /\ Tail(s) \in Seq(Steps) /\ Len(Tail(s)) = Len(s) - 1
        /\ \A i \in 1..Len(Tail(s)) : Tail(s)[i] = s[i + 1]
    BY <1>1
  <1>3. \A i \in 1..Len(s) : Sound(s[i])
    BY DEF WellMade
  <1>4. \A i \in 1..Len(s) - 1 : Follows(s[i], s[i + 1])
    BY DEF WellMade
  <1>5. s[Len(s)].op # "create"
    BY DEF WellMade
  <1>6. \A i \in 1..Len(Tail(s)) : Sound(Tail(s)[i])
    BY <1>1, <1>2, <1>3
  <1>7. ASSUME NEW i \in 1..Len(Tail(s)) - 1 PROVE Follows(Tail(s)[i], Tail(s)[i + 1])
    <2>1. i + 1 \in 1..Len(s) - 1 /\ Tail(s)[i] = s[i + 1] /\ Tail(s)[i + 1] = s[(i + 1) + 1]
      BY <1>1, <1>2, <1>7
    <2> QED
      BY <1>4, <2>1
  <1>8. Tail(s) # <<>> => Tail(s)[Len(Tail(s))] = s[Len(s)] /\ Head(Tail(s)) = s[2] /\ Len(s) > 1
    BY <1>1, <1>2
  <1>9. Tail(s) # <<>> => Follows(s[1], s[1 + 1])
    BY <1>1, <1>4, <1>8
  <1>10. Tail(s) = <<>> => Len(s) = 1
    <2>1. Len(<<>>) = 0
      OBVIOUS
    <2>2. Tail(s) = <<>> => Len(Tail(s)) = Len(<<>>)
      BY Zenon
    <2> QED
      BY <1>1, <1>2, <2>1, <2>2
  <1>11. WellMade(Tail(s))
    BY <1>2, <1>5, <1>6, <1>7, <1>8 DEF WellMade
  <1>12. Sound(s[1])
    BY <1>1, <1>3
  <1>13. s[1].op = "create" => Tail(s) # <<>>
    BY <1>5, <1>10
  <1>14. Tail(s) # <<>> => Follows(s[1], Head(Tail(s)))
    BY <1>8, <1>9
  <1> QED
    BY <1>1, <1>2, <1>8, <1>11, <1>12, <1>13, <1>14

LEMMA WriteMade ==
    ASSUME NEW path \in Paths, NEW what \in Right(path[1]),
           \/ \E file \in Certificates : path = Main(file)
           \/ \E name \in Replaced : path = Temporary(name)
    PROVE  /\ WellMade(Write(path, what)) /\ Len(Write(path, what)) = 2
           /\ Write(path, what)[1] = Step("create", path, Short)
           /\ Write(path, what)[2] = Step("fill", path, what)
  <1> DEFINE a == Step("create", path, Short)
             b == Step("fill", path, what)
  <1>1. path[1] \in Named /\ what \in Contents /\ Short \in Contents
    BY PathFacts, ContentFacts DEF Named, Replaced
  <1>2. /\ a \in Steps /\ a.op = "create" /\ a.path = path
        /\ b \in Steps /\ b.op = "fill" /\ b.path = path /\ b.what = what
    BY <1>1, StepIsRecord DEF Ops
  <1>3. Sound(a) /\ Sound(b)
    BY <1>2 DEF Sound
  <1>4. Follows(a, b)
    BY <1>2 DEF Follows
  <1>5. Write(path, what) = <<a, b>>
    BY DEF Write
  <1> HIDE DEF a, b
  <1>6. /\ <<a, b>> \in Seq(Steps) /\ Len(<<a, b>>) = 2 /\ <<a, b>>[1] = a /\ <<a, b>>[2] = b
    BY <1>2
  <1>7. WellMade(<<a, b>>)
    <2>1. \A i \in 1..Len(<<a, b>>) : i = 1 \/ i = 2
      BY <1>6
    <2>2. \A i \in 1..Len(<<a, b>>) - 1 : i = 1 /\ i + 1 = 2
      BY <1>6
    <2> QED
      BY <1>2, <1>3, <1>4, <1>6, <2>1, <2>2 DEF WellMade
  <1> QED
    BY <1>5, <1>6, <1>7 DEF a, b

LEMMA ReplaceMade ==
    ASSUME NEW name \in Replaced, NEW what \in Right(name)
    PROVE  /\ WellMade(Replace(name, what)) /\ Len(Replace(name, what)) = 3
           /\ Replace(name, what)[1] = Step("create", Temporary(name), Short)
           /\ Replace(name, what)[2] = Step("fill", Temporary(name), what)
           /\ Replace(name, what)[3] = Step("rename", Main(name), Short)
  <1> DEFINE s == Write(Temporary(name), what)
             c == Step("rename", Main(name), Short)
  <1>1. Temporary(name) \in Paths /\ Temporary(name)[1] = name /\ Main(name) \in Paths /\ Main(name)[1] = name
    BY PathFacts
  <1>2. /\ WellMade(s) /\ Len(s) = 2 /\ s[1] = Step("create", Temporary(name), Short)
        /\ s[2] = Step("fill", Temporary(name), what)
    BY <1>1, WriteMade
  <1>3. c \in Steps /\ c.op = "rename" /\ c.path = Main(name)
    BY <1>1, StepIsRecord, ContentFacts DEF Ops
  <1>4. s[2].op = "fill" /\ s[2].path = Temporary(name)
    BY <1>2, StepIsRecord
  <1>5. Follows(s[2], c)
    BY <1>1, <1>3, <1>4 DEF Follows
  <1>6. Replace(name, what) = s \o <<c>>
    BY DEF Replace
  <1> HIDE DEF s, c
  <1>7. /\ <<c>> \in Seq(Steps) /\ Len(<<c>>) = 1 /\ <<c>>[1] = c /\ s \in Seq(Steps)
    BY <1>2, <1>3 DEF WellMade
  <1>8. WellMade(<<c>>)
    BY <1>3, <1>7 DEF WellMade, Sound
  <1>9. WellMade(s \o <<c>>)
    <2>1. Follows(s[Len(s)], <<c>>[1])
      BY <1>2, <1>5, <1>7
    <2>2. s # <<>> /\ <<c>> # <<>>
      <3>1. Len(s) \in Nat \ {0}
        BY <1>2
      <3>2. <<c>> # <<>>
        OBVIOUS
      <3> QED
        BY <3>1, <3>2, NotEmpty
    <2>3. WellMade(s)
      BY <1>2
    <2> QED
      BY <1>8, <2>1, <2>2, <2>3, Joined
  <1> DEFINE j == Replace(name, what)
  <1>10. Len(j) = 3 /\ j[1] = s[1] /\ j[2] = s[2] /\ j[3] = c
    <2>1. s \in Seq(Steps) /\ <<c>> \in Seq(Steps)
      BY <1>7
    <2>2. /\ Len(j) = Len(s) + Len(<<c>>)
          /\ \A i \in 1..Len(j) : j[i] = IF i <= Len(s) THEN s[i] ELSE <<c>>[i - Len(s)]
      BY <1>6, <2>1
    <2> HIDE DEF j
    <2> QED
      BY <1>2, <1>7, <2>2
  <1>11. WellMade(j)
    BY <1>6, <1>9
  <1> HIDE DEF j
  <1>12. j[3] = Step("rename", Main(name), Short)
    BY <1>10 DEF c
  <1> QED
    BY <1>2, <1>10, <1>11, <1>12 DEF j

\* Every step of s is about a document of a kind, in version n.
Versioned(s, kind, n) ==
    \A i \in 1..Len(s) : /\ s[i].path[1] \in Documents /\ KindOf(s[i].path[1]) = kind
                         /\ s[i].op = "fill" => s[i].what = n

\* The job of Save.
LEMMA SavedMade ==
    ASSUME NEW p, NEW kind \in {"analysis", "settings"}, NEW n \in 0..MaxWritten
    PROVE  /\ WellMade(Saved(p, kind, n)) /\ Starts(Saved(p, kind, n)) /\ Saved(p, kind, n) # <<>>
           /\ Versioned(Saved(p, kind, n), kind, n)
  <1> DEFINE Fits(s, d) == \A i \in 1..Len(s) : s[i].path[1] = d /\ (s[i].op = "fill" => s[i].what = n)
  <1>1. ASSUME NEW d \in Documents
        PROVE  /\ Fits(Replace(d, n), d) /\ WellMade(Replace(d, n)) /\ Len(Replace(d, n)) = 3
               /\ Replace(d, n)[1].op = "create" /\ Replace(d, n)[3].op = "rename"
               /\ Replace(d, n)[1].path[1] = d /\ Replace(d, n)[3].path[1] = d
    <2>1. d \in Replaced /\ n \in Right(d)
      BY ContentFacts DEF Replaced
    <2> DEFINE s == Replace(d, n)
    <2>2. /\ WellMade(s) /\ Len(s) = 3
          /\ s[1] = Step("create", Temporary(d), Short) /\ s[2] = Step("fill", Temporary(d), n)
          /\ s[3] = Step("rename", Main(d), Short)
      BY <2>1, ReplaceMade
    <2> HIDE DEF s
    <2>3. /\ s[1].op = "create" /\ s[1].path[1] = d /\ s[2].path[1] = d /\ s[2].what = n
          /\ s[3].op = "rename" /\ s[3].path[1] = d
      BY <2>2, StepIsRecord, PathFacts
    <2>4. \A i \in 1..Len(s) : i = 1 \/ i = 2 \/ i = 3
      BY <2>2
    <2>5. Fits(s, d)
      BY <2>3, <2>4
    <2> QED
      BY <2>2, <2>3, <2>5 DEF s
  <1>2. CASE kind = "settings"
    <2>1. Saved(p, kind, n) = Replace("settings", n)
      BY <1>2 DEF Saved
    <2>2. "settings" \in Documents /\ KindOf("settings") = "settings"
      BY DEF Documents, KindOf
    <2> DEFINE s == Replace("settings", n)
    <2>3. /\ Fits(s, "settings") /\ WellMade(s) /\ Len(s) = 3 /\ s[1].op = "create"
          /\ s[1].path[1] = "settings"
      BY <1>1, <2>2
    <2> HIDE DEF s
    <2>4. s # <<>> /\ Starts(s)
      BY <2>3 DEF Starts, WellMade
    <2> QED
      BY <1>2, <2>1, <2>2, <2>3, <2>4 DEF s, Versioned
  <1>3. CASE kind = "analysis"
    <2> DEFINE s == Replace("baselines", n)
               t == Replace("dossiers", n)
    <2>1. Saved(p, kind, n) = s \o t
      BY <1>3 DEF Saved
    <2>2. /\ "baselines" \in Documents /\ KindOf("baselines") = "analysis"
          /\ "dossiers" \in Documents /\ KindOf("dossiers") = "analysis"
      BY DEF Documents, KindOf
    <2>3. /\ Fits(s, "baselines") /\ WellMade(s) /\ Len(s) = 3 /\ s[1].op = "create"
          /\ s[1].path[1] = "baselines" /\ s[3].op = "rename" /\ s[3].path[1] = "baselines"
      BY <1>1, <2>2
    <2>4. /\ Fits(t, "dossiers") /\ WellMade(t) /\ Len(t) = 3 /\ t[1].op = "create"
          /\ t[1].path[1] = "dossiers"
      BY <1>1, <2>2
    <2> HIDE DEF s, t
    <2>5. Follows(s[3], t[1])
      BY <2>3, <2>4 DEF Follows
    <2>6. s # <<>> /\ t # <<>> /\ s \in Seq(Steps) /\ t \in Seq(Steps)
      BY <2>3, <2>4 DEF WellMade
    <2>7. WellMade(s \o t) /\ s \o t # <<>> /\ (s \o t)[1] = s[1]
      <3>1. Follows(s[Len(s)], t[1])
        BY <2>3, <2>5
      <3> QED
        <4>1. WellMade(s) /\ WellMade(t)
          BY <2>3, <2>4
        <4> QED
          BY <2>6, <3>1, <4>1, Joined
    <2>8. Starts(s \o t)
      BY <2>3, <2>7 DEF Starts
    <2> DEFINE j == s \o t
    <2>9. /\ Len(j) = 6 /\ \A i \in 1..3 : j[i] = s[i]
          /\ \A i \in 4..6 : j[i] = t[i - 3]
      <3>1. /\ Len(j) = Len(s) + Len(t)
            /\ \A i \in 1..Len(j) : j[i] = IF i <= Len(s) THEN s[i] ELSE t[i - Len(s)]
        BY <2>6
      <3> HIDE DEF j
      <3> QED
        BY <2>3, <2>4, <3>1
    <2> HIDE DEF j
    <2>10. ASSUME NEW i \in 1..Len(j)
           PROVE  \/ \E k \in 1..Len(s) : j[i] = s[k]
                  \/ \E k \in 1..Len(t) : j[i] = t[k]
      <3>1. CASE i <= 3
        BY <2>3, <2>9, <2>10, <3>1
      <3>2. CASE i > 3
        <4>1. i - 3 \in 1..Len(t) /\ j[i] = t[i - 3]
          BY <2>4, <2>9, <2>10, <3>2
        <4> QED
          BY <4>1
      <3> QED
        BY <2>9, <2>10, <3>1, <3>2
    <2>11. ASSUME NEW i \in 1..Len(j)
           PROVE  /\ j[i].path[1] \in Documents /\ KindOf(j[i].path[1]) = kind
                  /\ j[i].op = "fill" => j[i].what = n
      BY <1>3, <2>2, <2>3, <2>4, <2>10, <2>11
    <2> QED
      BY <2>1, <2>7, <2>8, <2>11 DEF j, Versioned
  <1> QED
    BY <1>2, <1>3

LEMMA ReadsMade ==
    /\ WellMade(Reads) /\ Len(Reads) = 3
    /\ Reads[1] = Step("read", Main("key"), Short)
    /\ Reads[2] = Step("read", Main("pem"), Short)
    /\ Reads[3] = Step("read", Main("der"), Short)
  <1> DEFINE a == Step("read", Main("key"), Short)
             b == Step("read", Main("pem"), Short)
             c == Step("read", Main("der"), Short)
  <1>1. {"key", "pem", "der"} = Certificates
    BY DEF Certificates
  <1>2. \A file \in Certificates :
          LET step == Step("read", Main(file), Short)
          IN /\ step \in Steps /\ Sound(step) /\ step.op = "read" /\ step.path[1] = file
    BY PathFacts, ContentFacts DEF Step, Steps, Ops, Sound
  <1>3. /\ {a, b, c} \subseteq Steps /\ Sound(a) /\ Sound(b) /\ Sound(c)
        /\ a.op = "read" /\ b.op = "read" /\ c.op = "read"
        /\ a.path[1] = "key" /\ b.path[1] = "pem" /\ c.path[1] = "der"
    BY <1>1, <1>2
  <1>4. Reads = <<a, b, c>>
    BY DEF Reads
  <1> HIDE DEF a, b, c
  <1> DEFINE j == <<a, b, c>>
  <1>5. j \in Seq(Steps) /\ Len(j) = 3 /\ j[1] = a /\ j[2] = b /\ j[3] = c
    BY <1>3
  <1> HIDE DEF j
  <1>6. Follows(a, b) /\ Follows(b, c)
    BY <1>3 DEF Follows
  <1>7. \A i \in 1..Len(j) : i = 1 \/ i = 2 \/ i = 3
    BY <1>5
  <1>8. \A i \in 1..Len(j) - 1 : (i = 1 /\ i + 1 = 2) \/ (i = 2 /\ i + 1 = 3)
    <2>1. Len(j) - 1 = 2
      BY <1>5
    <2>2. \A i \in 1..2 : (i = 1 /\ i + 1 = 2) \/ (i = 2 /\ i + 1 = 3)
      OBVIOUS
    <2> QED
      BY <2>1, <2>2
  <1>9. \A i \in 1..Len(j) : Sound(j[i])
    BY <1>3, <1>5, <1>7
  <1>10. \A i \in 1..Len(j) - 1 : Follows(j[i], j[i + 1])
    BY <1>5, <1>6, <1>8
  <1>11. WellMade(j)
    BY <1>3, <1>5, <1>9, <1>10 DEF WellMade
  <1> QED
    BY <1>4, <1>5, <1>11 DEF a, b, c, j

\* The steps of a load that makes a new authority.
LEMMA LoadsMade ==
    ASSUME NEW n \in 0..MaxWritten
    PROVE  /\ WellMade(Loads(n)) /\ Len(Loads(n)) = 9
           /\ Loads(n)[1] = Step("create", Main("key"), Short)
           /\ Loads(n)[2] = Step("fill", Main("key"), n)
           /\ Loads(n)[3] = Step("create", Main("pem"), Short)
           /\ Loads(n)[4] = Step("fill", Main("pem"), n)
           /\ Loads(n)[5] = Step("create", Main("der"), Short)
           /\ Loads(n)[6] = Step("fill", Main("der"), n)
           /\ \A i \in 1..3 : Loads(n)[6 + i] = Reads[i]
  <1> DEFINE k == Write(Main("key"), n)
             p == Write(Main("pem"), n)
             d == Write(Main("der"), n)
             kp == k \o p
             kpd == kp \o d
             r == Reads
             j == kpd \o r
  <1>1. ASSUME NEW file \in Certificates
        PROVE  /\ WellMade(Write(Main(file), n)) /\ Len(Write(Main(file), n)) = 2
               /\ Write(Main(file), n)[1] = Step("create", Main(file), Short)
               /\ Write(Main(file), n)[2] = Step("fill", Main(file), n)
    <2>1. Main(file) \in Paths /\ Main(file)[1] = file /\ n \in Right(file)
      BY PathFacts, ContentFacts
    <2> QED
      BY <2>1, WriteMade
  <1>2. "key" \in Certificates /\ "pem" \in Certificates /\ "der" \in Certificates
    BY DEF Certificates
  <1>3. j = Loads(n)
    BY DEF Loads, Generate
  <1>4. /\ WellMade(k) /\ Len(k) = 2 /\ WellMade(p) /\ Len(p) = 2 /\ WellMade(d) /\ Len(d) = 2
        /\ k[1] = Step("create", Main("key"), Short) /\ k[2] = Step("fill", Main("key"), n)
        /\ p[1] = Step("create", Main("pem"), Short) /\ p[2] = Step("fill", Main("pem"), n)
        /\ d[1] = Step("create", Main("der"), Short) /\ d[2] = Step("fill", Main("der"), n)
    BY <1>1, <1>2
  <1>5. /\ WellMade(r) /\ Len(r) = 3
        /\ r[1] = Step("read", Main("key"), Short)
    BY ReadsMade
  <1> HIDE DEF k, p, d, r
  <1>6. /\ k \in Seq(Steps) /\ p \in Seq(Steps) /\ d \in Seq(Steps) /\ r \in Seq(Steps)
    BY <1>4, <1>5 DEF WellMade
  <1>7. /\ kp \in Seq(Steps) /\ Len(kp) = Len(k) + Len(p)
        /\ \A i \in 1..Len(kp) : kp[i] = IF i <= Len(k) THEN k[i] ELSE p[i - Len(k)]
    BY <1>6
  <1> HIDE DEF kp
  <1>8. /\ kpd \in Seq(Steps) /\ Len(kpd) = Len(kp) + Len(d)
        /\ \A i \in 1..Len(kpd) : kpd[i] = IF i <= Len(kp) THEN kp[i] ELSE d[i - Len(kp)]
    <2>1. kp \in Seq(Steps)
      BY <1>7
    <2> QED
      BY <1>6, <2>1
  <1> HIDE DEF kpd
  <1>9. /\ j \in Seq(Steps) /\ Len(j) = Len(kpd) + Len(r)
        /\ \A i \in 1..Len(j) : j[i] = IF i <= Len(kpd) THEN kpd[i] ELSE r[i - Len(kpd)]
    <2>1. kpd \in Seq(Steps)
      BY <1>8
    <2> QED
      BY <1>6, <2>1
  <1> HIDE DEF j
  <1>10. /\ Len(kp) = 4 /\ kp[1] = k[1] /\ kp[2] = k[2] /\ kp[3] = p[1] /\ kp[4] = p[2]
    BY <1>4, <1>7
  <1>11. /\ Len(kpd) = 6 /\ \A i \in 1..4 : kpd[i] = kp[i]
         /\ kpd[5] = d[1] /\ kpd[6] = d[2]
    BY <1>4, <1>8, <1>10
  <1>12. /\ Len(j) = 9 /\ \A i \in 1..6 : j[i] = kpd[i]
         /\ \A i \in 1..3 : j[6 + i] = r[i]
    BY <1>5, <1>9, <1>11
  <1>13. /\ k[2].op = "fill" /\ k[2].path[1] = "key" /\ p[1].op = "create" /\ p[1].path[1] = "pem"
         /\ p[2].op = "fill" /\ p[2].path[1] = "pem" /\ d[1].op = "create" /\ d[1].path[1] = "der"
         /\ d[2].op = "fill" /\ d[2].path[1] = "der" /\ r[1].op = "read" /\ r[1].path[1] = "key"
    BY <1>4, <1>5, StepIsRecord, PathFacts
  <1>14. ~("key" \in Replaced) /\ ~("pem" \in Replaced) /\ ~("der" \in Replaced)
    BY <1>2, PathFacts
  <1>15. Follows(k[2], p[1]) /\ Follows(p[2], d[1]) /\ Follows(d[2], r[1])
    BY <1>13, <1>14 DEF Follows
  <1>16. k # <<>> /\ p # <<>> /\ d # <<>> /\ r # <<>>
    BY <1>4, <1>5, <1>6
  <1>17. WellMade(kp) /\ kp # <<>> /\ kp[Len(kp)] = p[Len(p)]
    <2>1. Follows(k[Len(k)], p[1])
      BY <1>4, <1>15
    <2> QED
      BY <1>4, <1>16, <2>1, Joined DEF kp
  <1>18. WellMade(kpd) /\ kpd # <<>> /\ kpd[Len(kpd)] = d[Len(d)]
    <2>1. Follows(kp[Len(kp)], d[1])
      BY <1>4, <1>15, <1>17
    <2>2. WellMade(d)
      BY <1>4
    <2> QED
      BY <1>16, <1>17, <2>1, <2>2, Joined DEF kpd
  <1>19. WellMade(j)
    <2>1. Follows(kpd[Len(kpd)], r[1])
      BY <1>4, <1>15, <1>18
    <2>2. WellMade(r)
      BY <1>5
    <2> QED
      BY <1>16, <1>18, <2>1, <2>2, Joined DEF j
  <1>20. /\ j[1] = k[1] /\ j[2] = k[2] /\ j[3] = p[1] /\ j[4] = p[2] /\ j[5] = d[1] /\ j[6] = d[2]
    BY <1>10, <1>11, <1>12
  <1> QED
    BY <1>3, <1>4, <1>12, <1>19, <1>20 DEF r

----------------------------------------------------------------------------
(* The jobs of all threads. *)

LEMMA NoJob ==
    ASSUME NEW k, NEW w
    PROVE  JobOk(k, w, <<>>, Nowhere)
  <1>1. <<>> \in Seq(Steps) /\ Len(<<>>) = 0
    OBVIOUS
  <1>2. \A i \in 1..0 : FALSE
    OBVIOUS
  <1>3. WellMade(<<>>)
    <2>1. \A i \in 1..0 - 1 : FALSE
      OBVIOUS
    <2> QED
      BY <1>1, <1>2, <2>1 DEF WellMade
  <1>4. Assigned(k, w, <<>>) /\ PartOfLoad(<<>>)
    BY <1>1, <1>2 DEF Assigned, PartOfLoad
  <1> QED
    BY <1>3, <1>4 DEF JobOk

LEMMA RestOk ==
    ASSUME NEW k, NEW w, NEW s, NEW file, JobOk(k, w, s, file), s # <<>>,
           NEW next, next # Nowhere <=> Head(s).op = "create"
    PROVE  JobOk(k, w, Tail(s), next)
  <1>1. WellMade(s) /\ Assigned(k, w, s) /\ PartOfLoad(s)
    BY DEF JobOk
  <1>2. /\ WellMade(Tail(s)) /\ Len(Tail(s)) = Len(s) - 1 /\ Len(s) \in Nat \ {0}
        /\ \A i \in 1..Len(Tail(s)) : Tail(s)[i] = s[i + 1]
    BY <1>1, RestOfJob
  <1>3. \A i \in 1..Len(Tail(s)) : i + 1 \in 1..Len(s)
    BY <1>2
  <1>4. Assigned(k, w, Tail(s))
    BY <1>1, <1>2, <1>3 DEF Assigned
  <1>5. PartOfLoad(Tail(s))
    <2>1. CASE \A i \in 1..Len(s) : s[i].path[1] \notin Certificates
      BY <1>2, <1>3, <2>1 DEF PartOfLoad
    <2>2. CASE \E n \in 0..MaxWritten : LoadOf(s, n)
      <3>1. PICK n \in 0..MaxWritten : LoadOf(s, n)
        BY <2>2
      <3>2. CASE Tail(s) = <<>>
        BY <3>2, <1>2, NoJob DEF JobOk
      <3>3. CASE Tail(s) # <<>>
        <4>1. Len(Loads(n)) = 9
          BY LoadsMade
        <4>2. Len(s) <= 9 /\ \A i \in 1..Len(s) : s[i] = Loads(n)[i + 9 - Len(s)]
          BY <3>1, <4>1 DEF LoadOf, IsSuffix
        <4>3. ASSUME NEW i \in 1..Len(Tail(s)) PROVE Tail(s)[i] = Loads(n)[i + 9 - Len(Tail(s))]
          <5>1. (i + 1) + 9 - Len(s) = i + 9 - Len(Tail(s))
            BY <1>2, <4>3
          <5> QED
            BY <1>2, <1>3, <4>2, <4>3, <5>1
        <4>4. Len(Tail(s)) <= Len(Loads(n))
          BY <1>2, <4>1, <4>2
        <4>5. \A i \in 1..Len(Tail(s)) : Tail(s)[i] = Loads(n)[i + Len(Loads(n)) - Len(Tail(s))]
          BY <4>1, <4>3
        <4>6. LoadOf(Tail(s), n)
          BY <3>3, <4>4, <4>5 DEF LoadOf, IsSuffix
        <4> QED
          BY <4>6 DEF PartOfLoad
      <3> QED
        BY <3>2, <3>3
    <2> QED
      BY <1>1, <2>1, <2>2 DEF PartOfLoad
  <1>6. next # Nowhere <=> (Tail(s) # <<>> /\ Head(Tail(s)).op = "fill")
    <2>1. /\ Tail(s) # <<>> => Follows(Head(s), Head(Tail(s)))
          /\ Head(s).op = "create" => Tail(s) # <<>>
      BY <1>1, RestOfJob
    <2> QED
      BY <2>1 DEF Follows
  <1> QED
    BY <1>2, <1>4, <1>5, <1>6 DEF JobOk

LEMMA StartsOk ==
    ASSUME NEW k, NEW w, NEW s, WellMade(s), Starts(s), Assigned(k, w, s), PartOfLoad(s)
    PROVE  JobOk(k, w, s, Nowhere)
  <1>1. s # <<>> => Head(s) = s[1]
    BY DEF WellMade
  <1> QED
    BY <1>1 DEF JobOk, Starts

LEMMA OthersKnown ==
    ASSUME NEW k, NEW l, NEW w, NEW s, NEW file, JobOk(k, w, s, file),
           l[w[1]] = k[w[1]] \/ w[2] # UI
    PROVE  JobOk(l, w, s, file)
  BY DEF JobOk, Assigned

\* A step of one thread at its job.
LEMMA OneSteps ==
    ASSUME TypeOK, JobInv, NEW w \in Writers, UNCHANGED known,
           \A v \in Writers \ {w} : todo'[v] = todo[v] /\ open'[v] = open[v],
           JobOk(known, w, todo'[w], open'[w])
    PROVE  JobInv'
  BY DEF JobInv

\* What the steps have in common.
LEMMA StepFacts ==
    ASSUME TypeOK, JobInv, NEW w \in Writers, todo[w] # <<>>
    PROVE  LET step == Head(todo[w])
           IN /\ WellMade(todo[w]) /\ Sound(step) /\ step \in Steps
              /\ open[w] # Nowhere <=> step.op = "fill"
              /\ step.path[1] \in Documents =>
                    w[2] = UI /\ (step.op = "fill" => step.what = known[w[1]][KindOf(step.path[1])])
              /\ Rest(w)[w] = Tail(todo[w]) /\ \A v \in Writers \ {w} : Rest(w)[v] = todo[v]
              /\ JobOk(known, w, todo[w], open[w])
  <1>1. JobOk(known, w, todo[w], open[w]) /\ todo \in [Writers -> Seq(Steps)]
    BY DEF JobInv, TypeOK
  <1>2. /\ Head(todo[w]) = todo[w][1] /\ Sound(Head(todo[w])) /\ Head(todo[w]) \in Steps
        /\ Len(todo[w]) \in Nat \ {0}
    BY <1>1, RestOfJob DEF JobOk
  <1>3. 1 \in 1..Len(todo[w])
    BY <1>2
  <1> QED
    BY <1>1, <1>2, <1>3 DEF JobOk, Assigned, Rest

LEMMA AfterTail ==
    ASSUME TypeOK, JobInv, NEW w \in Writers, todo[w] # <<>>, todo' = Rest(w), UNCHANGED known,
           \A v \in Writers \ {w} : open'[v] = open[v],
           open'[w] # Nowhere <=> Head(todo[w]).op = "create"
    PROVE  JobInv'
  <1>1. /\ todo'[w] = Tail(todo[w]) /\ \A v \in Writers \ {w} : todo'[v] = todo[v]
        /\ JobOk(known, w, todo[w], open[w])
    BY StepFacts
  <1>2. JobOk(known, w, Tail(todo[w]), open'[w])
    BY <1>1, RestOk
  <1> QED
    BY <1>1, <1>2, OneSteps

LEMMA AfterEnd ==
    ASSUME TypeOK, JobInv, UNCHANGED known,
           \A v \in Writers : \/ todo'[v] = todo[v] /\ open'[v] = open[v]
                              \/ todo'[v] = <<>> /\ open'[v] = Nowhere
    PROVE  JobInv'
  BY NoJob DEF JobInv

LEMMA AfterStart ==
    ASSUME TypeOK, JobInv, NEW w \in Writers, todo[w] = <<>>,
           NEW s, todo' = [todo EXCEPT ![w] = s], UNCHANGED open,
           WellMade(s), Starts(s), Assigned(known', w, s), PartOfLoad(s),
           \A v \in Writers \ {w} : known'[v[1]] = known[v[1]] \/ v[2] # UI
    PROVE  JobInv'
  <1>1. todo'[w] = s /\ open'[w] = Nowhere /\ \A v \in Writers \ {w} : todo'[v] = todo[v]
    BY DEF TypeOK
  <1>2. JobOk(known', w, todo'[w], open'[w])
    BY <1>1, StartsOk
  <1>3. ASSUME NEW v \in Writers \ {w} PROVE JobOk(known', v, todo'[v], open'[v])
    BY <1>1, <1>3, OthersKnown DEF JobInv
  <1> QED
    BY <1>2, <1>3 DEF JobInv

\* The job of Put.
LEMMA PutMade ==
    ASSUME NEW body \in Bodies, NEW k, NEW w
    PROVE  /\ WellMade(Replace(body, body)) /\ Starts(Replace(body, body))
           /\ PartOfLoad(Replace(body, body)) /\ Assigned(k, w, Replace(body, body))
  <1> DEFINE s == Replace(body, body)
  <1>1. body \in Replaced /\ body \in Right(body) /\ body \notin Certificates /\ body \notin Documents
    BY ContentFacts, NamesAssumption DEF Replaced
  <1>2. /\ WellMade(s) /\ Len(s) = 3 /\ s[1] = Step("create", Temporary(body), Short)
        /\ s[2] = Step("fill", Temporary(body), body) /\ s[3] = Step("rename", Main(body), Short)
    BY <1>1, ReplaceMade
  <1> HIDE DEF s
  <1>3. s[1].path[1] = body /\ s[2].path[1] = body /\ s[3].path[1] = body /\ s[1].op = "create"
    BY <1>2, StepIsRecord, PathFacts
  <1>4. \A i \in 1..Len(s) : i = 1 \/ i = 2 \/ i = 3
    BY <1>2
  <1>5. \A i \in 1..Len(s) : s[i].path[1] = body
    BY <1>3, <1>4
  <1>6. Starts(s)
    BY <1>1, <1>3 DEF Starts, Documents
  <1>7. PartOfLoad(s)
    BY <1>1, <1>5 DEF PartOfLoad
  <1>8. Assigned(k, w, s)
    BY <1>1, <1>5 DEF Assigned
  <1> QED
    BY <1>2, <1>6, <1>7, <1>8 DEF s

LEMMA LoadNames ==
    ASSUME NEW n \in 0..MaxWritten, NEW i \in 1..9
    PROVE  Loads(n)[i].path[1] \in Certificates
  <1>1. "key" \in Certificates /\ "pem" \in Certificates /\ "der" \in Certificates
    BY DEF Certificates
  <1>2. CASE i <= 6
    <2>1. i = 1 \/ i = 2 \/ i = 3 \/ i = 4 \/ i = 5 \/ i = 6
      BY <1>2
    <2> QED
      BY <1>1, <2>1, LoadsMade, StepIsRecord, PathFacts
  <1>3. CASE i > 6
    <2>1. i - 6 = 1 \/ i - 6 = 2 \/ i - 6 = 3
      BY <1>3
    <2>2. i - 6 \in 1..3 /\ 6 + (i - 6) = i
      BY <1>3
    <2>3. Loads(n)[i] = Reads[i - 6]
      BY <2>2, LoadsMade
    <2>4. Reads[1].path[1] = "key" /\ Reads[2].path[1] = "pem" /\ Reads[3].path[1] = "der"
      BY ReadsMade, StepIsRecord, PathFacts
    <2> QED
      BY <1>1, <2>1, <2>3, <2>4
  <1> QED
    BY <1>2, <1>3

\* The rest of a load that makes authority n, by how much is left.
LEMMA LoadAt ==
    ASSUME NEW s, NEW n \in 0..MaxWritten, LoadOf(s, n), WellMade(s)
    PROVE  /\ Len(s) \in 1..9 /\ Head(s) = Loads(n)[10 - Len(s)]
           /\ \A i \in 1..Len(s) : s[i].path[1] \in Certificates
           /\ s[Len(s)] = Reads[3]
  <1>1. s \in Seq(Steps) /\ s # <<>> /\ Head(s) = s[1] /\ Len(s) \in Nat \ {0}
    BY DEF LoadOf, WellMade
  <1>2. Len(Loads(n)) = 9 /\ Loads(n)[6 + 3] = Reads[3]
    BY LoadsMade
  <1>3. Len(s) <= 9 /\ \A i \in 1..Len(s) : s[i] = Loads(n)[i + 9 - Len(s)]
    BY <1>2 DEF LoadOf, IsSuffix
  <1>4. s[1] = Loads(n)[1 + 9 - Len(s)] /\ s[Len(s)] = Loads(n)[Len(s) + 9 - Len(s)]
    BY <1>1, <1>3
  <1>5. 1 + 9 - Len(s) = 10 - Len(s) /\ Len(s) + 9 - Len(s) = 6 + 3
    BY <1>1
  <1>6. ASSUME NEW i \in 1..Len(s) PROVE s[i].path[1] \in Certificates
    <2>1. i + 9 - Len(s) \in 1..9
      <3>1. PICK k : k = Len(s)
        OBVIOUS
      <3>2. k \in Nat /\ k <= 9 /\ i \in 1..k
        BY <1>1, <1>3, <1>6, <3>1
      <3>3. i + 9 - k \in 1..9
        BY <3>2
      <3> QED
        BY <3>1, <3>3
    <2> QED
      BY <1>3, <1>6, <2>1, LoadNames
  <1> DEFINE m == Len(s)
  <1>7. Len(s) \in 1..9
    <2>1. m \in Nat \ {0} /\ m <= 9
      BY <1>1, <1>3
    <2> HIDE DEF m
    <2>2. m \in 1..9
      BY <2>1
    <2> QED
      BY <2>2 DEF m
  <1>8. Head(s) = Loads(n)[10 - Len(s)]
    BY <1>1, <1>4, <1>5
  <1>9. s[Len(s)] = Reads[3]
    BY <1>2, <1>4, <1>5
  <1> QED
    BY <1>6, <1>7, <1>8, <1>9

LEMMA LoadMade ==
    ASSUME NEW s, NEW n \in 0..MaxWritten, s = Reads \/ s = Loads(n), NEW k, NEW w
    PROVE  /\ WellMade(s) /\ Starts(s) /\ LoadOf(s, n) /\ PartOfLoad(s) /\ Assigned(k, w, s)
  <1>1. /\ WellMade(Loads(n)) /\ Len(Loads(n)) = 9 /\ \A i \in 1..3 : Loads(n)[6 + i] = Reads[i]
        /\ Loads(n)[1] = Step("create", Main("key"), Short)
    BY LoadsMade
  <1>2. /\ WellMade(Reads) /\ Len(Reads) = 3 /\ Reads[1] = Step("read", Main("key"), Short)
    BY ReadsMade
  <1>3. s # <<>>
    BY <1>1, <1>2, NotEmpty
  <1>4. IsSuffix(s, Loads(n))
    <2>1. CASE s = Loads(n)
      <3>1. \A i \in 1..9 : i + 9 - 9 = i
        OBVIOUS
      <3>2. Len(s) = 9 /\ Len(Loads(n)) = 9
        BY <1>1, <2>1
      <3>3. \A i \in 1..Len(s) : s[i] = Loads(n)[i + Len(Loads(n)) - Len(s)]
        BY <2>1, <3>1, <3>2
      <3> QED
        BY <3>2, <3>3 DEF IsSuffix
    <2>2. CASE s = Reads
      <3>1. \A i \in 1..3 : i + 9 - 3 = 6 + i
        OBVIOUS
      <3>2. Len(s) = 3 /\ Len(Loads(n)) = 9
        BY <1>1, <1>2, <2>2
      <3>3. \A i \in 1..Len(s) : s[i] = Loads(n)[i + Len(Loads(n)) - Len(s)]
        BY <1>1, <2>2, <3>1, <3>2
      <3> QED
        BY <3>2, <3>3 DEF IsSuffix
    <2> QED
      BY <2>1, <2>2
  <1>5. LoadOf(s, n) /\ WellMade(s)
    BY <1>1, <1>2, <1>3, <1>4 DEF LoadOf
  <1>6. Starts(s)
    BY <1>1, <1>2, StepIsRecord, PathFacts DEF Starts
  <1>7. Assigned(k, w, s)
    <2>1. \A i \in 1..Len(s) : s[i].path[1] \in Certificates
      BY <1>5, LoadAt
    <2> QED
      BY <2>1 DEF Assigned, Certificates, Documents
  <1> QED
    BY <1>5, <1>6, <1>7 DEF PartOfLoad

LEMMA JobStep ==
    ASSUME TypeOK, JobInv, Next
    PROVE  JobInv'
  <1>1. ASSUME NEW w \in Writers, Put(w) PROVE JobInv'
    <2>1. PICK body \in Bodies :
              todo' = [todo EXCEPT ![w] = IF Exists(body) THEN <<>> ELSE Replace(body, body)]
      BY <1>1, Zenon DEF Put
    <2>2. todo[w] = <<>> /\ UNCHANGED <<open, known>>
      BY <1>1 DEF Put, Idle
    <2> DEFINE s == IF Exists(body) THEN <<>> ELSE Replace(body, body)
    <2>3. WellMade(s) /\ Starts(s) /\ PartOfLoad(s) /\ Assigned(known', w, s)
      BY PutMade, NoJob DEF JobOk, Starts
    <2>4. todo' = [todo EXCEPT ![w] = s]
      BY <2>1
    <2> HIDE DEF s
    <2> QED
      BY <2>2, <2>3, <2>4, AfterStart
  <1>2. ASSUME NEW w \in Writers, LoadAuthority(w) PROVE JobInv'
    <2>1. todo[w] = <<>> /\ UNCHANGED <<open, known>>
      BY <1>2 DEF LoadAuthority, Idle
    <2>2. PICK n \in 0..MaxWritten : \E s \in {Reads, Loads(n)} : todo' = [todo EXCEPT ![w] = s]
      <3>1. CASE \A file \in Certificates : Exists(file)
        <4>1. todo' = [todo EXCEPT ![w] = Reads] /\ 0 \in 0..MaxWritten
          BY <1>2, <3>1, ThreadsAssumption DEF LoadAuthority
        <4> QED
          BY <4>1
      <3>2. CASE ~\A file \in Certificates : Exists(file)
        <4>1. /\ todo' = [todo EXCEPT ![w] = Loads(authority')]
              /\ authority < MaxWritten /\ authority' = authority + 1
          BY <1>2, <3>2 DEF LoadAuthority, Loads
        <4>2. authority' \in 0..MaxWritten
          BY <4>1, ThreadsAssumption DEF TypeOK
        <4> QED
          BY <4>1, <4>2
      <3> QED
        BY <3>1, <3>2
    <2>3. PICK s \in {Reads, Loads(n)} : todo' = [todo EXCEPT ![w] = s]
      BY <2>2
    <2>4. WellMade(s) /\ Starts(s) /\ PartOfLoad(s) /\ Assigned(known', w, s)
      BY LoadMade
    <2> QED
      BY <2>1, <2>3, <2>4, AfterStart
  <1>3. ASSUME NEW w \in Writers, Create(w) PROVE JobInv'
    <2>1. /\ todo[w] # <<>> /\ Head(todo[w]).op = "create" /\ todo' = Rest(w) /\ UNCHANGED known
      BY <1>3 DEF Create, Next1
    <2>2. PICK file \in Files : open' = [open EXCEPT ![w] = file]
      <3>1. PICK path : path = Head(todo[w]).path
        OBVIOUS
      <3>2. path \in Paths
        BY <2>1, <3>1, StepFacts DEF Steps
      <3>3. (IF at[path] # Nowhere THEN at[path] ELSE CHOOSE f \in Unused : TRUE) \in Files
        <4>1. Unused # {}
          BY <1>3 DEF Create
        <4>2. (CHOOSE f \in Unused : TRUE) \in Files
          BY <4>1 DEF Unused
        <4> QED
          BY <3>2, <4>2 DEF TypeOK
      <3>4. open' = [open EXCEPT ![w] = IF at[path] # Nowhere THEN at[path] ELSE CHOOSE f \in Unused : TRUE]
        BY <1>3, <3>1 DEF Create
      <3> QED
        BY <3>3, <3>4
    <2>3. open'[w] # Nowhere /\ \A v \in Writers \ {w} : open'[v] = open[v]
      BY <2>2, NamesAssumption DEF TypeOK, Files
    <2> QED
      BY <2>1, <2>3, AfterTail
  <1>4. ASSUME NEW w \in Writers, Fill(w) PROVE JobInv'
    <2>1. /\ todo[w] # <<>> /\ Head(todo[w]).op = "fill" /\ todo' = Rest(w) /\ UNCHANGED known
          /\ open' = [open EXCEPT ![w] = Nowhere]
      BY <1>4 DEF Fill, Next1
    <2>2. open'[w] = Nowhere /\ \A v \in Writers \ {w} : open'[v] = open[v]
      BY <2>1 DEF TypeOK
    <2> QED
      BY <2>1, <2>2, AfterTail
  <1>5. ASSUME NEW w \in Writers, Rename(w) PROVE JobInv'
    <2>1. /\ todo[w] # <<>> /\ Head(todo[w]).op = "rename" /\ UNCHANGED <<known, open>>
          /\ todo' = Rest(w) \/ todo' = [todo EXCEPT ![w] = <<>>]
      BY <1>5 DEF Rename, Next1
    <2>2. open[w] = Nowhere
      BY <2>1, StepFacts
    <2>3. CASE todo' = Rest(w)
      BY <2>1, <2>2, <2>3, AfterTail
    <2>4. CASE todo' = [todo EXCEPT ![w] = <<>>]
      BY <2>1, <2>2, <2>4, AfterEnd DEF TypeOK
    <2> QED
      BY <2>1, <2>3, <2>4
  <1>6. ASSUME NEW w \in Writers, Read(w) PROVE JobInv'
    <2>1. /\ todo[w] # <<>> /\ Head(todo[w]).op = "read" /\ UNCHANGED <<known, open>>
          /\ todo' = Rest(w) \/ todo' = [todo EXCEPT ![w] = <<>>]
      BY <1>6 DEF Read, Next1
    <2>2. open[w] = Nowhere
      BY <2>1, StepFacts
    <2>3. CASE todo' = Rest(w)
      BY <2>1, <2>2, <2>3, AfterTail
    <2>4. CASE todo' = [todo EXCEPT ![w] = <<>>]
      BY <2>1, <2>2, <2>4, AfterEnd DEF TypeOK
    <2> QED
      BY <2>1, <2>3, <2>4
  <1>7. ASSUME NEW w \in Writers, WriteFails(w) PROVE JobInv'
    <2>1. /\ todo' = [todo EXCEPT ![w] = <<>>] /\ open' = [open EXCEPT ![w] = Nowhere]
          /\ UNCHANGED known
      BY <1>7 DEF WriteFails
    <2> QED
      BY <2>1, AfterEnd DEF TypeOK
  <1>8. ASSUME NEW p \in Processes, Save(p) PROVE JobInv'
    <2>1. PICK kind \in {"analysis", "settings"} :
             /\ known[p][kind] < MaxWritten
             /\ known' = [known EXCEPT ![p][kind] = @ + 1]
             /\ todo' = [todo EXCEPT ![<<p, UI>>] = Saved(p, kind, known'[p][kind])]
      BY <1>8, Zenon DEF Save
    <2>2. todo[<<p, UI>>] = <<>> /\ UNCHANGED open /\ <<p, UI>> \in Writers
      BY <1>8, ThreadsAssumption DEF Save, Idle, Writers
    <2>3. known'[p][kind] \in 0..MaxWritten /\ \A q \in Processes \ {p} : known'[q] = known[q]
      BY <2>1, ThreadsAssumption DEF TypeOK
    <2>4. PICK n \in 0..MaxWritten :
             n = known'[p][kind] /\ todo' = [todo EXCEPT ![<<p, UI>>] = Saved(p, kind, n)]
      BY <2>1, <2>3
    <2> DEFINE w == <<p, UI>>
               s == Saved(p, kind, n)
    <2>5. WellMade(s) /\ Starts(s) /\ s # <<>> /\ Versioned(s, kind, n)
      BY SavedMade
    <2>9. todo' = [todo EXCEPT ![w] = s]
      BY <2>4
    <2> HIDE DEF s
    <2>6. Assigned(known', w, s)
      BY <2>4, <2>5 DEF Assigned, Versioned
    <2>7. PartOfLoad(s)
      BY <2>5 DEF PartOfLoad, Versioned, Documents, Certificates
    <2>8. \A v \in Writers \ {w} : known'[v[1]] = known[v[1]] \/ v[2] # UI
      BY <2>3 DEF Writers
    <2> QED
      BY <2>2, <2>5, <2>6, <2>7, <2>8, <2>9, AfterStart
  <1>9. ASSUME NEW p \in Processes, Launch(p) PROVE JobInv'
    <2>1. p \notin live /\ UNCHANGED <<todo, open>> /\ \A q \in Processes \ {p} : known'[q] = known[q]
      BY <1>9 DEF Launch, TypeOK
    <2>2. ASSUME NEW w \in Writers PROVE JobOk(known', w, todo'[w], open'[w])
      <3>1. w[1] \in Processes
        BY DEF Writers
      <3>2. CASE w[1] = p
        BY <2>1, <3>2, NoJob DEF TypeOK, ProcessOf
      <3>3. CASE w[1] # p
        BY <2>1, <3>1, <3>3, OthersKnown DEF JobInv
      <3> QED
        BY <3>2, <3>3
    <2> QED
      BY <2>2 DEF JobInv
  <1>10. ASSUME NEW p \in Processes, Crash(p) PROVE JobInv'
    <2>1. /\ UNCHANGED known
          /\ \A w \in Writers : \/ todo'[w] = todo[w] /\ open'[w] = open[w]
                                \/ todo'[w] = <<>> /\ open'[w] = Nowhere
      BY <1>10 DEF Crash
    <2> QED
      BY <2>1, AfterEnd
  <1>11. CASE Delete
    BY <1>11 DEF Delete, JobInv
  <1> QED
    BY <1>1, <1>2, <1>3, <1>4, <1>5, <1>6, <1>7, <1>8, <1>9, <1>10, <1>11, Zenon DEF Next

----------------------------------------------------------------------------
(* The files under their names. *)

\* Files that stay as they are, under the names they have or none.
LEMMA FilesMoved ==
    ASSUME OpenInv, ContentInv, UNCHANGED content, cut => cut',
           \A q \in Paths : \/ at'[q] = Nowhere
                            \/ \E r \in Paths : r[1] = q[1] /\ at'[q] = at[r],
           \A v \in Writers : \/ open'[v] = Nowhere /\ (open[v] # Nowhere => cut')
                              \/ open'[v] = open[v] /\ Head(todo'[v]).path[1] = NameOf(v)
    PROVE  OpenInv' /\ ContentInv'
  <1>1. ASSUME NEW w \in Writers, open'[w] # Nowhere
        PROVE  /\ \A q \in Paths : at'[q] = open'[w] => q[1] = Head(todo'[w]).path[1]
               /\ \A v \in Writers : open'[v] = open'[w] => Head(todo'[v]).path[1] = Head(todo'[w]).path[1]
    <2>1. open'[w] = open[w] /\ Head(todo'[w]).path[1] = NameOf(w) /\ open[w] # Nowhere
      BY <1>1
    <2>2. ASSUME NEW q \in Paths, at'[q] = open'[w] PROVE q[1] = Head(todo'[w]).path[1]
      <3>1. PICK r \in Paths : r[1] = q[1] /\ at'[q] = at[r]
        BY <1>1, <2>2
      <3>2. r[1] = NameOf(w)
        BY <2>1, <2>2, <3>1 DEF OpenInv
      <3> QED
        BY <2>1, <3>1, <3>2
    <2>3. ASSUME NEW v \in Writers, open'[v] = open'[w]
          PROVE  Head(todo'[v]).path[1] = Head(todo'[w]).path[1]
      <3>1. open'[v] = open[v] /\ Head(todo'[v]).path[1] = NameOf(v)
        BY <1>1, <2>3
      <3>2. NameOf(v) = NameOf(w)
        BY <2>1, <2>3, <3>1 DEF OpenInv
      <3> QED
        BY <2>1, <3>1, <3>2
    <2> QED
      BY <2>2, <2>3
  <1>2. ASSUME NEW q \in Paths, at'[q] # Nowhere
        PROVE  /\ content'[at'[q]] \in Right(q[1]) \cup {Short}
               /\ (q[1] \in Bodies /\ content'[at'[q]] = Short /\ ~cut') =>
                      \E w \in Writers : open'[w] = at'[q]
    <2>1. PICK r \in Paths : r[1] = q[1] /\ at'[q] = at[r]
      BY <1>2
    <2>2. content[at[r]] \in Right(q[1]) \cup {Short}
      BY <1>2, <2>1 DEF ContentInv
    <2>3. ASSUME q[1] \in Bodies, content'[at'[q]] = Short, ~cut'
          PROVE  \E w \in Writers : open'[w] = at'[q]
      <3>1. PICK w \in Writers : open[w] = at[r]
        BY <1>2, <2>1, <2>3 DEF ContentInv
      <3>2. open'[w] = open[w]
        BY <1>2, <2>1, <2>3, <3>1
      <3> QED
        BY <2>1, <3>1, <3>2
    <2> QED
      BY <2>1, <2>2, <2>3
  <1> QED
    BY <1>1, <1>2 DEF OpenInv, ContentInv, NameOf

\* Create(w), with the file it takes.
LEMMA Created ==
    ASSUME TypeOK, JobInv, NEW w \in Writers, Create(w)
    PROVE  \E file \in Files :
              LET path == Head(todo[w]).path
              IN /\ path \in Paths /\ Head(todo[w]).op = "create" /\ open[w] = Nowhere
                 /\ at' = [at EXCEPT ![path] = file] /\ content' = [content EXCEPT ![file] = Short]
                 /\ open' = [open EXCEPT ![w] = file]
                 /\ at[path] = file \/ (/\ \A q \in Paths : at[q] # file
                                        /\ \A v \in Writers : open[v] # file)
                 /\ Head(todo'[w]).path = path /\ \A v \in Writers \ {w} : todo'[v] = todo[v]
                 /\ todo[w] # <<>> /\ todo'[w] = Tail(todo[w])
  <1>1. /\ todo[w] # <<>> /\ Head(todo[w]).op = "create" /\ todo' = Rest(w) /\ Unused # {}
    BY DEF Create, Next1
  <1>2. PICK path : path = Head(todo[w]).path
    OBVIOUS
  <1>3. PICK file : file = IF at[path] # Nowhere THEN at[path] ELSE CHOOSE f \in Unused : TRUE
    OBVIOUS
  <1>4. /\ at' = [at EXCEPT ![path] = file] /\ content' = [content EXCEPT ![file] = Short]
        /\ open' = [open EXCEPT ![w] = file]
    BY <1>2, <1>3 DEF Create
  <1>5. /\ path \in Paths /\ open[w] = Nowhere /\ WellMade(todo[w])
        /\ todo'[w] = Tail(todo[w]) /\ \A v \in Writers \ {w} : todo'[v] = todo[v]
    <2>1. /\ Head(todo[w]) \in Steps /\ WellMade(todo[w])
          /\ open[w] # Nowhere <=> Head(todo[w]).op = "fill"
      BY <1>1, StepFacts
    <2>2. todo'[w] = Tail(todo[w]) /\ \A v \in Writers \ {w} : todo'[v] = todo[v]
      BY <1>1, StepFacts
    <2> QED
      BY <1>1, <1>2, <2>1, <2>2 DEF Steps
  <1>6. Head(todo'[w]).path = path
    <2>1. /\ Tail(todo[w]) # <<>> /\ Follows(Head(todo[w]), Head(Tail(todo[w])))
      BY <1>1, <1>5, RestOfJob
    <2> QED
      BY <1>1, <1>2, <1>5, <2>1 DEF Follows
  <1>7. CASE at[path] # Nowhere
    <2>1. file = at[path] /\ file \in Files
      BY <1>3, <1>5, <1>7 DEF TypeOK
    <2> QED
      BY <1>1, <1>2, <1>4, <1>5, <1>6, <2>1
  <1>8. CASE at[path] = Nowhere
    <2>1. file \in Unused
      BY <1>1, <1>3, <1>8
    <2>2. /\ file \in Files /\ \A q \in Paths : at[q] # file
          /\ \A v \in Writers : open[v] # file
      BY <2>1 DEF Unused
    <2> QED
      BY <1>1, <1>2, <1>4, <1>5, <1>6, <2>2
  <1> QED
    BY <1>7, <1>8

LEMMA FilesCreated ==
    ASSUME TypeOK, JobInv, OpenInv, ContentInv, NEW w \in Writers, Create(w)
    PROVE  OpenInv' /\ ContentInv'
  <1> DEFINE path == Head(todo[w]).path
  <1>1. PICK file \in Files :
          /\ path \in Paths /\ Head(todo[w]).op = "create" /\ open[w] = Nowhere
          /\ at' = [at EXCEPT ![path] = file] /\ content' = [content EXCEPT ![file] = Short]
          /\ open' = [open EXCEPT ![w] = file]
          /\ at[path] = file \/ (/\ \A q \in Paths : at[q] # file
                                 /\ \A v \in Writers : open[v] # file)
          /\ Head(todo'[w]).path = path /\ \A v \in Writers \ {w} : todo'[v] = todo[v]
    BY Created
  <1> HIDE DEF path
  <1>2. file # Nowhere
    BY NamesAssumption DEF Files
  <1>3. /\ at'[path] = file /\ \A q \in Paths \ {path} : at'[q] = at[q]
        /\ content'[file] = Short /\ \A f \in Files \ {file} : content'[f] = content[f]
        /\ open'[w] = file /\ \A v \in Writers \ {w} : open'[v] = open[v]
    BY <1>1 DEF TypeOK
  <1>4. \A q \in Paths : at'[q] = file => q = path
    BY <1>1, <1>2, <1>3 DEF TypeOK
  <1>5. \A v \in Writers \ {w} : open[v] = file => NameOf(v) = path[1]
    BY <1>1, <1>2 DEF OpenInv
  <1>6. \A v \in Writers \ {w} : Head(todo'[v]).path[1] = NameOf(v)
    BY <1>1 DEF NameOf
  <1>7. Head(todo'[w]).path[1] = path[1]
    BY <1>1
  <1>8. ASSUME NEW v \in Writers, open'[v] # Nowhere
        PROVE  /\ \A q \in Paths : at'[q] = open'[v] => q[1] = Head(todo'[v]).path[1]
               /\ \A u \in Writers : open'[u] = open'[v] => Head(todo'[u]).path[1] = Head(todo'[v]).path[1]
    <2>1. CASE v = w
      BY <1>3, <1>4, <1>5, <1>6, <1>7, <2>1
    <2>2. CASE v # w
      <3>1. open'[v] = open[v] /\ Head(todo'[v]).path[1] = NameOf(v)
        BY <1>3, <1>6, <2>2
      <3>2. ASSUME NEW q \in Paths, at'[q] = open'[v] PROVE q[1] = Head(todo'[v]).path[1]
        <4>1. CASE q = path
          BY <1>3, <1>5, <2>2, <3>1, <3>2, <4>1
        <4>2. CASE q # path
          BY <1>3, <1>8, <3>1, <3>2, <4>2 DEF OpenInv
        <4> QED
          BY <4>1, <4>2
      <3>3. ASSUME NEW u \in Writers, open'[u] = open'[v]
            PROVE  Head(todo'[u]).path[1] = Head(todo'[v]).path[1]
        <4>1. CASE u = w
          BY <1>3, <1>5, <1>7, <2>2, <3>1, <3>3, <4>1
        <4>2. CASE u # w
          <5>1. open[u] = open[v] /\ Head(todo'[u]).path[1] = NameOf(u)
            BY <1>3, <1>6, <3>1, <3>3, <4>2
          <5>2. NameOf(u) = NameOf(v)
            BY <1>8, <3>1, <5>1 DEF OpenInv
          <5> QED
            BY <3>1, <5>1, <5>2
        <4> QED
          BY <4>1, <4>2
      <3> QED
        BY <3>2, <3>3
    <2> QED
      BY <2>1, <2>2
  <1>9. ASSUME NEW q \in Paths, at'[q] # Nowhere
        PROVE  /\ content'[at'[q]] \in Right(q[1]) \cup {Short}
               /\ (q[1] \in Bodies /\ content'[at'[q]] = Short /\ ~cut') =>
                      \E v \in Writers : open'[v] = at'[q]
    <2>1. CASE at'[q] = file
      BY <1>3, <2>1
    <2>2. CASE at'[q] # file
      <3>1. q # path /\ at'[q] = at[q] /\ at[q] \in Files
        BY <1>3, <1>9, <2>2 DEF TypeOK
      <3>2. content'[at'[q]] = content[at[q]]
        BY <1>3, <2>2, <3>1
      <3>3. cut' = cut
        BY DEF Create, past
      <3>4. ASSUME NEW v \in Writers, open[v] = at[q] PROVE open'[v] = at'[q]
        BY <1>1, <1>3, <1>9, <3>1, <3>4
      <3> QED
        BY <1>9, <3>1, <3>2, <3>3, <3>4 DEF ContentInv
    <2> QED
      BY <2>1, <2>2
  <1> QED
    BY <1>8, <1>9 DEF OpenInv, ContentInv, NameOf

\* Fill(w), with the file it fills.
LEMMA Filled ==
    ASSUME TypeOK, JobInv, NEW w \in Writers, Fill(w)
    PROVE  LET step == Head(todo[w])
           IN /\ open[w] \in Files /\ step \in Steps /\ step.op = "fill"
              /\ step.what \in Right(step.path[1]) /\ step.path[1] \in Named /\ step.what # Short
              /\ content'[open[w]] = step.what
              /\ \A f \in Files \ {open[w]} : content'[f] = content[f]
              /\ open'[w] = Nowhere /\ \A v \in Writers \ {w} : open'[v] = open[v] /\ todo'[v] = todo[v]
              /\ todo[w] # <<>> /\ todo'[w] = Tail(todo[w])
  <1>1. /\ todo[w] # <<>> /\ Head(todo[w]).op = "fill" /\ todo' = Rest(w)
        /\ content' = [content EXCEPT ![open[w]] = Head(todo[w]).what]
        /\ open' = [open EXCEPT ![w] = Nowhere]
    BY DEF Fill, Next1
  <1>2. /\ Head(todo[w]) \in Steps /\ Sound(Head(todo[w])) /\ open[w] # Nowhere
        /\ Rest(w)[w] = Tail(todo[w]) /\ \A v \in Writers \ {w} : Rest(w)[v] = todo[v]
    BY <1>1, StepFacts
  <1>3. open[w] \in Files
    BY <1>2 DEF TypeOK
  <1>4. /\ Head(todo[w]).what \in Right(Head(todo[w]).path[1])
        /\ Head(todo[w]).path[1] \in Named
    BY <1>1, <1>2, PathFacts DEF Sound, Named, Replaced
  <1>5. Head(todo[w]).what # Short
    BY <1>4, ContentFacts
  <1>6. /\ content'[open[w]] = Head(todo[w]).what
        /\ \A f \in Files \ {open[w]} : content'[f] = content[f]
        /\ open'[w] = Nowhere /\ \A v \in Writers \ {w} : open'[v] = open[v]
    BY <1>1, <1>3 DEF TypeOK
  <1> QED
    BY <1>1, <1>2, <1>3, <1>4, <1>5, <1>6

LEMMA FilesFilled ==
    ASSUME TypeOK, JobInv, OpenInv, ContentInv, NEW w \in Writers, Fill(w)
    PROVE  OpenInv' /\ ContentInv'
  <1> DEFINE what == Head(todo[w]).what
             file == open[w]
  <1>1. /\ file \in Files /\ what \in Right(NameOf(w)) /\ what # Short
        /\ content'[file] = what /\ \A f \in Files \ {file} : content'[f] = content[f]
        /\ open'[w] = Nowhere /\ \A v \in Writers \ {w} : open'[v] = open[v] /\ todo'[v] = todo[v]
    BY Filled DEF NameOf
  <1>2. at' = at /\ cut' = cut
    BY DEF Fill, past
  <1>3. file # Nowhere /\ file = open[w]
    BY <1>1, NamesAssumption DEF Files
  <1> HIDE DEF what, file
  <1>4. ASSUME NEW v \in Writers, open'[v] # Nowhere
        PROVE  /\ \A q \in Paths : at'[q] = open'[v] => q[1] = Head(todo'[v]).path[1]
               /\ \A u \in Writers : open'[u] = open'[v] => Head(todo'[u]).path[1] = Head(todo'[v]).path[1]
    <2>1. v # w /\ open'[v] = open[v] /\ todo'[v] = todo[v]
      BY <1>1, <1>4
    <2>2. \A u \in Writers : open'[u] = open'[v] => open[u] = open[v] /\ todo'[u] = todo[u]
      BY <1>1, <1>4, <2>1
    <2> QED
      BY <1>2, <1>4, <2>1, <2>2 DEF OpenInv, NameOf
  <1>5. ASSUME NEW q \in Paths, at'[q] # Nowhere
        PROVE  /\ content'[at'[q]] \in Right(q[1]) \cup {Short}
               /\ (q[1] \in Bodies /\ content'[at'[q]] = Short /\ ~cut') =>
                      \E v \in Writers : open'[v] = at'[q]
    <2>1. CASE at[q] = file
      <3>1. q[1] = NameOf(w)
        BY <1>3, <2>1 DEF OpenInv
      <3> QED
        BY <1>1, <1>2, <2>1, <3>1
    <2>2. CASE at[q] # file
      <3>1. content'[at'[q]] = content[at[q]]
        BY <1>1, <1>2, <1>5, <2>2 DEF TypeOK
      <3>2. ASSUME NEW v \in Writers, open[v] = at[q] PROVE open'[v] = at'[q]
        BY <1>1, <1>2, <1>3, <2>2, <3>2
      <3> QED
        BY <1>2, <1>5, <3>1, <3>2 DEF ContentInv
    <2> QED
      BY <2>1, <2>2
  <1> QED
    BY <1>4, <1>5 DEF OpenInv, ContentInv, NameOf

\* Rename(w), with the name it is about.
LEMMA Renamed ==
    ASSUME TypeOK, JobInv, NEW w \in Writers, Rename(w)
    PROVE  \E name \in Replaced :
              /\ todo[w] # <<>> /\ Head(todo[w]).op = "rename" /\ Head(todo[w]).path = Main(name)
              /\ Head(todo[w]) \in Steps
              /\ open[w] = Nowhere /\ \A v \in Writers \ {w} : todo'[v] = todo[v]
              /\ \/ /\ at[Temporary(name)] = Nowhere /\ UNCHANGED <<at, newest>>
                    /\ todo'[w] = <<>>
                 \/ /\ at[Temporary(name)] # Nowhere
                    /\ at' = [at EXCEPT ![Main(name)] = at[Temporary(name)], ![Temporary(name)] = Nowhere]
                    /\ newest' = Latest(name, content[at[Temporary(name)]])
                    /\ todo'[w] = Tail(todo[w])
  <1>1. todo[w] # <<>> /\ Head(todo[w]).op = "rename"
    BY DEF Rename, Next1
  <1>2. /\ Sound(Head(todo[w])) /\ open[w] = Nowhere /\ Rest(w)[w] = Tail(todo[w])
        /\ Head(todo[w]) \in Steps
        /\ \A v \in Writers \ {w} : Rest(w)[v] = todo[v]
    BY <1>1, StepFacts
  <1>3. PICK name \in Replaced : Head(todo[w]).path = Main(name)
    BY <1>1, <1>2 DEF Sound
  <1>4. Head(todo[w]).path[1] = name
    BY <1>3, PathFacts
  <1>5. CASE at[Temporary(name)] = Nowhere
    <2>1. todo' = [todo EXCEPT ![w] = <<>>] /\ UNCHANGED <<at, newest>>
      BY <1>4, <1>5 DEF Rename
    <2>2. todo'[w] = <<>> /\ \A v \in Writers \ {w} : todo'[v] = todo[v]
      BY <2>1 DEF TypeOK
    <2> QED
      BY <1>1, <1>2, <1>3, <1>5, <2>1, <2>2
  <1>6. CASE at[Temporary(name)] # Nowhere
    <2>1. /\ at' = [at EXCEPT ![Main(name)] = at[Temporary(name)], ![Temporary(name)] = Nowhere]
          /\ newest' = Latest(name, content[at[Temporary(name)]])
          /\ todo' = Rest(w)
      BY <1>3, <1>4, <1>6 DEF Rename
    <2> QED
      BY <1>1, <1>2, <1>3, <1>6, <2>1
  <1> QED
    BY <1>5, <1>6

LEMMA RenamedAt ==
    ASSUME TypeOK, NEW name \in Replaced,
           at' = [at EXCEPT ![Main(name)] = at[Temporary(name)], ![Temporary(name)] = Nowhere]
    PROVE  /\ at'[Main(name)] = at[Temporary(name)] /\ at'[Temporary(name)] = Nowhere
           /\ \A q \in Paths \ {Main(name), Temporary(name)} : at'[q] = at[q]
           /\ Main(name) \in Paths /\ Temporary(name) \in Paths
           /\ at' \in [Paths -> Files \cup {Nowhere}]
  <1>1. Main(name) \in Paths /\ Temporary(name) \in Paths /\ Main(name) # Temporary(name)
    BY PathFacts
  <1>2. at \in [Paths -> Files \cup {Nowhere}]
    BY DEF TypeOK
  <1> QED
    BY <1>1, <1>2

LEMMA FileStep ==
    ASSUME TypeOK, JobInv, OpenInv, ContentInv, Next
    PROVE  OpenInv' /\ ContentInv'
  <1> DEFINE Stays(v) == open'[v] = open[v] /\ Head(todo'[v]).path[1] = NameOf(v)
  <1>0. \A q \in Paths : \E r \in Paths : r[1] = q[1] /\ at[q] = at[r]
    OBVIOUS
  <1>1. ASSUME NEW w \in Writers, todo[w] = <<>>, UNCHANGED <<disk, open, cut>>,
               \A v \in Writers \ {w} : todo'[v] = todo[v]
        PROVE  OpenInv' /\ ContentInv'
    <2>1. open[w] = Nowhere
      BY <1>1 DEF TypeOK
    <2>2. \A v \in Writers : \/ open'[v] = Nowhere /\ (open[v] # Nowhere => cut')
                             \/ Stays(v)
      BY <1>1, <2>1 DEF NameOf
    <2> QED
      BY <1>0, <1>1, <2>2, FilesMoved DEF disk
  <1>2. ASSUME NEW w \in Writers, Put(w) PROVE OpenInv' /\ ContentInv'
    <2>1. todo[w] = <<>> /\ UNCHANGED <<disk, open, cut>> /\ \E s : todo' = [todo EXCEPT ![w] = s]
      BY <1>2 DEF Put, Idle, past
    <2> QED
      BY <1>1, <2>1 DEF TypeOK
  <1>3. ASSUME NEW w \in Writers, LoadAuthority(w) PROVE OpenInv' /\ ContentInv'
    <2>1. todo[w] = <<>> /\ UNCHANGED <<disk, open, cut>> /\ \E s : todo' = [todo EXCEPT ![w] = s]
      BY <1>3 DEF LoadAuthority, Idle
    <2> QED
      BY <1>1, <2>1 DEF TypeOK
  <1>4. ASSUME NEW p \in Processes, Save(p) PROVE OpenInv' /\ ContentInv'
    <2>1. /\ todo[<<p, UI>>] = <<>> /\ UNCHANGED <<disk, open, cut>> /\ <<p, UI>> \in Writers
          /\ \E s : todo' = [todo EXCEPT ![<<p, UI>>] = s]
      BY <1>4, ThreadsAssumption DEF Save, Idle, past, Writers
    <2> QED
      BY <1>1, <2>1 DEF TypeOK
  <1>5. ASSUME NEW w \in Writers, Create(w) PROVE OpenInv' /\ ContentInv'
    BY <1>5, FilesCreated
  <1>6. ASSUME NEW w \in Writers, Fill(w) PROVE OpenInv' /\ ContentInv'
    BY <1>6, FilesFilled
  <1>7. ASSUME NEW w \in Writers, Rename(w) PROVE OpenInv' /\ ContentInv'
    <2>1. PICK name \in Replaced :
              /\ open[w] = Nowhere /\ \A v \in Writers \ {w} : todo'[v] = todo[v]
              /\ \/ UNCHANGED at
                 \/ at' = [at EXCEPT ![Main(name)] = at[Temporary(name)], ![Temporary(name)] = Nowhere]
      BY <1>7, Renamed
    <2>2. UNCHANGED <<content, open, cut>>
      BY <1>7 DEF Rename
    <2>3. \A v \in Writers : \/ open'[v] = Nowhere /\ (open[v] # Nowhere => cut')
                             \/ Stays(v)
      BY <2>1, <2>2 DEF NameOf
    <2>4. ASSUME NEW q \in Paths
          PROVE  at'[q] = Nowhere \/ \E r \in Paths : r[1] = q[1] /\ at'[q] = at[r]
      <3>1. CASE UNCHANGED at
        BY <3>1
      <3>2. CASE at' = [at EXCEPT ![Main(name)] = at[Temporary(name)], ![Temporary(name)] = Nowhere]
        <4>1. /\ at'[Main(name)] = at[Temporary(name)] /\ at'[Temporary(name)] = Nowhere
              /\ \A r \in Paths \ {Main(name), Temporary(name)} : at'[r] = at[r]
              /\ Temporary(name) \in Paths
          <5>1. name \in Replaced
            OBVIOUS
          <5> QED
            BY <3>2, <5>1, RenamedAt
        <4>4. Temporary(name)[1] = Main(name)[1]
          BY PathFacts
        <4>2. CASE q = Main(name)
          BY <4>1, <4>2, <4>4
        <4>3. CASE q # Main(name)
          BY <2>4, <4>1, <4>3
        <4> QED
          BY <4>2, <4>3
      <3> QED
        BY <2>1, <3>1, <3>2
    <2> QED
      BY <2>2, <2>3, <2>4, FilesMoved
  <1>8. ASSUME NEW w \in Writers, Read(w) PROVE OpenInv' /\ ContentInv'
    <2>1. /\ todo[w] # <<>> /\ Head(todo[w]).op = "read" /\ UNCHANGED <<disk, open, cut>>
          /\ \E s : todo' = [todo EXCEPT ![w] = s]
      BY <1>8 DEF Read, Next1, Rest, past
    <2>2. open[w] = Nowhere
      BY <2>1, StepFacts
    <2>3. \A v \in Writers \ {w} : todo'[v] = todo[v]
      BY <2>1 DEF TypeOK
    <2>4. \A v \in Writers : \/ open'[v] = Nowhere /\ (open[v] # Nowhere => cut')
                             \/ Stays(v)
      BY <2>1, <2>2, <2>3 DEF NameOf
    <2> QED
      BY <1>0, <2>1, <2>4, FilesMoved DEF disk
  <1>9. ASSUME NEW w \in Writers, WriteFails(w) PROVE OpenInv' /\ ContentInv'
    <2>1. /\ open' = [open EXCEPT ![w] = Nowhere] /\ UNCHANGED disk /\ cut'
          /\ todo' = [todo EXCEPT ![w] = <<>>]
      BY <1>9 DEF WriteFails
    <2>2. \A v \in Writers : \/ open'[v] = Nowhere /\ (open[v] # Nowhere => cut')
                             \/ Stays(v)
      BY <2>1 DEF TypeOK, NameOf
    <2> QED
      BY <1>0, <2>1, <2>2, FilesMoved DEF disk
  <1>10. ASSUME NEW p \in Processes, Launch(p) PROVE OpenInv' /\ ContentInv'
    <2>1. UNCHANGED <<disk, open, todo, cut>>
      BY <1>10 DEF Launch
    <2>2. \A v \in Writers : \/ open'[v] = Nowhere /\ (open[v] # Nowhere => cut')
                             \/ Stays(v)
      BY <2>1 DEF NameOf
    <2> QED
      BY <1>0, <2>1, <2>2, FilesMoved DEF disk
  <1>11. ASSUME NEW p \in Processes, Crash(p) PROVE OpenInv' /\ ContentInv'
    <2>1. /\ UNCHANGED disk /\ (cut => cut')
          /\ \A v \in Writers : IF v[1] = p THEN open'[v] = Nowhere /\ (open[v] # Nowhere => cut')
                                ELSE open'[v] = open[v] /\ todo'[v] = todo[v]
      BY <1>11 DEF Crash, ProcessOf
    <2>2. \A v \in Writers : \/ open'[v] = Nowhere /\ (open[v] # Nowhere => cut')
                             \/ Stays(v)
      BY <2>1 DEF NameOf
    <2> QED
      BY <1>0, <2>1, <2>2, FilesMoved DEF disk
  <1>12. CASE Delete
    <2>1. /\ UNCHANGED <<content, open, todo, cut>>
          /\ \E path : at' = [at EXCEPT ![path] = Nowhere]
      BY <1>12 DEF Delete
    <2>2. \A v \in Writers : \/ open'[v] = Nowhere /\ (open[v] # Nowhere => cut')
                             \/ Stays(v)
      BY <2>1 DEF NameOf
    <2>3. ASSUME NEW q \in Paths
          PROVE  at'[q] = Nowhere \/ \E r \in Paths : r[1] = q[1] /\ at'[q] = at[r]
      BY <2>1, <2>3 DEF TypeOK
    <2>4. UNCHANGED content /\ (cut => cut')
      BY <2>1
    <2> QED
      BY <2>2, <2>3, <2>4, FilesMoved
  <1> QED
    BY <1>2, <1>3, <1>4, <1>5, <1>6, <1>7, <1>8, <1>9, <1>10, <1>11, <1>12, Zenon DEF Next

----------------------------------------------------------------------------
(* Types. *)

Placed ==
    /\ at \in [Paths -> Files \cup {Nowhere}] /\ content \in [Files -> Contents]
    /\ \A p, q \in Paths : at[p] = at[q] /\ at[p] # Nowhere => p = q
Busy ==
    /\ open \in [Writers -> Files \cup {Nowhere}] /\ live \subseteq Processes
    /\ todo \in [Writers -> Seq(Steps)] /\ got \in [Writers -> Seq(Contents)]
    /\ \A w \in Writers : /\ ProcessOf(w) \notin live => todo[w] = <<>>
                          /\ todo[w] = <<>> => open[w] = Nowhere
Counted ==
    /\ authority \in 0..MaxWritten /\ newest \in [Documents -> 0..MaxWritten]
    /\ known \in [Processes -> [{"analysis", "settings"} -> 0..MaxWritten]]
    /\ {cut, crowded, overlapped, keyless} \subseteq BOOLEAN /\ left \in [Operations -> Nat]

LEMMA TypesInParts ==
    (TypeOK <=> Placed /\ Busy /\ Counted) /\ (TypeOK' <=> Placed' /\ Busy' /\ Counted')
  BY DEF TypeOK, Placed, Busy, Counted

\* One thread has another job, or another rest of its job.
LEMMA BusyOne ==
    ASSUME TypeOK, JobInv', NEW w \in Writers, ProcessOf(w) \in live, UNCHANGED live,
           NEW s, todo' = [todo EXCEPT ![w] = s],
           open' \in [Writers -> Files \cup {Nowhere}], got' \in [Writers -> Seq(Contents)]
    PROVE  Busy'
  <1>1. todo'[w] = s
    BY DEF TypeOK
  <1>2. JobOk(known', w, s, open'[w])
    BY <1>1 DEF JobInv
  <1>3. s \in Seq(Steps)
    BY <1>2 DEF JobOk, WellMade
  <1>4. todo' \in [Writers -> Seq(Steps)]
    BY <1>3 DEF TypeOK
  <1>5. ASSUME NEW v \in Writers
        PROVE  /\ ProcessOf(v) \notin live' => todo'[v] = <<>>
               /\ todo'[v] = <<>> => open'[v] = Nowhere
    <2>1. JobOk(known', v, todo'[v], open'[v])
      BY DEF JobInv
    <2>2. v # w => todo'[v] = todo[v]
      BY DEF TypeOK
    <2> QED
      BY <2>1, <2>2 DEF JobOk, TypeOK
  <1> QED
    BY <1>4, <1>5 DEF TypeOK, Busy

\* What a job leaves alone.
LEMMA CountedSame ==
    ASSUME Counted, UNCHANGED <<known, newest, authority, crowded, overlapped, keyless>>,
           cut' \in BOOLEAN, left' \in [Operations -> Nat]
    PROVE  Counted'
  BY DEF Counted

LEMMA Spent ==
    ASSUME TypeOK, NEW operation \in Operations, Spend(operation)
    PROVE  left' \in [Operations -> Nat]
  BY DEF TypeOK, Spend

LEMMA TypeStep ==
    ASSUME TypeOK, JobInv, OpenInv, ContentInv, Next, JobInv'
    PROVE  TypeOK'
  <1>0. Placed /\ Busy /\ Counted
    BY TypesInParts
  <1>1. ASSUME NEW w \in Writers, Put(w) PROVE TypeOK'
    <2>1. /\ ProcessOf(w) \in live /\ Spend("puts") /\ \E s : todo' = [todo EXCEPT ![w] = s]
          /\ UNCHANGED <<disk, open, got, live, known, authority, past>>
      BY <1>1 DEF Put, Idle
    <2>2. Busy'
      BY <2>1, BusyOne DEF TypeOK
    <2>3. left' \in [Operations -> Nat]
      BY <2>1, Spent DEF Operations
    <2>4. Counted'
      BY <1>0, <2>1, <2>3, CountedSame DEF past, Counted
    <2> QED
      BY <1>0, <2>1, <2>2, <2>4, TypesInParts DEF Placed, disk
  <1>2. ASSUME NEW w \in Writers, LoadAuthority(w) PROVE TypeOK'
    <2>1. /\ ProcessOf(w) \in live /\ Spend("loads") /\ \E s : todo' = [todo EXCEPT ![w] = s]
          /\ got' = [got EXCEPT ![w] = <<>>]
          /\ UNCHANGED <<disk, open, live, known, newest, cut, crowded, keyless>>
          /\ overlapped' \in BOOLEAN
          /\ authority' = authority \/ (authority < MaxWritten /\ authority' = authority + 1)
      BY <1>0, <1>2, Zenon DEF LoadAuthority, Idle, Counted
    <2>2. got' \in [Writers -> Seq(Contents)]
      BY <2>1 DEF TypeOK
    <2>3. Busy'
      BY <2>1, <2>2, BusyOne DEF TypeOK
    <2>4. left' \in [Operations -> Nat]
      BY <2>1, Spent DEF Operations
    <2>5. authority' \in 0..MaxWritten
      BY <1>0, <2>1, ThreadsAssumption DEF Counted
    <2>6. Counted'
      BY <1>0, <2>1, <2>4, <2>5 DEF Counted
    <2> QED
      BY <1>0, <2>1, <2>3, <2>6, TypesInParts DEF Placed, disk
  <1>3. ASSUME NEW w \in Writers, Create(w) PROVE TypeOK'
    <2>1. PICK file \in Files :
            LET path == Head(todo[w]).path
            IN /\ path \in Paths
               /\ at' = [at EXCEPT ![path] = file] /\ content' = [content EXCEPT ![file] = Short]
               /\ open' = [open EXCEPT ![w] = file]
               /\ at[path] = file \/ \A q \in Paths : at[q] # file
               /\ todo[w] # <<>>
      BY <1>3, Created
    <2>2. /\ UNCHANGED <<got, live, known, authority, past, left>>
          /\ \E s : todo' = [todo EXCEPT ![w] = s]
      BY <1>3 DEF Create, Rest
    <2>3. ProcessOf(w) \in live /\ open' \in [Writers -> Files \cup {Nowhere}]
      BY <2>1 DEF TypeOK
    <2>4. Busy'
      BY <2>2, <2>3, BusyOne DEF TypeOK
    <2>5. Counted'
      BY <1>0, <2>2, CountedSame DEF past, Counted
    <2>6. Placed'
      <3>1. PICK path \in Paths :
               /\ at' = [at EXCEPT ![path] = file] /\ content' = [content EXCEPT ![file] = Short]
               /\ at[path] = file \/ \A q \in Paths : at[q] # file
        BY <2>1
      <3>2. at' \in [Paths -> Files \cup {Nowhere}] /\ content' \in [Files -> Contents]
        BY <1>0, <3>1, ContentFacts DEF Placed
      <3>3. at'[path] = file /\ \A q \in Paths \ {path} : at'[q] = at[q] /\ at[q] # file
        <4>1. file # Nowhere
          BY NamesAssumption DEF Files
        <4> QED
          BY <1>0, <3>1, <4>1 DEF Placed
      <3>4. \A p, q \in Paths : at'[p] = at'[q] /\ at'[p] # Nowhere => p = q
        BY <1>0, <3>3 DEF Placed
      <3> QED
        BY <3>2, <3>4 DEF Placed
    <2> QED
      BY <2>4, <2>5, <2>6, TypesInParts
  <1>4. ASSUME NEW w \in Writers, Fill(w) PROVE TypeOK'
    <2>1. /\ content' = [content EXCEPT ![open[w]] = Head(todo[w]).what]
          /\ open' = [open EXCEPT ![w] = Nowhere] /\ todo[w] # <<>>
          /\ UNCHANGED <<at, got, live, known, authority, past, left>>
          /\ \E s : todo' = [todo EXCEPT ![w] = s]
      BY <1>4 DEF Fill, Rest, Next1
    <2>2. ProcessOf(w) \in live /\ open' \in [Writers -> Files \cup {Nowhere}]
      BY <2>1 DEF TypeOK
    <2>3. Busy'
      BY <2>1, <2>2, BusyOne DEF TypeOK
    <2>4. Counted'
      BY <1>0, <2>1, CountedSame DEF past, Counted
    <2>5. Head(todo[w]).what \in Contents
      BY <2>1, StepFacts DEF Steps
    <2>6. Placed'
      BY <1>0, <2>1, <2>5 DEF Placed
    <2> QED
      BY <2>3, <2>4, <2>6, TypesInParts
  <1>5. ASSUME NEW w \in Writers, Rename(w) PROVE TypeOK'
    <2>1. PICK name \in Replaced :
              /\ todo[w] # <<>>
              /\ \/ UNCHANGED <<at, newest>>
                 \/ /\ at[Temporary(name)] # Nowhere
                    /\ at' = [at EXCEPT ![Main(name)] = at[Temporary(name)], ![Temporary(name)] = Nowhere]
                    /\ newest' = Latest(name, content[at[Temporary(name)]])
      BY <1>5, Renamed
    <2>2. /\ UNCHANGED <<content, open, got, live, known, authority, cut, crowded, overlapped, keyless, left>>
          /\ \E s : todo' = [todo EXCEPT ![w] = s]
      BY <1>5 DEF Rename, Rest
    <2>3. ProcessOf(w) \in live
      BY <2>1 DEF TypeOK
    <2>4. Busy'
      BY <2>2, <2>3, BusyOne DEF TypeOK
    <2>5. CASE UNCHANGED <<at, newest>>
      BY <1>0, <2>2, <2>4, <2>5, TypesInParts DEF Placed, Counted
    <2>6. CASE /\ at[Temporary(name)] # Nowhere
               /\ at' = [at EXCEPT ![Main(name)] = at[Temporary(name)], ![Temporary(name)] = Nowhere]
               /\ newest' = Latest(name, content[at[Temporary(name)]])
      <3>1. /\ at'[Main(name)] = at[Temporary(name)] /\ at'[Temporary(name)] = Nowhere
            /\ \A q \in Paths \ {Main(name), Temporary(name)} : at'[q] = at[q]
            /\ Main(name) \in Paths /\ Temporary(name) \in Paths
            /\ at' \in [Paths -> Files \cup {Nowhere}]
        BY <2>6, RenamedAt
      <3>2. \A p, q \in Paths : at'[p] = at'[q] /\ at'[p] # Nowhere => p = q
        BY <1>0, <3>1 DEF Placed
      <3>3. Placed'
        BY <1>0, <2>2, <3>1, <3>2 DEF Placed
      <3>4. newest' \in [Documents -> 0..MaxWritten]
        <4>1. content[at[Temporary(name)]] \in Right(name) \cup {Short}
          BY <2>6, <3>1, PathFacts DEF ContentInv
        <4>2. name \in Documents => Right(name) = 0..MaxWritten
          BY ContentFacts
        <4>3. PICK what : what = content[at[Temporary(name)]]
          OBVIOUS
        <4>4. newest' = newest \/ (/\ name \in Documents /\ what \in 0..MaxWritten
                                   /\ \E n \in {what, newest[name]} : newest' = [newest EXCEPT ![name] = n])
          BY <2>6, <4>1, <4>2, <4>3 DEF Latest
        <4> QED
          BY <1>0, <4>4 DEF Counted
      <3>5. Counted'
        BY <1>0, <2>2, <3>4 DEF Counted
      <3> QED
        BY <2>4, <3>3, <3>5, TypesInParts
    <2> QED
      BY <2>1, <2>5, <2>6
  <1>6. ASSUME NEW w \in Writers, Read(w) PROVE TypeOK'
    <2>1. PICK path : path = Head(todo[w]).path
      OBVIOUS
    <2>2. /\ todo[w] # <<>> /\ \E s : todo' = [todo EXCEPT ![w] = s]
          /\ UNCHANGED <<disk, open, live, known, authority, past, left>>
          /\ \/ UNCHANGED got
             \/ at[path] # Nowhere /\ got' = [got EXCEPT ![w] = Append(@, content[at[path]])]
      BY <1>6, <2>1 DEF Read, Next1, Rest
    <2>3. path \in Paths
      BY <2>1, <2>2, StepFacts DEF Steps
    <2>4. got' \in [Writers -> Seq(Contents)]
      <3>1. CASE UNCHANGED got
        BY <3>1 DEF TypeOK
      <3>2. CASE at[path] # Nowhere /\ got' = [got EXCEPT ![w] = Append(@, content[at[path]])]
        <4>1. content[at[path]] \in Contents
          BY <2>3, <3>2 DEF TypeOK
        <4>2. got' = [got EXCEPT ![w] = Append(got[w], content[at[path]])] /\ got[w] \in Seq(Contents)
          BY <3>2 DEF TypeOK
        <4>3. Append(got[w], content[at[path]]) \in Seq(Contents)
          BY <4>1, <4>2
        <4> QED
          BY <4>2, <4>3 DEF TypeOK
      <3> QED
        BY <2>2, <3>1, <3>2
    <2>5. ProcessOf(w) \in live
      BY <2>2 DEF TypeOK
    <2>6. Busy'
      BY <2>2, <2>4, <2>5, BusyOne DEF TypeOK
    <2> QED
      BY <1>0, <2>2, <2>6, TypesInParts DEF Placed, Counted, disk, past
  <1>7. ASSUME NEW w \in Writers, WriteFails(w) PROVE TypeOK'
    <2>1. /\ todo[w] # <<>> /\ Spend("faults") /\ cut' = TRUE /\ \E s : todo' = [todo EXCEPT ![w] = s]
          /\ open' = [open EXCEPT ![w] = Nowhere]
          /\ UNCHANGED <<disk, got, live, known, authority, newest, crowded, overlapped, keyless>>
      BY <1>7 DEF WriteFails, Next1
    <2>2. ProcessOf(w) \in live /\ open' \in [Writers -> Files \cup {Nowhere}]
      BY <2>1 DEF TypeOK
    <2>3. Busy'
      BY <2>1, <2>2, BusyOne DEF TypeOK
    <2>4. left' \in [Operations -> Nat]
      BY <2>1, Spent DEF Operations
    <2>5. Counted'
      BY <1>0, <2>1, <2>4, CountedSame
    <2> QED
      BY <1>0, <2>1, <2>3, <2>5, TypesInParts DEF Placed, disk
  <1>8. ASSUME NEW p \in Processes, Save(p) PROVE TypeOK'
    <2>1. PICK kind \in {"analysis", "settings"} :
             /\ known[p][kind] < MaxWritten
             /\ known' = [known EXCEPT ![p][kind] = @ + 1]
             /\ todo' = [todo EXCEPT ![<<p, UI>>] = Saved(p, kind, known'[p][kind])]
      BY <1>8, Zenon DEF Save
    <2>2. /\ ProcessOf(<<p, UI>>) \in live /\ Spend("saves") /\ <<p, UI>> \in Writers
          /\ UNCHANGED <<disk, open, got, live, authority, past>>
      BY <1>8, ThreadsAssumption DEF Save, Idle, Writers
    <2>3. Busy'
      BY <2>1, <2>2, BusyOne DEF TypeOK
    <2>4. left' \in [Operations -> Nat]
      BY <2>2, Spent DEF Operations
    <2>5. known' \in [Processes -> [{"analysis", "settings"} -> 0..MaxWritten]]
      BY <1>0, <2>1, ThreadsAssumption DEF Counted
    <2>6. Counted'
      BY <1>0, <2>2, <2>4, <2>5 DEF Counted, past
    <2> QED
      BY <1>0, <2>2, <2>3, <2>6, TypesInParts DEF Placed, disk
  <1>9. ASSUME NEW p \in Processes, Launch(p) PROVE TypeOK'
    <2>1. /\ p \notin live /\ Spend("launches") /\ live' = live \cup {p} /\ crowded' \in BOOLEAN
          /\ known' = [known EXCEPT ![p] = [analysis |-> Loaded("baselines"), settings |-> Loaded("settings")]]
          /\ UNCHANGED <<disk, todo, open, got, authority, newest, cut, overlapped, keyless>>
      BY <1>0, <1>9 DEF Launch, Counted
    <2>2. ASSUME NEW d \in Documents PROVE Loaded(d) \in 0..MaxWritten
      <3>1. Main(d) \in Paths /\ Main(d)[1] = d /\ Right(d) = 0..MaxWritten
        BY PathFacts, ContentFacts DEF Replaced
      <3>2. Exists(d) => Held(d) \in 0..MaxWritten \cup {Short}
        BY <3>1 DEF ContentInv, Exists, Held
      <3> QED
        BY <3>2, ThreadsAssumption DEF Loaded
    <2>3. Loaded("baselines") \in 0..MaxWritten /\ Loaded("settings") \in 0..MaxWritten
      BY <2>2 DEF Documents
    <2>4. known' \in [Processes -> [{"analysis", "settings"} -> 0..MaxWritten]]
      BY <1>0, <2>1, <2>3 DEF Counted
    <2>5. left' \in [Operations -> Nat]
      BY <2>1, Spent DEF Operations
    <2>6. Counted'
      BY <1>0, <2>1, <2>4, <2>5 DEF Counted
    <2>7. Busy'
      BY <1>0, <2>1 DEF Busy
    <2> QED
      BY <1>0, <2>1, <2>6, <2>7, TypesInParts DEF Placed, disk
  <1>10. ASSUME NEW p \in Processes, Crash(p) PROVE TypeOK'
    <2>1. /\ live' = live \ {p} /\ cut' \in BOOLEAN
          /\ todo' = [w \in Writers |-> IF ProcessOf(w) = p THEN <<>> ELSE todo[w]]
          /\ open' = [w \in Writers |-> IF ProcessOf(w) = p THEN Nowhere ELSE open[w]]
          /\ got' = [w \in Writers |-> IF ProcessOf(w) = p THEN <<>> ELSE got[w]]
          /\ UNCHANGED <<disk, known, authority, newest, crowded, overlapped, keyless, left>>
      BY <1>0, <1>10 DEF Crash, Counted
    <2>2. Busy'
      BY <1>0, <2>1 DEF Busy
    <2>3. Counted'
      BY <1>0, <2>1, CountedSame DEF Counted
    <2> QED
      BY <1>0, <2>1, <2>2, <2>3, TypesInParts DEF Placed, disk
  <1>11. CASE Delete
    <2>1. /\ Spend("faults") /\ keyless' \in BOOLEAN
          /\ \E path : at' = [at EXCEPT ![path] = Nowhere]
          /\ UNCHANGED <<content, todo, open, got, live, known, authority, newest, cut, crowded, overlapped>>
      BY <1>0, <1>11 DEF Delete, Counted
    <2>2. Placed'
      BY <1>0, <2>1 DEF Placed
    <2>3. left' \in [Operations -> Nat]
      BY <2>1, Spent DEF Operations
    <2>4. Counted' /\ Busy'
      BY <1>0, <2>1, <2>3 DEF Counted, Busy
    <2> QED
      BY <2>2, <2>4, TypesInParts
  <1> QED
    BY <1>1, <1>2, <1>3, <1>4, <1>5, <1>6, <1>7, <1>8, <1>9, <1>10, <1>11, Zenon DEF Next

----------------------------------------------------------------------------
(* The authority. *)

\* History does not shrink.
LEMMA HistoryGrows ==
    ASSUME TypeOK, Next
    PROVE  (overlapped => overlapped') /\ (keyless => keyless') /\ (crowded => crowded') /\ (cut => cut')
  <1>1. ASSUME NEW w \in Writers, LoadAuthority(w)
        PROVE  (overlapped => overlapped') /\ UNCHANGED <<keyless, crowded, cut>>
    BY <1>1 DEF LoadAuthority
  <1>2. ASSUME NEW w \in Writers, Put(w) \/ Create(w) \/ Fill(w) \/ Read(w)
        PROVE  UNCHANGED past
    BY <1>2, Zenon DEF Put, Create, Fill, Read
  <1>3. ASSUME NEW w \in Writers, Rename(w) \/ WriteFails(w)
        PROVE  UNCHANGED <<overlapped, keyless, crowded>> /\ (cut => cut')
    BY <1>3 DEF Rename, WriteFails
  <1>4. ASSUME NEW p \in Processes, Save(p)
        PROVE  UNCHANGED past
    BY <1>4, Zenon DEF Save
  <1>5. ASSUME NEW p \in Processes, Launch(p) \/ Crash(p)
        PROVE  UNCHANGED <<overlapped, keyless>> /\ (crowded => crowded') /\ (cut => cut')
    <2>1. CASE Launch(p)
      BY <2>1 DEF Launch
    <2>2. CASE Crash(p)
      BY <2>2 DEF Crash
    <2> QED
      BY <1>5, <2>1, <2>2
  <1>6. ASSUME Delete
        PROVE  UNCHANGED <<overlapped, crowded, cut>> /\ (keyless => keyless')
    BY <1>6 DEF Delete
  <1>7. CASE \E w \in Writers : LoadAuthority(w)
    BY <1>1, <1>7
  <1>8. CASE \E w \in Writers : Put(w) \/ Create(w) \/ Fill(w) \/ Read(w)
    BY <1>2, <1>8 DEF past
  <1>9. CASE \E w \in Writers : Rename(w) \/ WriteFails(w)
    BY <1>3, <1>9
  <1>10. CASE \E p \in Processes : Save(p)
    BY <1>4, <1>10 DEF past
  <1>11. CASE \E p \in Processes : Launch(p) \/ Crash(p)
    BY <1>5, <1>11
  <1>12. CASE Delete
    BY <1>6, <1>12
  <1> QED
    BY <1>7, <1>8, <1>9, <1>10, <1>11, <1>12, Zenon DEF Next

\* Thread w is in load_or_create_ca.
Loader(w) == \E n \in 0..MaxWritten : LoadOf(todo[w], n)

Alone == ~overlapped /\ ~keyless

\* There is a key, and the certificate, if there is one, is the one of that key or cut short.
Paired ==
    /\ Exists("key") /\ Held("key") # Short
    /\ Exists("pem") => Held("pem") \in {Held("key"), Short}

\* What thread w, on its way to authority n, has done when so many steps are left. It starts to write
\* because a file was missing; what it has written of the key is what it writes of the certificate.
StageOk(w, n) ==
    LET steps == Len(todo[w])
    IN /\ steps \in 7..9 => ~(Exists("pem") /\ Exists("der"))
       /\ steps = 8 => Exists("key") /\ open[w] = at[Main("key")]
       /\ steps \in 6..7 => Exists("key") /\ Held("key") = n
       /\ steps = 6 => (Exists("pem") => at[Main("pem")] = open[w] /\ Held("pem") = Short)
       /\ steps <= 5 => Paired
       /\ steps >= 3 => got[w] = <<>>
       /\ steps = 2 => Len(got[w]) = 1 /\ got[w][1] = Held("key")
       /\ steps = 1 => Len(got[w]) = 2

LoadInv ==
    Alone =>
        /\ Exists("pem") /\ Exists("der") => Paired
        /\ \A w \in Writers : Len(got[w]) >= 2 => got[w][1] = got[w][2]
        /\ \A v, w \in Writers : Loader(v) /\ Loader(w) => v = w
        /\ \A w \in Writers : Loader(w) => \E n \in 0..MaxWritten : LoadOf(todo[w], n) /\ StageOk(w, n)

LEMMA CertificatePaths ==
    /\ Main("key") \in Paths /\ Main("pem") \in Paths /\ Main("der") \in Paths
    /\ Main("key") # Main("pem") /\ Main("key") # Main("der") /\ Main("pem") # Main("der")
    /\ Main("key")[1] = "key" /\ Main("pem")[1] = "pem" /\ Main("der")[1] = "der"
    /\ "key" \in Certificates /\ "pem" \in Certificates /\ "der" \in Certificates
  BY PathFacts DEF Certificates, Main

LEMMA LoadTail ==
    ASSUME NEW s, NEW n \in 0..MaxWritten, WellMade(s), LoadOf(s, n), Tail(s) # <<>>
    PROVE  LoadOf(Tail(s), n)
  <1>1. /\ WellMade(Tail(s)) /\ Len(Tail(s)) = Len(s) - 1 /\ Len(s) \in Nat \ {0}
        /\ \A i \in 1..Len(Tail(s)) : Tail(s)[i] = s[i + 1]
    BY RestOfJob DEF LoadOf
  <1>2. \A i \in 1..Len(Tail(s)) : i + 1 \in 1..Len(s)
    BY <1>1
  <1>3. Len(Loads(n)) = 9
    BY LoadsMade
  <1>4. Len(s) <= 9 /\ \A i \in 1..Len(s) : s[i] = Loads(n)[i + 9 - Len(s)]
    BY <1>3 DEF LoadOf, IsSuffix
  <1>5. ASSUME NEW i \in 1..Len(Tail(s)) PROVE Tail(s)[i] = Loads(n)[i + 9 - Len(Tail(s))]
    <2>1. (i + 1) + 9 - Len(s) = i + 9 - Len(Tail(s))
      BY <1>1, <1>5
    <2> QED
      BY <1>1, <1>2, <1>4, <1>5, <2>1
  <1>6. Len(Tail(s)) <= Len(Loads(n))
    BY <1>1, <1>3, <1>4
  <1>7. \A i \in 1..Len(Tail(s)) : Tail(s)[i] = Loads(n)[i + Len(Loads(n)) - Len(Tail(s))]
    BY <1>3, <1>5
  <1> QED
    BY <1>6, <1>7 DEF LoadOf, IsSuffix

\* The step that a load is at, by how many are left.
LEMMA LoadHead ==
    ASSUME NEW s, NEW n \in 0..MaxWritten, WellMade(s), LoadOf(s, n)
    PROVE  /\ Len(s) \in 1..9 /\ Head(s).path[1] \in Certificates
           /\ Head(s).op = "create" =>
                 \/ Len(s) = 9 /\ Head(s).path = Main("key")
                 \/ Len(s) = 7 /\ Head(s).path = Main("pem")
                 \/ Len(s) = 5 /\ Head(s).path = Main("der")
           /\ Head(s).op = "fill" =>
                 \/ Len(s) = 8 /\ Head(s).path = Main("key") /\ Head(s).what = n
                 \/ Len(s) = 6 /\ Head(s).path = Main("pem") /\ Head(s).what = n
                 \/ Len(s) = 4 /\ Head(s).path = Main("der") /\ Head(s).what = n
           /\ Head(s).op = "read" =>
                 \/ Len(s) = 3 /\ Head(s).path = Main("key")
                 \/ Len(s) = 2 /\ Head(s).path = Main("pem")
                 \/ Len(s) = 1 /\ Head(s).path = Main("der")
           /\ Head(s).op # "rename"
           /\ Len(Tail(s)) = Len(s) - 1 /\ (Tail(s) # <<>> <=> Len(s) > 1)
  <1>1. Len(s) \in 1..9 /\ Head(s) = Loads(n)[10 - Len(s)] /\ s # <<>>
    BY LoadAt DEF LoadOf
  <1>2. /\ Loads(n)[1] = Step("create", Main("key"), Short) /\ Loads(n)[2] = Step("fill", Main("key"), n)
        /\ Loads(n)[3] = Step("create", Main("pem"), Short) /\ Loads(n)[4] = Step("fill", Main("pem"), n)
        /\ Loads(n)[5] = Step("create", Main("der"), Short) /\ Loads(n)[6] = Step("fill", Main("der"), n)
        /\ Loads(n)[6 + 1] = Step("read", Main("key"), Short) /\ Loads(n)[6 + 2] = Step("read", Main("pem"), Short)
        /\ Loads(n)[6 + 3] = Step("read", Main("der"), Short)
    <2>1. \A i \in 1..3 : Loads(n)[6 + i] = Reads[i]
      BY LoadsMade
    <2> QED
      BY <2>1, LoadsMade, ReadsMade
  <1> DEFINE m == Len(s)
  <1>3. m \in 1..9 /\ Head(s) = Loads(n)[10 - m]
    BY <1>1
  <1>4. m = Len(s)
    OBVIOUS
  <1> HIDE DEF m
  <1>5. \/ m = 9 /\ Head(s) = Step("create", Main("key"), Short)
        \/ m = 8 /\ Head(s) = Step("fill", Main("key"), n)
        \/ m = 7 /\ Head(s) = Step("create", Main("pem"), Short)
        \/ m = 6 /\ Head(s) = Step("fill", Main("pem"), n)
        \/ m = 5 /\ Head(s) = Step("create", Main("der"), Short)
        \/ m = 4 /\ Head(s) = Step("fill", Main("der"), n)
        \/ m = 3 /\ Head(s) = Step("read", Main("key"), Short)
        \/ m = 2 /\ Head(s) = Step("read", Main("pem"), Short)
        \/ m = 1 /\ Head(s) = Step("read", Main("der"), Short)
    BY <1>2, <1>3
  <1>6. Len(Tail(s)) = Len(s) - 1 /\ Tail(s) \in Seq(Steps)
    BY <1>1, RestOfJob DEF WellMade
  <1>7. Tail(s) # <<>> <=> Len(s) > 1
    <2>1. WellMade(Tail(s))
      BY <1>1, RestOfJob
    <2>2. Tail(s) # <<>> => Len(Tail(s)) \in Nat \ {0}
      BY <2>1, RestOfJob
    <2>3. Len(Tail(s)) \in Nat \ {0} => Tail(s) # <<>>
      BY NotEmpty
    <2> QED
      BY <1>1, <1>6, <2>2, <2>3
  <1>8. /\ Head(s).op = "create" =>
                 \/ m = 9 /\ Head(s).path = Main("key")
                 \/ m = 7 /\ Head(s).path = Main("pem")
                 \/ m = 5 /\ Head(s).path = Main("der")
        /\ Head(s).op = "fill" =>
                 \/ m = 8 /\ Head(s).path = Main("key") /\ Head(s).what = n
                 \/ m = 6 /\ Head(s).path = Main("pem") /\ Head(s).what = n
                 \/ m = 4 /\ Head(s).path = Main("der") /\ Head(s).what = n
        /\ Head(s).op = "read" =>
                 \/ m = 3 /\ Head(s).path = Main("key")
                 \/ m = 2 /\ Head(s).path = Main("pem")
                 \/ m = 1 /\ Head(s).path = Main("der")
        /\ Head(s).op # "rename"
    BY <1>5, StepIsRecord
  <1>9. Head(s).path[1] \in Certificates
    BY <1>5, StepIsRecord, CertificatePaths
  <1> QED
    BY <1>3, <1>4, <1>6, <1>7, <1>8, <1>9

\* A job that does not touch the authority never does.
LEMMA NotLoading ==
    ASSUME NEW k, NEW w, NEW s, NEW file, JobOk(k, w, s, file), s # <<>>,
           Head(s).path[1] \notin Certificates, NEW n \in 0..MaxWritten
    PROVE  ~LoadOf(s, n) /\ ~LoadOf(Tail(s), n)
  <1>1. WellMade(s) /\ PartOfLoad(s)
    BY DEF JobOk
  <1>2. \A m \in 0..MaxWritten : ~LoadOf(s, m)
    BY <1>1, LoadHead
  <1>3. \A i \in 1..Len(s) : s[i].path[1] \notin Certificates
    BY <1>1, <1>2 DEF PartOfLoad
  <1>4. /\ WellMade(Tail(s)) /\ Len(Tail(s)) = Len(s) - 1 /\ Len(s) \in Nat \ {0}
        /\ \A i \in 1..Len(Tail(s)) : Tail(s)[i] = s[i + 1]
    BY <1>1, RestOfJob
  <1>5. ASSUME LoadOf(Tail(s), n) PROVE FALSE
    <2>1. /\ Len(Tail(s)) \in 1..9 /\ \A i \in 1..Len(Tail(s)) : Tail(s)[i].path[1] \in Certificates
      BY <1>4, <1>5, LoadAt
    <2>2. 1 \in 1..Len(Tail(s)) /\ 1 + 1 \in 1..Len(s)
      BY <1>4, <2>1
    <2> QED
      BY <1>3, <1>4, <2>1, <2>2
  <1> QED
    BY <1>2, <1>5

\* Nothing of the authority is touched, but for files that go, and no thread that loads it.
LEMMA LoadKept ==
    ASSUME LoadInv, Alone' => Alone,
           \A c \in Certificates : \/ at'[Main(c)] = at[Main(c)]
                                   \/ at'[Main(c)] = Nowhere /\ (c = "key" => ~Alone'),
           \A c \in Certificates : at'[Main(c)] # Nowhere => content'[at'[Main(c)]] = content[at'[Main(c)]],
           \A v \in Writers : /\ Loader(v)' => /\ todo'[v] = todo[v] /\ open'[v] = open[v]
                                               /\ got'[v] = got[v]
                              /\ got'[v] = got[v] \/ ~(Len(got'[v]) >= 2)
    PROVE  LoadInv'
  <1> SUFFICES ASSUME Alone' PROVE LoadInv'
    BY DEF LoadInv
  <1>1. /\ at'[Main("key")] = at[Main("key")]
        /\ \A c \in {"pem", "der"} : at'[Main(c)] = at[Main(c)] \/ at'[Main(c)] = Nowhere
    BY CertificatePaths
  <1>2. /\ Exists("key")' <=> Exists("key")
        /\ Exists("pem")' => Exists("pem") /\ at'[Main("pem")] = at[Main("pem")] /\ Held("pem")' = Held("pem")
        /\ Exists("der")' => Exists("der")
        /\ Exists("key") => Held("key")' = Held("key")
    BY <1>1, CertificatePaths DEF Exists, Held
  <1>3. Paired => Paired'
    BY <1>2 DEF Paired
  <1>4. \A v \in Writers : Loader(v)' => Loader(v)
    BY DEF Loader
  <1>5. ASSUME NEW w \in Writers, Loader(w)'
        PROVE  \E n \in 0..MaxWritten : LoadOf(todo'[w], n) /\ StageOk(w, n)'
    <2>1. todo'[w] = todo[w] /\ open'[w] = open[w] /\ got'[w] = got[w] /\ Loader(w)
      BY <1>4, <1>5
    <2>2. PICK n \in 0..MaxWritten : LoadOf(todo[w], n) /\ StageOk(w, n)
      BY <2>1 DEF LoadInv
    <2>3. StageOk(w, n)'
      BY <1>1, <1>2, <1>3, <2>1, <2>2 DEF StageOk, Paired
    <2> QED
      BY <2>1, <2>2, <2>3
  <1>6. \A w \in Writers : Len(got'[w]) >= 2 => got'[w][1] = got'[w][2]
    BY DEF LoadInv
  <1>7. Exists("pem")' /\ Exists("der")' => Paired'
    BY <1>2, <1>3 DEF LoadInv
  <1>8. \A v, w \in Writers : Loader(v)' /\ Loader(w)' => v = w
    BY <1>4 DEF LoadInv
  <1> QED
    BY <1>5, <1>6, <1>7, <1>8 DEF LoadInv

\* What Create(w) does to the files, and what it does not.
LEMMA CreateElsewhere ==
    ASSUME TypeOK, JobInv, NEW w \in Writers, Create(w), NEW path, path = Head(todo[w]).path
    PROVE  /\ path \in Paths /\ Head(todo[w]).op = "create" /\ todo[w] # <<>> /\ todo'[w] = Tail(todo[w])
           /\ at'[path] # Nowhere /\ open'[w] = at'[path] /\ content'[at'[path]] = Short
           /\ \A q \in Paths \ {path} : at'[q] = at[q] /\ (at[q] # Nowhere => content'[at[q]] = content[at[q]])
           /\ \A v \in Writers \ {w} : todo'[v] = todo[v] /\ open'[v] = open[v]
  <1>1. PICK file \in Files :
          /\ path \in Paths /\ Head(todo[w]).op = "create"
          /\ at' = [at EXCEPT ![path] = file] /\ content' = [content EXCEPT ![file] = Short]
          /\ open' = [open EXCEPT ![w] = file]
          /\ at[path] = file \/ \A q \in Paths : at[q] # file
          /\ \A v \in Writers \ {w} : todo'[v] = todo[v]
          /\ todo[w] # <<>> /\ todo'[w] = Tail(todo[w])
    BY Created
  <1>2. file # Nowhere
    BY NamesAssumption DEF Files
  <1>3. /\ at'[path] = file /\ open'[w] = file /\ content'[file] = Short
        /\ \A v \in Writers \ {w} : open'[v] = open[v]
    BY <1>1 DEF TypeOK
  <1>4. ASSUME NEW q \in Paths \ {path}
        PROVE  at'[q] = at[q] /\ (at[q] # Nowhere => content'[at[q]] = content[at[q]])
    <2>1. at'[q] = at[q] /\ at[q] # file
      BY <1>1, <1>2, <1>4 DEF TypeOK
    <2>2. at[q] # Nowhere => at[q] \in Files
      BY <1>4 DEF TypeOK
    <2> QED
      BY <1>1, <2>1, <2>2 DEF TypeOK
  <1> QED
    BY <1>1, <1>2, <1>3, <1>4

LEMMA FillElsewhere ==
    ASSUME TypeOK, JobInv, OpenInv, NEW w \in Writers, Fill(w)
    PROVE  /\ at' = at /\ open[w] # Nowhere /\ open'[w] = Nowhere /\ Head(todo[w]).op = "fill"
           /\ content'[open[w]] = Head(todo[w]).what
           /\ \A q \in Paths : at[q] # Nowhere /\ q[1] # NameOf(w) => content'[at[q]] = content[at[q]]
           /\ \A q \in Paths : at[q] # Nowhere /\ at[q] # open[w] => content'[at[q]] = content[at[q]]
           /\ \A v \in Writers \ {w} : todo'[v] = todo[v] /\ open'[v] = open[v]
           /\ todo[w] # <<>> /\ todo'[w] = Tail(todo[w])
  <1>1. /\ open[w] \in Files /\ content'[open[w]] = Head(todo[w]).what /\ Head(todo[w]).op = "fill"
        /\ \A f \in Files \ {open[w]} : content'[f] = content[f]
        /\ open'[w] = Nowhere /\ \A v \in Writers \ {w} : open'[v] = open[v] /\ todo'[v] = todo[v]
        /\ todo[w] # <<>> /\ todo'[w] = Tail(todo[w])
    BY Filled
  <1>2. open[w] # Nowhere
    BY <1>1, NamesAssumption DEF Files
  <1>3. at' = at
    BY DEF Fill
  <1>4. ASSUME NEW q \in Paths, at[q] # Nowhere, q[1] # NameOf(w) \/ at[q] # open[w]
        PROVE  content'[at[q]] = content[at[q]]
    <2>1. at[q] \in Files /\ at[q] # open[w]
      BY <1>2, <1>4 DEF TypeOK, OpenInv
    <2> QED
      BY <1>1, <2>1
  <1> QED
    BY <1>1, <1>2, <1>3, <1>4

\* Thread w does the next step of a load, with the rest of the invariant shown for what it leaves.
LEMMA LoadMoved ==
    ASSUME TypeOK, JobInv, LoadInv, Alone, NEW w \in Writers, Loader(w), NEW n \in 0..MaxWritten,
           \A v \in Writers \ {w} : todo'[v] = todo[v] /\ got'[v] = got[v],
           Exists("pem")' /\ Exists("der")' => Paired',
           Len(got'[w]) >= 2 => got'[w][1] = got'[w][2],
           Loader(w)' => LoadOf(todo'[w], n) /\ StageOk(w, n)'
    PROVE  LoadInv'
  <1>1. \A v \in Writers \ {w} : ~Loader(v)
    BY DEF LoadInv
  <1>2. \A v \in Writers \ {w} : ~Loader(v)'
    BY <1>1 DEF Loader
  <1>3. \A v \in Writers : Len(got'[v]) >= 2 => got'[v][1] = got'[v][2]
    BY DEF LoadInv
  <1>4. \A u, v \in Writers : Loader(u)' /\ Loader(v)' => u = v
    BY <1>2
  <1>5. \A v \in Writers : Loader(v)' => \E m \in 0..MaxWritten : LoadOf(todo'[v], m) /\ StageOk(v, m)'
    BY <1>2
  <1> QED
    BY <1>3, <1>4, <1>5 DEF LoadInv

\* The rest of a load is the rest of a load.
LEMMA LoadGoesOn ==
    ASSUME JobInv, NEW w \in Writers, NEW n \in 0..MaxWritten, LoadOf(todo[w], n),
           todo'[w] = Tail(todo[w])
    PROVE  /\ Loader(w)' => LoadOf(todo'[w], n)
           /\ Len(todo'[w]) = Len(todo[w]) - 1 /\ Len(todo[w]) \in 1..9
           /\ WellMade(todo[w])
  <1>1. WellMade(todo[w])
    BY DEF JobInv, JobOk
  <1>2. Len(Tail(todo[w])) = Len(todo[w]) - 1 /\ Len(todo[w]) \in 1..9
    BY <1>1, LoadHead
  <1>3. Loader(w)' => Tail(todo[w]) # <<>>
    BY DEF Loader, LoadOf
  <1>4. Tail(todo[w]) # <<>> => LoadOf(Tail(todo[w]), n)
    BY <1>1, LoadTail
  <1> QED
    BY <1>1, <1>2, <1>3, <1>4

LEMMA LoadCreated ==
    ASSUME TypeOK, JobInv, OpenInv, LoadInv, Alone, NEW w \in Writers, Create(w), Loader(w)
    PROVE  LoadInv'
  <1>1. PICK n \in 0..MaxWritten : LoadOf(todo[w], n) /\ StageOk(w, n)
    BY DEF LoadInv
  <1>2. PICK path : path = Head(todo[w]).path
    OBVIOUS
  <1>3. /\ Head(todo[w]).op = "create" /\ todo'[w] = Tail(todo[w])
        /\ at'[path] # Nowhere /\ open'[w] = at'[path] /\ content'[at'[path]] = Short
        /\ \A q \in Paths \ {path} : at'[q] = at[q] /\ (at[q] # Nowhere => content'[at[q]] = content[at[q]])
        /\ \A v \in Writers \ {w} : todo'[v] = todo[v] /\ open'[v] = open[v]
    BY <1>2, CreateElsewhere
  <1>4. /\ Loader(w)' => LoadOf(todo'[w], n)
        /\ Len(todo'[w]) = Len(todo[w]) - 1 /\ Len(todo[w]) \in 1..9 /\ WellMade(todo[w])
    BY <1>1, <1>3, LoadGoesOn
  <1>5. /\ \/ Len(todo[w]) = 9 /\ path = Main("key")
           \/ Len(todo[w]) = 7 /\ path = Main("pem")
           \/ Len(todo[w]) = 5 /\ path = Main("der")
    BY <1>1, <1>2, <1>3, <1>4, LoadHead
  <1>6. got' = got
    BY DEF Create
  <1>7. Short # n
    BY NamesAssumption
  <1>8. CASE Len(todo[w]) = 9 /\ path = Main("key")
    <2>1. /\ ~(Exists("pem") /\ Exists("der")) /\ got[w] = <<>>
      BY <1>1, <1>8 DEF StageOk
    <2>2. /\ Exists("pem")' <=> Exists("pem")
          /\ Exists("der")' <=> Exists("der")
          /\ Exists("key")' /\ open'[w] = at'[Main("key")]
      <3>1. Main("pem") \in Paths \ {path} /\ Main("der") \in Paths \ {path}
        BY <1>8, CertificatePaths
      <3> QED
        BY <1>3, <1>8, <3>1 DEF Exists
    <2>3. Len(todo'[w]) = 8
      BY <1>4, <1>8
    <2>4. StageOk(w, n)'
      BY <1>6, <2>1, <2>2, <2>3 DEF StageOk
    <2>5. Len(got'[w]) >= 2 => got'[w][1] = got'[w][2]
      BY <1>6 DEF LoadInv
    <2> QED
      BY <1>3, <1>4, <1>6, <2>1, <2>2, <2>4, <2>5, LoadMoved
  <1>9. CASE Len(todo[w]) = 7 /\ path = Main("pem")
    <2>1. /\ Exists("key") /\ Held("key") = n /\ got[w] = <<>>
      BY <1>1, <1>9 DEF StageOk
    <2>2. /\ Exists("key")' /\ Held("key")' = n
          /\ open'[w] = at'[Main("pem")] /\ Held("pem")' = Short
      <3>1. Main("key") \in Paths \ {path}
        BY <1>9, CertificatePaths
      <3> QED
        BY <1>3, <1>9, <2>1, <3>1 DEF Exists, Held
    <2>3. Len(todo'[w]) = 6
      BY <1>4, <1>9
    <2>4. StageOk(w, n)'
      BY <1>6, <2>1, <2>2, <2>3 DEF StageOk
    <2>5. Len(got'[w]) >= 2 => got'[w][1] = got'[w][2]
      BY <1>6 DEF LoadInv
    <2>6. Paired'
      BY <1>7, <2>2 DEF Paired
    <2> QED
      BY <1>3, <1>4, <1>6, <2>4, <2>5, <2>6, LoadMoved
  <1>10. CASE Len(todo[w]) = 5 /\ path = Main("der")
    <2>1. Paired /\ got[w] = <<>>
      BY <1>1, <1>10 DEF StageOk
    <2>2. /\ Exists("key") => Exists("key")' /\ Held("key")' = Held("key")
          /\ Exists("pem")' => Exists("pem") /\ Held("pem")' = Held("pem")
      <3>1. Main("key") \in Paths \ {path} /\ Main("pem") \in Paths \ {path}
        BY <1>10, CertificatePaths
      <3> QED
        BY <1>3, <3>1 DEF Exists, Held
    <2>3. Len(todo'[w]) = 4
      BY <1>4, <1>10
    <2>4. Paired'
      BY <2>1, <2>2 DEF Paired
    <2>5. StageOk(w, n)'
      BY <1>6, <2>1, <2>3, <2>4 DEF StageOk
    <2>6. Len(got'[w]) >= 2 => got'[w][1] = got'[w][2]
      BY <1>6 DEF LoadInv
    <2> QED
      BY <1>3, <1>4, <1>6, <2>4, <2>5, <2>6, LoadMoved
  <1> QED
    BY <1>5, <1>8, <1>9, <1>10

LEMMA LoadFilled ==
    ASSUME TypeOK, JobInv, OpenInv, LoadInv, Alone, NEW w \in Writers, Fill(w), Loader(w)
    PROVE  LoadInv'
  <1>1. PICK n \in 0..MaxWritten : LoadOf(todo[w], n) /\ StageOk(w, n)
    BY DEF LoadInv
  <1>2. /\ at' = at /\ open[w] # Nowhere /\ open'[w] = Nowhere /\ Head(todo[w]).op = "fill"
        /\ content'[open[w]] = Head(todo[w]).what
        /\ \A q \in Paths : at[q] # Nowhere /\ q[1] # NameOf(w) => content'[at[q]] = content[at[q]]
        /\ \A v \in Writers \ {w} : todo'[v] = todo[v]
        /\ todo'[w] = Tail(todo[w])
    BY FillElsewhere
  <1>3. /\ Loader(w)' => LoadOf(todo'[w], n)
        /\ Len(todo'[w]) = Len(todo[w]) - 1 /\ Len(todo[w]) \in 1..9 /\ WellMade(todo[w])
    BY <1>1, <1>2, LoadGoesOn
  <1>4. /\ Head(todo[w]).what = n
        /\ \/ Len(todo[w]) = 8 /\ Head(todo[w]).path = Main("key")
           \/ Len(todo[w]) = 6 /\ Head(todo[w]).path = Main("pem")
           \/ Len(todo[w]) = 4 /\ Head(todo[w]).path = Main("der")
    BY <1>1, <1>2, <1>3, LoadHead
  <1>5. got' = got
    BY DEF Fill
  <1>6. Short # n
    BY NamesAssumption
  <1>7. /\ Exists("key")' <=> Exists("key")
        /\ Exists("pem")' <=> Exists("pem")
        /\ Exists("der")' <=> Exists("der")
    BY <1>2 DEF Exists
  <1>8. CASE Len(todo[w]) = 8 /\ Head(todo[w]).path = Main("key")
    <2>1. /\ ~(Exists("pem") /\ Exists("der")) /\ got[w] = <<>>
          /\ Exists("key") /\ open[w] = at[Main("key")]
      BY <1>1, <1>8 DEF StageOk
    <2>2. Held("key")' = n
      BY <1>2, <1>4, <2>1 DEF Held
    <2>3. Len(todo'[w]) = 7
      BY <1>3, <1>8
    <2>4. StageOk(w, n)'
      BY <1>5, <1>7, <2>1, <2>2, <2>3 DEF StageOk
    <2>5. Len(got'[w]) >= 2 => got'[w][1] = got'[w][2]
      BY <1>5 DEF LoadInv
    <2> QED
      BY <1>2, <1>3, <1>5, <1>7, <2>1, <2>4, <2>5, LoadMoved
  <1>9. CASE Len(todo[w]) = 6 /\ Head(todo[w]).path = Main("pem")
    <2>1. /\ Exists("key") /\ Held("key") = n /\ got[w] = <<>>
          /\ Exists("pem") => at[Main("pem")] = open[w]
      BY <1>1, <1>9 DEF StageOk
    <2>2. NameOf(w) = "pem"
      BY <1>9, CertificatePaths DEF NameOf
    <2>3. Held("key")' = n /\ (Exists("pem") => Held("pem")' = n)
      BY <1>2, <1>4, <2>1, <2>2, CertificatePaths DEF Held, Exists
    <2>4. Len(todo'[w]) = 5
      BY <1>3, <1>9
    <2>5. Paired'
      BY <1>6, <1>7, <2>1, <2>3 DEF Paired
    <2>6. StageOk(w, n)'
      BY <1>5, <2>1, <2>4, <2>5 DEF StageOk
    <2>7. Len(got'[w]) >= 2 => got'[w][1] = got'[w][2]
      BY <1>5 DEF LoadInv
    <2> QED
      BY <1>2, <1>3, <1>5, <2>5, <2>6, <2>7, LoadMoved
  <1>10. CASE Len(todo[w]) = 4 /\ Head(todo[w]).path = Main("der")
    <2>1. Paired /\ got[w] = <<>>
      BY <1>1, <1>10 DEF StageOk
    <2>2. NameOf(w) = "der"
      BY <1>10, CertificatePaths DEF NameOf
    <2>3. /\ Exists("key") => Held("key")' = Held("key")
          /\ Exists("pem") => Held("pem")' = Held("pem")
      BY <1>2, <2>2, CertificatePaths DEF Held, Exists
    <2>4. Len(todo'[w]) = 3
      BY <1>3, <1>10
    <2>5. Paired'
      BY <1>7, <2>1, <2>3 DEF Paired
    <2>6. StageOk(w, n)'
      BY <1>5, <2>1, <2>4, <2>5 DEF StageOk
    <2>7. Len(got'[w]) >= 2 => got'[w][1] = got'[w][2]
      BY <1>5 DEF LoadInv
    <2> QED
      BY <1>2, <1>3, <1>5, <2>5, <2>6, <2>7, LoadMoved
  <1> QED
    BY <1>4, <1>8, <1>9, <1>10

LEMMA OnCertificates ==
    ASSUME JobInv, NEW w \in Writers, todo[w] # <<>>, Head(todo[w]).path[1] \in Certificates
    PROVE  Loader(w)
  <1>1. JobOk(known, w, todo[w], open[w])
    BY DEF JobInv
  <1>2. Head(todo[w]) = todo[w][1] /\ Len(todo[w]) \in Nat \ {0}
    BY <1>1, RestOfJob DEF JobOk
  <1>3. 1 \in 1..Len(todo[w])
    BY <1>2
  <1> QED
    BY <1>1, <1>2, <1>3 DEF JobOk, PartOfLoad, Loader

LEMMA LoadRead ==
    ASSUME TypeOK, JobInv, LoadInv, Alone, NEW w \in Writers, Read(w)
    PROVE  LoadInv'
  <1>1. PICK path : path = Head(todo[w]).path
    OBVIOUS
  <1>2. /\ todo[w] # <<>> /\ Head(todo[w]).op = "read" /\ UNCHANGED <<at, content, open>>
        /\ \/ /\ at[path] # Nowhere /\ (path # Main("der") => content[at[path]] # Short)
              /\ got' = [got EXCEPT ![w] = Append(@, content[at[path]])] /\ todo' = Rest(w)
           \/ todo' = [todo EXCEPT ![w] = <<>>] /\ UNCHANGED got
    BY <1>1 DEF Read, Next1, disk
  <1>3. /\ Sound(Head(todo[w])) /\ WellMade(todo[w]) /\ path \in Paths
        /\ Rest(w)[w] = Tail(todo[w]) /\ \A v \in Writers \ {w} : Rest(w)[v] = todo[v]
    BY <1>1, <1>2, StepFacts DEF Steps
  <1>4. Loader(w)
    <2>1. Head(todo[w]).path[1] \in Certificates
      BY <1>2, <1>3, PathFacts DEF Sound
    <2> QED
      BY <1>2, <2>1, OnCertificates
  <1>5. PICK n \in 0..MaxWritten : LoadOf(todo[w], n) /\ StageOk(w, n)
    BY <1>4 DEF LoadInv
  <1>6. Exists("pem")' /\ Exists("der")' => Paired'
    BY <1>2 DEF LoadInv, Paired, Exists, Held
  <1>7. CASE todo' = [todo EXCEPT ![w] = <<>>] /\ UNCHANGED got
    <2>1. todo'[w] = <<>> /\ \A v \in Writers \ {w} : todo'[v] = todo[v]
      BY <1>7 DEF TypeOK
    <2>2. ~Loader(w)'
      BY <2>1 DEF Loader, LoadOf
    <2>3. Len(got'[w]) >= 2 => got'[w][1] = got'[w][2]
      BY <1>7 DEF LoadInv
    <2> QED
      BY <1>4, <1>6, <1>7, <2>1, <2>2, <2>3, LoadMoved
  <1>8. CASE /\ at[path] # Nowhere /\ (path # Main("der") => content[at[path]] # Short)
             /\ got' = [got EXCEPT ![w] = Append(@, content[at[path]])] /\ todo' = Rest(w)
    <2>1. /\ todo'[w] = Tail(todo[w]) /\ \A v \in Writers \ {w} : todo'[v] = todo[v] /\ got'[v] = got[v]
          /\ got'[w] = Append(got[w], content[at[path]])
          /\ got[w] \in Seq(Contents) /\ content[at[path]] \in Contents
      BY <1>3, <1>8 DEF TypeOK
    <2>2. /\ Loader(w)' => LoadOf(todo'[w], n)
          /\ Len(todo'[w]) = Len(todo[w]) - 1 /\ Len(todo[w]) \in 1..9
      BY <1>5, <2>1, LoadGoesOn
    <2>3. /\ \/ Len(todo[w]) = 3 /\ path = Main("key")
             \/ Len(todo[w]) = 2 /\ path = Main("pem")
             \/ Len(todo[w]) = 1 /\ path = Main("der")
      BY <1>1, <1>2, <1>3, <1>5, LoadHead
    <2>4. PICK x : x = content[at[path]] /\ x \in Contents
      BY <2>1
    <2>5. /\ Len(got'[w]) = Len(got[w]) + 1 /\ got'[w][Len(got[w]) + 1] = x
          /\ \A i \in 1..Len(got[w]) : got'[w][i] = got[w][i]
          /\ Len(got[w]) \in Nat
      BY <2>1, <2>4
    <2>6. CASE Len(todo[w]) = 3 /\ path = Main("key")
      <3>1. got[w] = <<>> /\ Paired
        BY <1>5, <2>6 DEF StageOk
      <3>2. Len(got[w]) = 0
        BY <3>1
      <3>3. Len(got'[w]) = 1 /\ got'[w][1] = Held("key")'
        BY <1>2, <2>4, <2>5, <2>6, <3>2 DEF Held
      <3>4. Paired'
        BY <1>2, <3>1 DEF Paired, Exists, Held
      <3>5. Len(todo'[w]) = 2
        BY <2>2, <2>6
      <3>6. StageOk(w, n)'
        BY <3>3, <3>4, <3>5 DEF StageOk
      <3> QED
        BY <1>4, <1>6, <2>1, <2>2, <3>3, <3>6, LoadMoved
    <2>7. CASE Len(todo[w]) = 2 /\ path = Main("pem")
      <3>1. Len(got[w]) = 1 /\ got[w][1] = Held("key") /\ Paired
        BY <1>5, <2>7 DEF StageOk
      <3>2. Held("pem") = Held("key") /\ x = Held("pem")
        BY <1>8, <2>4, <2>7, <3>1, CertificatePaths DEF Paired, Exists, Held
      <3>3. Len(got'[w]) = 2 /\ got'[w][1] = got'[w][2]
        BY <2>5, <3>1, <3>2
      <3>4. Paired'
        BY <1>2, <3>1 DEF Paired, Exists, Held
      <3>5. Len(todo'[w]) = 1
        BY <2>2, <2>7
      <3>6. StageOk(w, n)'
        BY <3>3, <3>4, <3>5 DEF StageOk
      <3> QED
        BY <1>4, <1>6, <2>1, <2>2, <3>3, <3>6, LoadMoved
    <2>8. CASE Len(todo[w]) = 1 /\ path = Main("der")
      <3>1. Len(got[w]) = 2
        BY <1>5, <2>8 DEF StageOk
      <3>2. got[w][1] = got[w][2]
        BY <3>1 DEF LoadInv
      <3>3. got'[w][1] = got'[w][2]
        BY <2>5, <3>1, <3>2
      <3>4. ~Loader(w)'
        <4>1. Tail(todo[w]) = <<>>
          <5>1. Tail(todo[w]) # <<>> <=> Len(todo[w]) > 1
            BY <1>3, <1>5, LoadHead
          <5> QED
            BY <2>8, <5>1
        <4> QED
          BY <2>1, <4>1 DEF Loader, LoadOf
      <3> QED
        BY <1>4, <1>6, <2>1, <3>3, <3>4, LoadMoved
    <2> QED
      BY <2>3, <2>6, <2>7, <2>8
  <1> QED
    BY <1>2, <1>7, <1>8

LEMMA LoadStarted ==
    ASSUME TypeOK, JobInv, LoadInv, NEW w \in Writers, LoadAuthority(w)
    PROVE  LoadInv'
  <1> SUFFICES ASSUME Alone' PROVE LoadInv'
    BY DEF LoadInv
  <1>1. /\ got' = [got EXCEPT ![w] = <<>>] /\ UNCHANGED <<at, content, open>>
        /\ overlapped' = (overlapped \/ \E v \in Writers : Loading(v)) /\ keyless' = keyless
        /\ todo[w] = <<>>
    BY DEF LoadAuthority, disk, Idle
  <1>2. Alone /\ \A v \in Writers : ~Loading(v)
    BY <1>1 DEF Alone
  <1>3. ASSUME NEW v \in Writers, Loader(v) PROVE FALSE
    <2>1. PICK n \in 0..MaxWritten : LoadOf(todo[v], n)
      BY <1>3 DEF Loader
    <2>2. WellMade(todo[v])
      BY DEF JobInv, JobOk
    <2>3. Len(todo[v]) \in 1..9 /\ todo[v][Len(todo[v])] = Reads[3]
      BY <2>1, <2>2, LoadAt
    <2>4. todo[v][Len(todo[v])].op = "read"
      BY <2>3, ReadsMade, StepIsRecord
    <2>5. Len(todo[v]) \in DOMAIN todo[v]
      <3>1. todo[v] \in Seq(Steps)
        BY <2>2 DEF WellMade
      <3>2. DOMAIN todo[v] = 1..Len(todo[v])
        BY <3>1
      <3>3. PICK k : k = Len(todo[v])
        OBVIOUS
      <3>4. k \in 1..k
        BY <2>3, <3>3
      <3> QED
        BY <3>2, <3>3, <3>4
    <2> QED
      BY <1>2, <2>4, <2>5 DEF Loading
  <1>4. /\ got'[w] = <<>> /\ \A v \in Writers \ {w} : got'[v] = got[v]
    BY <1>1 DEF TypeOK
  <1>5. \A v \in Writers : Len(got'[v]) >= 2 => got'[v][1] = got'[v][2]
    <2>1. ~(Len(<<>>) >= 2)
      OBVIOUS
    <2> QED
      BY <1>2, <1>4, <2>1 DEF LoadInv
  <1>6. Exists("pem")' /\ Exists("der")' => Paired'
    BY <1>1, <1>2 DEF LoadInv, Paired, Exists, Held
  <1>7. \E n \in 0..MaxWritten : LoadOf(todo'[w], n) /\ StageOk(w, n)'
    <2>1. CASE \A file \in Certificates : Exists(file)
      <3>1. todo'[w] = Reads
        BY <2>1 DEF LoadAuthority, TypeOK
      <3>2. 0 \in 0..MaxWritten
        BY ThreadsAssumption
      <3>3. LoadOf(Reads, 0) /\ Len(Reads) = 3
        BY <3>2, LoadMade, ReadsMade
      <3>4. Paired'
        BY <1>1, <1>6, <2>1, CertificatePaths DEF Exists
      <3>5. StageOk(w, 0)'
        BY <1>4, <3>1, <3>3, <3>4 DEF StageOk
      <3> QED
        BY <3>1, <3>2, <3>3, <3>5
    <2>2. CASE ~\A file \in Certificates : Exists(file)
      <3>1. todo'[w] = Loads(authority') /\ authority < MaxWritten /\ authority' = authority + 1
        BY <2>2 DEF LoadAuthority, TypeOK, Loads
      <3>2. PICK n \in 0..MaxWritten : n = authority'
        BY <3>1, ThreadsAssumption DEF TypeOK
      <3>3. LoadOf(Loads(n), n) /\ Len(Loads(n)) = 9
        BY LoadMade, LoadsMade
      <3>4. ~(Exists("pem")' /\ Exists("der")')
        <4>1. ~Exists("key") \/ ~Exists("pem") \/ ~Exists("der")
          BY <2>2 DEF Certificates
        <4>2. Exists("pem") /\ Exists("der") => Exists("key")
          BY <1>2 DEF LoadInv, Paired
        <4> QED
          BY <1>1, <4>1, <4>2 DEF Exists
      <3>5. Len(todo'[w]) = 9
        BY <3>1, <3>2, <3>3
      <3>6. StageOk(w, n)'
        BY <1>4, <3>4, <3>5 DEF StageOk
      <3> QED
        BY <3>1, <3>2, <3>3, <3>6
    <2> QED
      BY <2>1, <2>2
  <1>8. \A v \in Writers \ {w} : ~Loader(v)'
    <2>1. \A v \in Writers \ {w} : todo'[v] = todo[v]
      BY DEF LoadAuthority, TypeOK
    <2> QED
      BY <1>3, <2>1 DEF Loader
  <1> QED
    BY <1>5, <1>6, <1>7, <1>8 DEF LoadInv

LEMMA LoadStep ==
    ASSUME TypeOK, JobInv, OpenInv, LoadInv, Next, JobInv'
    PROVE  LoadInv'
  <1> SUFFICES ASSUME Alone' PROVE LoadInv'
    BY DEF LoadInv
  <1>0. Alone
    BY HistoryGrows DEF Alone
  \* A thread that is not in a load stays out of it.
  <1>a. ASSUME NEW w \in Writers, todo[w] # <<>>, Head(todo[w]).path[1] \notin Certificates,
               todo'[w] \in {Tail(todo[w]), <<>>}
        PROVE  ~Loader(w)'
    <2>1. JobOk(known, w, todo[w], open[w])
      BY DEF JobInv
    <2>2. \A n \in 0..MaxWritten : ~LoadOf(Tail(todo[w]), n)
      BY <1>a, <2>1, NotLoading
    <2> QED
      BY <1>a, <2>2 DEF Loader, LoadOf
  \* Neither the files nor what was read of them changes, and no other thread's job.
  <1>b. ASSUME NEW w \in Writers, UNCHANGED <<disk, got>>, ~Loader(w)',
               \A v \in Writers \ {w} : todo'[v] = todo[v] /\ open'[v] = open[v]
        PROVE  LoadInv'
    BY <1>0, <1>b, LoadKept DEF disk
  <1>1. ASSUME NEW w \in Writers, Put(w) PROVE LoadInv'
    <2>1. PICK body \in Bodies :
              todo' = [todo EXCEPT ![w] = IF Exists(body) THEN <<>> ELSE Replace(body, body)]
      BY <1>1, Zenon DEF Put
    <2>2. UNCHANGED <<disk, got, open>>
      BY <1>1 DEF Put
    <2>3. ~Loader(w)'
      <3>1. todo'[w] = <<>> \/ todo'[w] = Replace(body, body)
        BY <2>1 DEF TypeOK
      <3>2. Replace(body, body)[1].path[1] = body /\ WellMade(Replace(body, body)) /\ body \notin Certificates
        BY ReplaceMade, StepIsRecord, PathFacts, ContentFacts, NamesAssumption DEF Replaced
      <3>3. \A n \in 0..MaxWritten : ~LoadOf(Replace(body, body), n)
        BY <3>2, LoadHead, RestOfJob DEF LoadOf
      <3> QED
        BY <3>1, <3>3 DEF Loader, LoadOf
    <2>4. \A v \in Writers \ {w} : todo'[v] = todo[v] /\ open'[v] = open[v]
      BY <2>1, <2>2 DEF TypeOK
    <2> QED
      BY <1>b, <2>2, <2>3, <2>4
  <1>2. ASSUME NEW w \in Writers, LoadAuthority(w) PROVE LoadInv'
    BY <1>2, LoadStarted
  <1>3. ASSUME NEW w \in Writers, Create(w) PROVE LoadInv'
    <2>1. CASE Loader(w)
      BY <1>0, <1>3, <2>1, LoadCreated
    <2>2. CASE ~Loader(w)
      <3>1. PICK path : path = Head(todo[w]).path
        OBVIOUS
      <3>2. /\ todo[w] # <<>> /\ todo'[w] = Tail(todo[w])
            /\ \A q \in Paths \ {path} : at'[q] = at[q] /\ (at[q] # Nowhere => content'[at[q]] = content[at[q]])
            /\ \A v \in Writers \ {w} : todo'[v] = todo[v] /\ open'[v] = open[v]
        BY <1>3, <3>1, CreateElsewhere
      <3>3. path[1] \notin Certificates
        BY <2>2, <3>1, <3>2, OnCertificates
      <3>4. ~Loader(w)'
        BY <1>a, <3>1, <3>2, <3>3
      <3>5. \A c \in Certificates : Main(c) \in Paths \ {path}
        BY <3>3, PathFacts
      <3>6. got' = got
        BY <1>3 DEF Create
      <3> QED
        BY <1>0, <3>2, <3>4, <3>5, <3>6, LoadKept
    <2> QED
      BY <2>1, <2>2
  <1>4. ASSUME NEW w \in Writers, Fill(w) PROVE LoadInv'
    <2>1. CASE Loader(w)
      BY <1>0, <1>4, <2>1, LoadFilled
    <2>2. CASE ~Loader(w)
      <3>1. /\ todo[w] # <<>> /\ todo'[w] = Tail(todo[w]) /\ at' = at
            /\ \A q \in Paths : at[q] # Nowhere /\ q[1] # NameOf(w) => content'[at[q]] = content[at[q]]
            /\ \A v \in Writers \ {w} : todo'[v] = todo[v] /\ open'[v] = open[v]
        BY <1>4, FillElsewhere
      <3>2. NameOf(w) \notin Certificates
        BY <2>2, <3>1, OnCertificates DEF NameOf
      <3>3. ~Loader(w)'
        BY <1>a, <3>1, <3>2 DEF NameOf
      <3>4. \A c \in Certificates : Main(c) \in Paths /\ Main(c)[1] # NameOf(w)
        BY <3>2, PathFacts
      <3>5. got' = got
        BY <1>4 DEF Fill
      <3> QED
        BY <1>0, <3>1, <3>3, <3>4, <3>5, LoadKept
    <2> QED
      BY <2>1, <2>2
  <1>5. ASSUME NEW w \in Writers, Rename(w) PROVE LoadInv'
    <2>1. PICK name \in Replaced :
              /\ todo[w] # <<>> /\ Head(todo[w]).path = Main(name)
              /\ \A v \in Writers \ {w} : todo'[v] = todo[v]
              /\ todo'[w] \in {Tail(todo[w]), <<>>}
              /\ \/ at' = at
                 \/ at' = [at EXCEPT ![Main(name)] = at[Temporary(name)], ![Temporary(name)] = Nowhere]
      BY <1>5, Renamed
    <2>2. UNCHANGED <<content, open, got>>
      BY <1>5 DEF Rename
    <2>3. Head(todo[w]).path[1] \notin Certificates
      BY <2>1, PathFacts
    <2>4. ~Loader(w)'
      BY <1>a, <2>1, <2>3
    <2>5. ASSUME NEW c \in Certificates PROVE at'[Main(c)] = at[Main(c)]
      <3>1. Main(c) \in Paths \ {Main(name), Temporary(name)}
        <4>1. c # name
          BY PathFacts
        <4> QED
          BY <4>1, PathFacts
      <3>2. CASE at' = [at EXCEPT ![Main(name)] = at[Temporary(name)], ![Temporary(name)] = Nowhere]
        BY <3>1, <3>2, RenamedAt
      <3> QED
        BY <2>1, <3>2
    <2> QED
      BY <1>0, <2>1, <2>2, <2>4, <2>5, LoadKept
  <1>6. ASSUME NEW w \in Writers, Read(w) PROVE LoadInv'
    BY <1>0, <1>6, LoadRead
  <1>7. ASSUME NEW w \in Writers, WriteFails(w) PROVE LoadInv'
    <2>1. /\ UNCHANGED <<disk, got>> /\ todo' = [todo EXCEPT ![w] = <<>>]
          /\ open' = [open EXCEPT ![w] = Nowhere]
      BY <1>7 DEF WriteFails
    <2>2. todo'[w] = <<>> /\ \A v \in Writers \ {w} : todo'[v] = todo[v] /\ open'[v] = open[v]
      BY <2>1 DEF TypeOK
    <2>3. ~Loader(w)'
      BY <2>2 DEF Loader, LoadOf
    <2> QED
      BY <1>b, <2>1, <2>2, <2>3
  <1>8. ASSUME NEW p \in Processes, Save(p) PROVE LoadInv'
    <2>1. PICK kind \in {"analysis", "settings"} :
             /\ known[p][kind] < MaxWritten
             /\ known' = [known EXCEPT ![p][kind] = @ + 1]
             /\ todo' = [todo EXCEPT ![<<p, UI>>] = Saved(p, kind, known'[p][kind])]
      BY <1>8, Zenon DEF Save
    <2>2. UNCHANGED <<disk, got, open>> /\ <<p, UI>> \in Writers
      BY <1>8, ThreadsAssumption DEF Save, Writers
    <2>3. PICK n \in 0..MaxWritten : n = known'[p][kind]
      BY <2>1, ThreadsAssumption DEF TypeOK
    <2>4. PICK w \in Writers : w = <<p, UI>>
      BY <2>2
    <2>5. todo'[w] = Saved(p, kind, n) /\ \A v \in Writers \ {w} : todo'[v] = todo[v] /\ open'[v] = open[v]
      BY <2>1, <2>2, <2>3, <2>4 DEF TypeOK
    <2>6. ASSUME NEW m \in 0..MaxWritten PROVE ~LoadOf(Saved(p, kind, n), m)
      <3> DEFINE s == Saved(p, kind, n)
      <3>1. WellMade(s) /\ s # <<>> /\ Versioned(s, kind, n)
        BY SavedMade
      <3> HIDE DEF s
      <3>2. Head(s) = s[1] /\ 1 \in 1..Len(s)
        BY <3>1, RestOfJob
      <3>3. Head(s).path[1] \notin Certificates
        BY <3>1, <3>2 DEF Versioned, Documents, Certificates
      <3>4. ~LoadOf(s, m)
        BY <3>1, <3>3, LoadHead
      <3> QED
        BY <3>4 DEF s
    <2>7. ~Loader(w)'
      BY <2>5, <2>6 DEF Loader
    <2> QED
      BY <1>b, <2>2, <2>5, <2>7
  <1>9. ASSUME NEW p \in Processes, Launch(p) PROVE LoadInv'
    <2>1. UNCHANGED <<at, content, todo, open, got>>
      BY <1>9 DEF Launch, disk
    <2> QED
      BY <1>0, <2>1, LoadKept
  <1>10. ASSUME NEW p \in Processes, Crash(p) PROVE LoadInv'
    <2>1. /\ UNCHANGED <<at, content>>
          /\ \A v \in Writers : \/ todo'[v] = todo[v] /\ open'[v] = open[v] /\ got'[v] = got[v]
                                \/ todo'[v] = <<>> /\ got'[v] = <<>>
      BY <1>10 DEF Crash, disk
    <2>2. ~(Len(<<>>) >= 2)
      OBVIOUS
    <2>3. \A v \in Writers : todo'[v] = <<>> => ~Loader(v)'
      BY DEF Loader, LoadOf
    <2> QED
      BY <1>0, <2>1, <2>2, <2>3, LoadKept
  <1>11. CASE Delete
    <2>1. PICK file \in Certificates :
             /\ at' = [at EXCEPT ![Main(file)] = Nowhere]
             /\ keyless' = (keyless \/ file = "key")
      BY <1>11 DEF Delete
    <2>2. UNCHANGED <<content, todo, open, got>>
      BY <1>11 DEF Delete
    <2>3. file # "key"
      BY <2>1 DEF Alone
    <2>4. ASSUME NEW c \in Certificates
          PROVE  \/ at'[Main(c)] = at[Main(c)]
                 \/ at'[Main(c)] = Nowhere /\ (c = "key" => ~Alone')
      <3>1. CASE c = file
        BY <2>1, <2>3, <3>1, PathFacts DEF TypeOK
      <3>2. CASE c # file
        <4>1. Main(c) # Main(file) /\ Main(c) \in Paths
          BY <3>2, PathFacts
        <4> QED
          BY <2>1, <4>1 DEF TypeOK
      <3> QED
        BY <3>1, <3>2
    <2> QED
      BY <1>0, <2>2, <2>4, LoadKept
  <1> QED
    BY <1>1, <1>2, <1>3, <1>4, <1>5, <1>6, <1>7, <1>8, <1>9, <1>10, <1>11, Zenon DEF Next

----------------------------------------------------------------------------
(* The documents. *)

\* Thread w is at a step of a document: its file is under the temporary name, then holds what
\* the process knows; and the baseline is in place before the dossiers are touched.
Ready(w) ==
    LET step == Head(todo[w])
        d == step.path[1]
    IN d \in Documents =>
          /\ step.op = "fill" => open[w] = at[Temporary(d)]
          /\ step.op = "rename" => /\ at[Temporary(d)] # Nowhere
                                   /\ content[at[Temporary(d)]] = known[w[1]][KindOf(d)]
          /\ d = "dossiers" => Loaded("baselines") = known[w[1]].analysis

DocInv ==
    ~crowded =>
        /\ \A p, q \in live : p = q
        /\ \A d \in Documents : (Exists(d) => Held(d) # Short) /\ newest[d] <= Loaded(d)
        /\ Loaded("dossiers") <= Loaded("baselines")
        /\ \A p \in live, d \in Documents : Loaded(d) <= known[p][KindOf(d)]
        /\ \A w \in Writers : todo[w] # <<>> => Ready(w)

\* A step that asks for nothing to be ready.
Fresh(w) ==
    Head(todo[w]).path[1] \in Documents =>
        Head(todo[w]).op \notin {"fill", "rename"} /\ Head(todo[w]).path[1] # "dossiers"

LEMMA DocumentPaths ==
    /\ \A d \in Documents : /\ Main(d) \in Paths /\ Temporary(d) \in Paths /\ d \in Replaced
                            /\ d \notin Certificates /\ d \notin Bodies
                            /\ KindOf(d) \in {"analysis", "settings"}
    /\ \A d, e \in Documents : Main(d) # Temporary(e) /\ (d # e => Main(d) # Main(e))
    /\ "baselines" \in Documents /\ "dossiers" \in Documents /\ "settings" \in Documents
    /\ KindOf("baselines") = "analysis" /\ KindOf("dossiers") = "analysis"
  <1>1. \A d \in Documents : /\ Main(d) \in Paths /\ Temporary(d) \in Paths /\ d \in Replaced
                             /\ d \notin Certificates /\ d \notin Bodies
    BY PathFacts, NamesAssumption DEF Replaced
  <1>2. \A d, e \in Documents : Main(d) # Temporary(e) /\ (d # e => Main(d) # Main(e))
    BY DEF Main, Temporary
  <1> QED
    BY <1>1, <1>2 DEF KindOf, Documents

LEMMA LoadedTyped ==
    ASSUME TypeOK, ContentInv, NEW d \in Documents
    PROVE  Loaded(d) \in 0..MaxWritten
  <1>1. Main(d) \in Paths /\ Main(d)[1] = d /\ Right(d) = 0..MaxWritten
    BY DocumentPaths, PathFacts, ContentFacts
  <1>2. Exists(d) => Held(d) \in 0..MaxWritten \cup {Short}
    BY <1>1 DEF ContentInv, Exists, Held
  <1> QED
    BY <1>2, ThreadsAssumption DEF Loaded

\* Documents and their temporary files stay as they are.
SameDocument(d) ==
    /\ at'[Main(d)] = at[Main(d)] /\ at'[Temporary(d)] = at[Temporary(d)]
    /\ at[Main(d)] # Nowhere => content'[at[Main(d)]] = content[at[Main(d)]]
    /\ at[Temporary(d)] # Nowhere => content'[at[Temporary(d)]] = content[at[Temporary(d)]]

LEMMA DocKept ==
    ASSUME TypeOK, JobInv, DocInv, crowded => crowded', live' \subseteq live, UNCHANGED <<known, newest>>,
           \A d \in Documents : SameDocument(d),
           \A v \in Writers : todo'[v] # <<>> =>
              (todo'[v] = todo[v] /\ open'[v] = open[v]) \/ Fresh(v)'
    PROVE  DocInv'
  <1> SUFFICES ASSUME ~crowded' PROVE DocInv'
    BY DEF DocInv
  <1>1. ~crowded
    OBVIOUS
  <1>2. ASSUME NEW d \in Documents
        PROVE  /\ Exists(d)' <=> Exists(d)
               /\ Exists(d) => Held(d)' = Held(d)
               /\ Loaded(d)' = Loaded(d)
    BY <1>2 DEF SameDocument, Exists, Held, Loaded
  <1>3. ASSUME NEW v \in Writers, todo'[v] # <<>> PROVE Ready(v)'
    <2>1. CASE todo'[v] = todo[v] /\ open'[v] = open[v]
      <3>1. Ready(v)
        BY <1>1, <1>3, <2>1 DEF DocInv
      <3>2. Loaded("baselines")' = Loaded("baselines")
        BY <1>2, DocumentPaths
      <3>3. PICK d : d = Head(todo[v]).path[1]
        OBVIOUS
      <3>4. CASE d \in Documents
        <4>1. SameDocument(d)
          BY <3>4
        <4> QED
          BY <2>1, <3>1, <3>2, <3>3, <4>1 DEF Ready, SameDocument
      <3>5. CASE d \notin Documents
        BY <2>1, <3>3, <3>5 DEF Ready
      <3> QED
        BY <3>4, <3>5
    <2>2. CASE Fresh(v)'
      BY <2>2 DEF Fresh, Ready
    <2> QED
      BY <1>3, <2>1, <2>2
  <1>4. Loaded("dossiers")' <= Loaded("baselines")'
    BY <1>1, <1>2, DocumentPaths DEF DocInv
  <1>5. \A p, q \in live' : p = q
    BY <1>1 DEF DocInv
  <1>6. \A d \in Documents : (Exists(d)' => Held(d)' # Short) /\ newest'[d] <= Loaded(d)'
    BY <1>1, <1>2 DEF DocInv
  <1>7. \A p \in live', d \in Documents : Loaded(d)' <= known'[p][KindOf(d)]
    BY <1>1, <1>2 DEF DocInv
  <1> QED
    BY <1>3, <1>4, <1>5, <1>6, <1>7 DEF DocInv

\* After a step that is not of a document, the next one is fresh.
LEMMA FreshAfter ==
    ASSUME JobInv, NEW w \in Writers, todo[w] # <<>>, Head(todo[w]).path[1] \notin Documents,
           todo'[w] = Tail(todo[w]), todo'[w] # <<>>
    PROVE  Fresh(w)'
  <1>1. WellMade(todo[w])
    BY DEF JobInv, JobOk
  <1>2. Follows(Head(todo[w]), Head(Tail(todo[w])))
    BY <1>1, RestOfJob
  <1>3. PICK a, b : a = Head(todo[w]) /\ b = Head(Tail(todo[w]))
    OBVIOUS
  <1>4. b.path[1] \in Documents => b.op \notin {"fill", "rename"} /\ b.path[1] # "dossiers"
    BY <1>2, <1>3, PathFacts, DocumentPaths DEF Follows
  <1> QED
    BY <1>3, <1>4 DEF Fresh

\* Only one thread writes documents, and at a step of a document its process runs.
LEMMA OneWriter ==
    ASSUME TypeOK, JobInv, DocInv, ~crowded, NEW w \in Writers, todo[w] # <<>>,
           Head(todo[w]).path[1] \in Documents
    PROVE  /\ w[1] \in live /\ Ready(w)
           /\ \A v \in Writers \ {w} : todo[v] # <<>> => Head(todo[v]).path[1] \notin Documents
  <1>1. w[2] = UI /\ w[1] \in live
    BY StepFacts DEF TypeOK, ProcessOf
  <1>2. ASSUME NEW v \in Writers \ {w}, todo[v] # <<>>, Head(todo[v]).path[1] \in Documents PROVE FALSE
    <2>1. v[2] = UI /\ v[1] \in live
      BY <1>2, StepFacts DEF TypeOK, ProcessOf
    <2>2. v[1] = w[1]
      BY <1>1, <2>1 DEF DocInv
    <2> QED
      BY <1>1, <1>2, <2>1, <2>2 DEF Writers
  <1> QED
    BY <1>1, <1>2 DEF DocInv

\* Thread w does a step of document d, with the rest of the invariant shown for what it leaves.
LEMMA DocMoved ==
    ASSUME TypeOK, JobInv, DocInv, ~crowded, UNCHANGED <<crowded, live, known>>,
           NEW w \in Writers, todo[w] # <<>>, Head(todo[w]).path[1] \in Documents,
           \A v \in Writers \ {w} : todo'[v] = todo[v],
           \A d \in Documents : /\ Exists(d)' => Held(d)' # Short
                                /\ newest'[d] <= Loaded(d)'
                                /\ \A p \in live : Loaded(d)' <= known[p][KindOf(d)],
           Loaded("dossiers")' <= Loaded("baselines")',
           todo'[w] # <<>> => Ready(w)'
    PROVE  DocInv'
  <1>1. \A v \in Writers \ {w} : todo[v] # <<>> => Head(todo[v]).path[1] \notin Documents
    BY OneWriter
  <1>2. \A v \in Writers \ {w} : todo'[v] # <<>> => Ready(v)'
    BY <1>1 DEF Ready
  <1>3. \A v \in Writers : todo'[v] # <<>> => Ready(v)'
    BY <1>2
  <1>4. \A p, q \in live' : p = q
    BY DEF DocInv
  <1>5. \A p \in live', d \in Documents : Loaded(d)' <= known'[p][KindOf(d)]
    OBVIOUS
  <1> QED
    BY <1>3, <1>4, <1>5 DEF DocInv

LEMMA DocCreated ==
    ASSUME TypeOK, JobInv, OpenInv, ContentInv, DocInv, ~crowded, NEW w \in Writers, Create(w),
           Head(todo[w]).path[1] \in Documents
    PROVE  DocInv'
  <1>1. PICK path, d : path = Head(todo[w]).path /\ d = path[1]
    OBVIOUS
  <1>2. /\ todo[w] # <<>> /\ todo'[w] = Tail(todo[w]) /\ Head(todo[w]).op = "create"
        /\ open'[w] = at'[path]
        /\ \A q \in Paths \ {path} : at'[q] = at[q] /\ (at[q] # Nowhere => content'[at[q]] = content[at[q]])
        /\ \A v \in Writers \ {w} : todo'[v] = todo[v] /\ open'[v] = open[v]
    BY <1>1, CreateElsewhere
  <1>3. UNCHANGED <<crowded, live, known, newest>>
    BY DEF Create, past
  <1>4. WellMade(todo[w]) /\ Sound(Head(todo[w]))
    BY <1>2, StepFacts
  <1>5. path = Temporary(d)
    <2>1. \/ \E file \in Certificates : path = Main(file)
          \/ \E name \in Replaced : path = Temporary(name)
      BY <1>1, <1>2, <1>4 DEF Sound
    <2> QED
      BY <1>1, <2>1, PathFacts, DocumentPaths
  <1>6. ASSUME NEW e \in Documents
        PROVE  (Exists(e)' <=> Exists(e)) /\ (Exists(e) => Held(e)' = Held(e)) /\ Loaded(e)' = Loaded(e)
    <2>1. Main(e) \in Paths \ {path}
      BY <1>1, <1>5, DocumentPaths
    <2> QED
      BY <1>2, <2>1 DEF Exists, Held, Loaded
  <1>7. Ready(w)'
    <2>1. Follows(Head(todo[w]), Head(Tail(todo[w])))
      BY <1>2, <1>4, RestOfJob
    <2>2. Head(todo'[w]).op = "fill" /\ Head(todo'[w]).path = path
      BY <1>1, <1>2, <2>1 DEF Follows
    <2>3. Ready(w)
      BY <1>2 DEF DocInv
    <2>4. d = "dossiers" => Loaded("baselines")' = known[w[1]].analysis
      BY <1>1, <1>6, <2>3, DocumentPaths DEF Ready
    <2> QED
      BY <1>1, <1>2, <1>3, <1>5, <2>2, <2>4 DEF Ready
  <1>8. \A e \in Documents : /\ Exists(e)' => Held(e)' # Short
                             /\ newest'[e] <= Loaded(e)'
                             /\ \A p \in live : Loaded(e)' <= known[p][KindOf(e)]
    BY <1>3, <1>6 DEF DocInv
  <1>9. Loaded("dossiers")' <= Loaded("baselines")'
    BY <1>6, DocumentPaths DEF DocInv
  <1> QED
    BY <1>2, <1>3, <1>7, <1>8, <1>9, DocMoved

LEMMA DocFilled ==
    ASSUME TypeOK, JobInv, OpenInv, ContentInv, DocInv, ~crowded, NEW w \in Writers, Fill(w),
           Head(todo[w]).path[1] \in Documents
    PROVE  DocInv'
  <1>1. PICK d \in Documents : d = Head(todo[w]).path[1]
    OBVIOUS
  <1>2. /\ at' = at /\ open[w] # Nowhere /\ Head(todo[w]).op = "fill"
        /\ content'[open[w]] = Head(todo[w]).what
        /\ \A q \in Paths : at[q] # Nowhere /\ at[q] # open[w] => content'[at[q]] = content[at[q]]
        /\ \A v \in Writers \ {w} : todo'[v] = todo[v]
        /\ todo[w] # <<>> /\ todo'[w] = Tail(todo[w])
    BY FillElsewhere
  <1>3. UNCHANGED <<crowded, live, known, newest>>
    BY DEF Fill, past
  <1>4. /\ WellMade(todo[w]) /\ Head(todo[w]).what = known[w[1]][KindOf(d)]
    BY <1>1, <1>2, StepFacts
  <1>5. Ready(w) /\ open[w] = at[Temporary(d)]
    BY <1>1, <1>2 DEF DocInv, Ready
  <1>6. ASSUME NEW e \in Documents
        PROVE  (Exists(e)' <=> Exists(e)) /\ (Exists(e) => Held(e)' = Held(e)) /\ Loaded(e)' = Loaded(e)
    <2>1. Main(e) \in Paths /\ Temporary(d) \in Paths /\ Main(e) # Temporary(d)
      BY DocumentPaths
    <2>2. at[Main(e)] # Nowhere => at[Main(e)] # open[w]
      BY <1>5, <2>1 DEF TypeOK
    <2> QED
      BY <1>2, <2>1, <2>2 DEF Exists, Held, Loaded
  <1>7. ASSUME todo'[w] # <<>> PROVE Ready(w)'
    <2>1. Follows(Head(todo[w]), Head(Tail(todo[w])))
      BY <1>2, <1>4, <1>7, RestOfJob
    <2>2. Head(todo'[w]).op = "rename" /\ Head(todo'[w]).path[1] = d
      <3>1. PICK a, b : a = Head(todo[w]) /\ b = Head(Tail(todo[w]))
        OBVIOUS
      <3>2. a.op = "fill" /\ a.path[1] = d /\ d \in Replaced
        BY <1>1, <1>2, <3>1, DocumentPaths
      <3>3. b.op = "rename" /\ b.path = Main(d)
        BY <2>1, <3>1, <3>2 DEF Follows
      <3>4. b.path[1] = d
        BY <3>3, PathFacts
      <3> QED
        BY <1>2, <3>1, <3>3, <3>4
    <2>3. d = "dossiers" => Loaded("baselines")' = known[w[1]].analysis
      BY <1>1, <1>5, <1>6, DocumentPaths DEF Ready
    <2>4. at'[Temporary(d)] # Nowhere /\ content'[at'[Temporary(d)]] = known[w[1]][KindOf(d)]
      BY <1>2, <1>4, <1>5
    <2> QED
      BY <1>3, <2>2, <2>3, <2>4 DEF Ready
  <1>8. \A e \in Documents : /\ Exists(e)' => Held(e)' # Short
                             /\ newest'[e] <= Loaded(e)'
                             /\ \A p \in live : Loaded(e)' <= known[p][KindOf(e)]
    BY <1>3, <1>6 DEF DocInv
  <1>9. Loaded("dossiers")' <= Loaded("baselines")'
    BY <1>6, DocumentPaths DEF DocInv
  <1> QED
    BY <1>2, <1>3, <1>7, <1>8, <1>9, DocMoved

LEMMA DocRenamed ==
    ASSUME TypeOK, JobInv, OpenInv, ContentInv, DocInv, ~crowded, NEW w \in Writers, Rename(w),
           Head(todo[w]).path[1] \in Documents
    PROVE  DocInv'
  <1>1. PICK d \in Replaced :
          /\ todo[w] # <<>> /\ Head(todo[w]).op = "rename" /\ Head(todo[w]).path = Main(d)
          /\ \A v \in Writers \ {w} : todo'[v] = todo[v]
          /\ \/ at[Temporary(d)] = Nowhere
             \/ /\ at' = [at EXCEPT ![Main(d)] = at[Temporary(d)], ![Temporary(d)] = Nowhere]
                /\ newest' = Latest(d, content[at[Temporary(d)]])
                /\ todo'[w] = Tail(todo[w])
    BY Renamed
  <1>2. d \in Documents /\ Head(todo[w]).path[1] = d
    BY <1>1, PathFacts
  <1>3. /\ w[1] \in live /\ Ready(w)
    BY <1>1, OneWriter
  <1>4. at[Temporary(d)] # Nowhere /\ content[at[Temporary(d)]] = known[w[1]][KindOf(d)]
    BY <1>1, <1>2, <1>3 DEF Ready
  <1>5. /\ at' = [at EXCEPT ![Main(d)] = at[Temporary(d)], ![Temporary(d)] = Nowhere]
        /\ newest' = Latest(d, content[at[Temporary(d)]])
        /\ todo'[w] = Tail(todo[w])
    BY <1>1, <1>4
  <1>6. UNCHANGED <<crowded, live, known, content>>
    BY DEF Rename
  <1>7. /\ at'[Main(d)] = at[Temporary(d)]
        /\ \A q \in Paths \ {Main(d), Temporary(d)} : at'[q] = at[q]
    BY <1>5, RenamedAt
  <1>8. PICK n \in 0..MaxWritten : n = known[w[1]][KindOf(d)]
    <2>1. w[1] \in Processes /\ KindOf(d) \in {"analysis", "settings"}
      BY <1>2, <1>3, DocumentPaths DEF TypeOK
    <2>2. known[w[1]] \in [{"analysis", "settings"} -> 0..MaxWritten]
      BY <2>1 DEF TypeOK
    <2>3. known[w[1]][KindOf(d)] \in 0..MaxWritten
      BY <2>1, <2>2
    <2> QED
      BY <2>3
  <1>9. n # Short
    BY NamesAssumption
  <1>10. Exists(d)' /\ Held(d)' = n /\ Loaded(d)' = n
    BY <1>4, <1>6, <1>7, <1>8, <1>9 DEF Exists, Held, Loaded
  <1>11. ASSUME NEW e \in Documents, e # d
         PROVE  (Exists(e)' <=> Exists(e)) /\ (Exists(e) => Held(e)' = Held(e)) /\ Loaded(e)' = Loaded(e)
    <2>1. Main(e) \in Paths \ {Main(d), Temporary(d)}
      BY <1>2, <1>11, DocumentPaths
    <2> QED
      BY <1>6, <1>7, <2>1 DEF Exists, Held, Loaded
  <1>12. Loaded(d) <= n /\ Loaded(d) \in 0..MaxWritten
    BY <1>2, <1>3, <1>8, LoadedTyped DEF DocInv
  <1>13. newest' = [newest EXCEPT ![d] = n]
    <2>1. newest[d] <= Loaded(d) /\ newest[d] \in 0..MaxWritten
      BY <1>2 DEF DocInv, TypeOK
    <2>2. newest[d] <= n
      BY <1>12, <2>1, ThreadsAssumption
    <2>3. newest' = [newest EXCEPT ![d] = IF n > newest[d] THEN n ELSE newest[d]]
      BY <1>2, <1>4, <1>5, <1>8, <1>9 DEF Latest
    <2>4. (IF n > newest[d] THEN n ELSE newest[d]) = n
      BY <2>1, <2>2, ThreadsAssumption
    <2> QED
      BY <2>3, <2>4
  <1>14. ASSUME NEW e \in Documents
         PROVE  /\ Exists(e)' => Held(e)' # Short
                /\ newest'[e] <= Loaded(e)'
                /\ \A p \in live : Loaded(e)' <= known[p][KindOf(e)]
    <2>1. CASE e = d
      <3>1. \A p \in live : p = w[1]
        BY <1>3 DEF DocInv
      <3>2. newest'[e] = n
        BY <1>13, <2>1 DEF TypeOK
      <3>3. n <= n
        OBVIOUS
      <3> QED
        BY <1>8, <1>9, <1>10, <2>1, <3>1, <3>2, <3>3
    <2>2. CASE e # d
      <3>1. newest'[e] = newest[e]
        BY <1>13, <2>2 DEF TypeOK
      <3> QED
        BY <1>11, <2>2, <3>1 DEF DocInv
    <2> QED
      BY <2>1, <2>2
  <1>15. d = "dossiers" => Loaded("baselines")' = n
    BY <1>1, <1>2, <1>3, <1>8, <1>11, DocumentPaths DEF Ready
  <1>16. Loaded("dossiers")' <= Loaded("baselines")'
    <2>1. CASE d = "dossiers"
      BY <1>10, <1>15, <2>1
    <2>2. CASE d = "baselines"
      <3>1. Loaded("dossiers")' = Loaded("dossiers")
        BY <1>11, <2>2, DocumentPaths
      <3>2. Loaded("dossiers") \in 0..MaxWritten /\ Loaded("dossiers") <= Loaded("baselines")
        BY LoadedTyped, DocumentPaths DEF DocInv
      <3> QED
        BY <1>10, <1>12, <2>2, <3>1, <3>2, ThreadsAssumption
    <2>3. CASE d \notin {"dossiers", "baselines"}
      BY <1>11, <2>3, DocumentPaths DEF DocInv
    <2> QED
      BY <2>1, <2>2, <2>3
  <1>17. ASSUME todo'[w] # <<>> PROVE Ready(w)'
    <2>1. WellMade(todo[w])
      BY <1>1, StepFacts
    <2>2. Follows(Head(todo[w]), Head(todo'[w]))
      BY <1>1, <1>5, <1>17, <2>1, RestOfJob
    <2>3. PICK b : b = Head(todo'[w])
      OBVIOUS
    <2>4. b.op # "fill" /\ b.op # "rename"
      BY <1>1, <2>2, <2>3 DEF Follows
    <2>5. b.path[1] = "dossiers" => d \in {"dossiers", "baselines"}
      BY <1>2, <2>2, <2>3 DEF Follows
    <2>6. d \in {"dossiers", "baselines"} => Loaded("baselines")' = known[w[1]].analysis
      BY <1>8, <1>10, <1>15, DocumentPaths
    <2> QED
      BY <1>6, <2>3, <2>4, <2>5, <2>6 DEF Ready
  <1> QED
    BY <1>1, <1>2, <1>6, <1>14, <1>16, <1>17, DocMoved

LEMMA DocStep ==
    ASSUME TypeOK, JobInv, OpenInv, ContentInv, DocInv, Next
    PROVE  DocInv'
  <1> SUFFICES ASSUME ~crowded' PROVE DocInv'
    BY DEF DocInv
  <1>0. ~crowded /\ (crowded => crowded')
    BY HistoryGrows
  \* No file changes, and of the threads only some that have nothing to do with a document.
  <1>a. ASSUME UNCHANGED <<disk, newest, known>>, live' \subseteq live,
               \A v \in Writers : todo'[v] # <<>> =>
                  (todo'[v] = todo[v] /\ open'[v] = open[v]) \/ Fresh(v)'
        PROVE  DocInv'
    BY <1>0, <1>a, DocKept DEF disk, SameDocument
  <1>b. ASSUME NEW w \in Writers, NEW s, s # <<>>, WellMade(s), Starts(s), todo'[w] = s PROVE Fresh(w)'
    BY <1>b, RestOfJob DEF Fresh, Starts
  <1>1. ASSUME NEW w \in Writers, Put(w) PROVE DocInv'
    <2>1. PICK body \in Bodies :
              todo' = [todo EXCEPT ![w] = IF Exists(body) THEN <<>> ELSE Replace(body, body)]
      BY <1>1, Zenon DEF Put
    <2>2. UNCHANGED <<disk, newest, known, live, open>>
      BY <1>1 DEF Put, past
    <2>3. WellMade(Replace(body, body)) /\ Starts(Replace(body, body))
      BY PutMade
    <2>4. todo'[w] # <<>> => Fresh(w)'
      <3>1. todo'[w] = <<>> \/ todo'[w] = Replace(body, body)
        BY <2>1 DEF TypeOK
      <3> QED
        BY <1>b, <2>3, <3>1
    <2>5. \A v \in Writers \ {w} : todo'[v] = todo[v] /\ open'[v] = open[v]
      BY <2>1, <2>2 DEF TypeOK
    <2> QED
      BY <1>a, <2>2, <2>4, <2>5
  <1>2. ASSUME NEW w \in Writers, LoadAuthority(w) PROVE DocInv'
    <2>1. UNCHANGED <<disk, newest, known, live, open>> /\ todo[w] = <<>>
      BY <1>2 DEF LoadAuthority, Idle
    <2>2. \E n \in 0..MaxWritten : todo'[w] = Reads \/ todo'[w] = Loads(n)
      <3>1. CASE \A file \in Certificates : Exists(file)
        <4>1. todo'[w] = Reads /\ 0 \in 0..MaxWritten
          BY <1>2, <3>1, ThreadsAssumption DEF LoadAuthority, TypeOK
        <4> QED
          BY <4>1
      <3>2. CASE ~\A file \in Certificates : Exists(file)
        <4>1. /\ todo'[w] = Loads(authority') /\ authority < MaxWritten /\ authority' = authority + 1
          BY <1>2, <3>2 DEF LoadAuthority, Loads, TypeOK
        <4>2. authority' \in 0..MaxWritten
          BY <4>1, ThreadsAssumption DEF TypeOK
        <4> QED
          BY <4>1, <4>2
      <3> QED
        BY <3>1, <3>2
    <2>3. PICK n \in 0..MaxWritten : todo'[w] = Reads \/ todo'[w] = Loads(n)
      BY <2>2
    <2>4. Fresh(w)'
      <3>1. WellMade(todo'[w]) /\ Starts(todo'[w]) /\ todo'[w] # <<>>
        BY <2>3, LoadMade DEF LoadOf
      <3> QED
        BY <1>b, <3>1
    <2>5. \A v \in Writers \ {w} : todo'[v] = todo[v] /\ open'[v] = open[v]
      BY <1>2, <2>1 DEF LoadAuthority, TypeOK
    <2> QED
      BY <1>a, <2>1, <2>4, <2>5
  <1>3. ASSUME NEW w \in Writers, Create(w) PROVE DocInv'
    <2>1. CASE Head(todo[w]).path[1] \in Documents
      BY <1>0, <1>3, <2>1, DocCreated
    <2>2. CASE Head(todo[w]).path[1] \notin Documents
      <3>1. PICK path : path = Head(todo[w]).path
        OBVIOUS
      <3>2. /\ todo[w] # <<>> /\ todo'[w] = Tail(todo[w])
            /\ \A q \in Paths \ {path} : at'[q] = at[q] /\ (at[q] # Nowhere => content'[at[q]] = content[at[q]])
            /\ \A v \in Writers \ {w} : todo'[v] = todo[v] /\ open'[v] = open[v]
        BY <1>3, <3>1, CreateElsewhere
      <3>3. ASSUME NEW d \in Documents PROVE SameDocument(d)
        <4>1. Main(d) \in Paths \ {path} /\ Temporary(d) \in Paths \ {path}
          BY <2>2, <3>1, DocumentPaths, PathFacts
        <4> QED
          BY <3>2, <4>1 DEF SameDocument
      <3>4. todo'[w] # <<>> => Fresh(w)'
        BY <2>2, <3>2, FreshAfter
      <3>5. UNCHANGED <<live, known, newest>>
        BY <1>3 DEF Create, past
      <3> QED
        BY <1>0, <3>2, <3>3, <3>4, <3>5, DocKept
    <2> QED
      BY <2>1, <2>2
  <1>4. ASSUME NEW w \in Writers, Fill(w) PROVE DocInv'
    <2>1. CASE Head(todo[w]).path[1] \in Documents
      BY <1>0, <1>4, <2>1, DocFilled
    <2>2. CASE Head(todo[w]).path[1] \notin Documents
      <3>1. /\ todo[w] # <<>> /\ todo'[w] = Tail(todo[w]) /\ at' = at
            /\ \A q \in Paths : at[q] # Nowhere /\ q[1] # NameOf(w) => content'[at[q]] = content[at[q]]
            /\ \A v \in Writers \ {w} : todo'[v] = todo[v] /\ open'[v] = open[v]
        BY <1>4, FillElsewhere
      <3>2. ASSUME NEW d \in Documents PROVE SameDocument(d)
        <4>1. /\ Main(d) \in Paths /\ Main(d)[1] # NameOf(w)
              /\ Temporary(d) \in Paths /\ Temporary(d)[1] # NameOf(w)
          BY <2>2, DocumentPaths, PathFacts DEF NameOf
        <4> QED
          BY <3>1, <4>1 DEF SameDocument
      <3>3. todo'[w] # <<>> => Fresh(w)'
        BY <2>2, <3>1, FreshAfter
      <3>4. UNCHANGED <<live, known, newest>>
        BY <1>4 DEF Fill, past
      <3> QED
        BY <1>0, <3>1, <3>2, <3>3, <3>4, DocKept
    <2> QED
      BY <2>1, <2>2
  <1>5. ASSUME NEW w \in Writers, Rename(w) PROVE DocInv'
    <2>1. CASE Head(todo[w]).path[1] \in Documents
      BY <1>0, <1>5, <2>1, DocRenamed
    <2>2. CASE Head(todo[w]).path[1] \notin Documents
      <3>1. PICK name \in Replaced :
                /\ todo[w] # <<>> /\ Head(todo[w]).path = Main(name)
                /\ \A v \in Writers \ {w} : todo'[v] = todo[v]
                /\ todo'[w] \in {Tail(todo[w]), <<>>}
                /\ \/ UNCHANGED <<at, newest>>
                   \/ /\ at' = [at EXCEPT ![Main(name)] = at[Temporary(name)], ![Temporary(name)] = Nowhere]
                      /\ newest' = Latest(name, content[at[Temporary(name)]])
        BY <1>5, Renamed
      <3>2. name \notin Documents
        BY <2>2, <3>1, PathFacts
      <3>3. UNCHANGED <<content, open, live, known>>
        BY <1>5 DEF Rename
      <3>4. newest' = newest
        BY <3>1, <3>2 DEF Latest
      <3>5. ASSUME NEW d \in Documents PROVE SameDocument(d)
        <4>1. Main(d) \in Paths \ {Main(name), Temporary(name)} /\ Temporary(d) \in Paths \ {Main(name), Temporary(name)}
          <5>1. Main(d) \in Paths /\ Temporary(d) \in Paths /\ d # name
            BY <3>2, DocumentPaths
          <5> QED
            BY <5>1, PathFacts
        <4>2. at'[Main(d)] = at[Main(d)] /\ at'[Temporary(d)] = at[Temporary(d)]
          <5>1. CASE at' = [at EXCEPT ![Main(name)] = at[Temporary(name)], ![Temporary(name)] = Nowhere]
            BY <4>1, <5>1, RenamedAt
          <5> QED
            BY <3>1, <5>1
        <4> QED
          BY <3>3, <4>2 DEF SameDocument
      <3>6. todo'[w] # <<>> => Fresh(w)'
        BY <2>2, <3>1, FreshAfter
      <3> QED
        BY <1>0, <3>1, <3>3, <3>4, <3>5, <3>6, DocKept
    <2> QED
      BY <2>1, <2>2
  <1>6. ASSUME NEW w \in Writers, Read(w) PROVE DocInv'
    <2>1. /\ todo[w] # <<>> /\ Head(todo[w]).op = "read" /\ UNCHANGED <<disk, newest, known, live, open>>
          /\ todo' = Rest(w) \/ todo' = [todo EXCEPT ![w] = <<>>]
      BY <1>6 DEF Read, Next1, past
    <2>2. /\ Sound(Head(todo[w]))
          /\ Rest(w)[w] = Tail(todo[w]) /\ \A v \in Writers \ {w} : Rest(w)[v] = todo[v]
      BY <2>1, StepFacts
    <2>3. Head(todo[w]).path[1] \notin Documents
      BY <2>1, <2>2, PathFacts, DocumentPaths DEF Sound
    <2>4. todo'[w] \in {Tail(todo[w]), <<>>} /\ \A v \in Writers \ {w} : todo'[v] = todo[v] /\ open'[v] = open[v]
      BY <2>1, <2>2 DEF TypeOK
    <2>5. todo'[w] # <<>> => Fresh(w)'
      BY <2>1, <2>3, <2>4, FreshAfter
    <2> QED
      BY <1>a, <2>1, <2>4, <2>5
  <1>7. ASSUME NEW w \in Writers, WriteFails(w) PROVE DocInv'
    <2>1. /\ UNCHANGED <<disk, newest, known, live>> /\ todo' = [todo EXCEPT ![w] = <<>>]
          /\ open' = [open EXCEPT ![w] = Nowhere]
      BY <1>7 DEF WriteFails
    <2>2. todo'[w] = <<>> /\ \A v \in Writers \ {w} : todo'[v] = todo[v] /\ open'[v] = open[v]
      BY <2>1 DEF TypeOK
    <2> QED
      BY <1>a, <2>1, <2>2
  <1>8. ASSUME NEW p \in Processes, Save(p) PROVE DocInv'
    <2>1. PICK kind \in {"analysis", "settings"} :
             /\ known[p][kind] < MaxWritten
             /\ known' = [known EXCEPT ![p][kind] = @ + 1]
             /\ todo' = [todo EXCEPT ![<<p, UI>>] = Saved(p, kind, known'[p][kind])]
      BY <1>8, Zenon DEF Save
    <2>2. /\ UNCHANGED <<at, content, open, live, newest>> /\ <<p, UI>> \in Writers /\ p \in live
          /\ todo[<<p, UI>>] = <<>>
      BY <1>8, ThreadsAssumption DEF Save, Writers, Idle, ProcessOf, disk, past
    <2>3. PICK w \in Writers : w = <<p, UI>>
      BY <2>2
    <2>4. PICK n \in 0..MaxWritten : n = known'[p][kind]
      BY <2>1, ThreadsAssumption DEF TypeOK
    <2>5. todo'[w] = Saved(p, kind, n) /\ \A v \in Writers \ {w} : todo'[v] = todo[v] /\ open'[v] = open[v]
      BY <2>1, <2>2, <2>3, <2>4 DEF TypeOK
    <2>6. Fresh(w)'
      <3>1. WellMade(Saved(p, kind, n)) /\ Starts(Saved(p, kind, n)) /\ Saved(p, kind, n) # <<>>
        BY SavedMade
      <3> QED
        BY <1>b, <2>5, <3>1
    <2>7. ASSUME NEW e \in Documents
          PROVE  /\ (Exists(e)' <=> Exists(e)) /\ Held(e)' = Held(e) /\ Loaded(e)' = Loaded(e)
      BY <2>2 DEF Exists, Held, Loaded
    <2>8. ASSUME NEW q \in live', NEW d \in Documents PROVE Loaded(d)' <= known'[q][KindOf(d)]
      <3>1. q \in Processes /\ KindOf(d) \in {"analysis", "settings"} /\ q \in live
        BY <2>2, <2>8, DocumentPaths DEF TypeOK
      <3>2. /\ known[q][KindOf(d)] \in 0..MaxWritten
            /\ known'[q][KindOf(d)] \in {known[q][KindOf(d)], known[q][KindOf(d)] + 1}
        BY <2>1, <3>1 DEF TypeOK
      <3>3. Loaded(d) <= known[q][KindOf(d)] /\ Loaded(d) \in 0..MaxWritten
        BY <1>0, <3>1, LoadedTyped DEF DocInv
      <3> QED
        BY <2>7, <3>2, <3>3, ThreadsAssumption
    <2>9. ASSUME NEW v \in Writers, todo'[v] # <<>> PROVE Ready(v)'
      <3>1. CASE v = w
        BY <2>6, <3>1 DEF Fresh, Ready
      <3>2. CASE v # w
        <4>1. todo'[v] = todo[v] /\ todo[v] # <<>>
          BY <2>5, <2>9, <3>2
        <4>2. Head(todo[v]).path[1] \notin Documents
          <5>1. ASSUME Head(todo[v]).path[1] \in Documents PROVE FALSE
            <6>1. v[2] = UI /\ v[1] \in live
              BY <4>1, <5>1, StepFacts DEF TypeOK, ProcessOf
            <6>2. v[1] = p
              BY <1>0, <2>2, <6>1 DEF DocInv
            <6> QED
              BY <2>3, <3>2, <6>1, <6>2 DEF Writers
          <5> QED
            BY <5>1
        <4> QED
          BY <4>1, <4>2 DEF Ready
      <3> QED
        BY <3>1, <3>2
    <2>10. \A d \in Documents : (Exists(d)' => Held(d)' # Short) /\ newest'[d] <= Loaded(d)'
      BY <1>0, <2>2, <2>7 DEF DocInv
    <2>11. Loaded("dossiers")' <= Loaded("baselines")' /\ \A q, r \in live' : q = r
      BY <1>0, <2>2, <2>7, DocumentPaths DEF DocInv
    <2> QED
      BY <2>8, <2>9, <2>10, <2>11 DEF DocInv
  <1>9. ASSUME NEW p \in Processes, Launch(p) PROVE DocInv'
    <2>1. /\ p \notin live /\ live' = live \cup {p} /\ crowded' = (crowded \/ live # {})
          /\ known' = [known EXCEPT ![p] = [analysis |-> Loaded("baselines"), settings |-> Loaded("settings")]]
          /\ UNCHANGED <<at, content, todo, open, newest>>
      BY <1>9 DEF Launch, disk
    <2>2. live' = {p}
      BY <2>1
    <2>3. \A w \in Writers : todo[w] = <<>>
      BY <2>1 DEF TypeOK
    <2>4. ASSUME NEW e \in Documents
          PROVE  /\ (Exists(e)' <=> Exists(e)) /\ Held(e)' = Held(e) /\ Loaded(e)' = Loaded(e)
      BY <2>1 DEF Exists, Held, Loaded
    <2>5. known'[p] = [analysis |-> Loaded("baselines"), settings |-> Loaded("settings")]
      BY <2>1 DEF TypeOK
    <2>6. ASSUME NEW d \in Documents PROVE Loaded(d)' <= known'[p][KindOf(d)]
      <3>1. \A e \in Documents : Loaded(e) <= Loaded(e)
        BY LoadedTyped, ThreadsAssumption
      <3>2. d = "settings" \/ d = "baselines" \/ d = "dossiers"
        BY DEF Documents
      <3>3. Loaded("dossiers") <= Loaded("baselines")
        BY <1>0 DEF DocInv
      <3> QED
        BY <2>4, <2>5, <3>1, <3>2, <3>3 DEF KindOf
    <2>7. \A d \in Documents : (Exists(d)' => Held(d)' # Short) /\ newest'[d] <= Loaded(d)'
      BY <1>0, <2>1, <2>4 DEF DocInv
    <2>8. Loaded("dossiers")' <= Loaded("baselines")'
      BY <1>0, <2>4, DocumentPaths DEF DocInv
    <2> QED
      BY <2>1, <2>2, <2>3, <2>6, <2>7, <2>8 DEF DocInv
  <1>10. ASSUME NEW p \in Processes, Crash(p) PROVE DocInv'
    <2>1. /\ UNCHANGED <<disk, newest, known>> /\ live' \subseteq live
          /\ \A v \in Writers : \/ todo'[v] = todo[v] /\ open'[v] = open[v]
                                \/ todo'[v] = <<>>
      BY <1>10 DEF Crash
    <2> QED
      BY <1>a, <2>1
  <1>11. CASE Delete
    <2>1. PICK file \in Certificates : at' = [at EXCEPT ![Main(file)] = Nowhere]
      BY <1>11 DEF Delete
    <2>2. UNCHANGED <<content, todo, open, live, known, newest>>
      BY <1>11 DEF Delete
    <2>3. ASSUME NEW d \in Documents PROVE SameDocument(d)
      <3>1. Main(d) \in Paths /\ Temporary(d) \in Paths /\ d # file
        BY DocumentPaths
      <3>2. Main(d) # Main(file) /\ Temporary(d) # Main(file)
        BY <3>1, PathFacts
      <3> QED
        BY <2>1, <2>2, <3>1, <3>2 DEF TypeOK, SameDocument
    <2> QED
      BY <1>0, <2>2, <2>3, DocKept
  <1> QED
    BY <1>1, <1>2, <1>3, <1>4, <1>5, <1>6, <1>7, <1>8, <1>9, <1>10, <1>11, Zenon DEF Next

----------------------------------------------------------------------------
(* The inductive invariant. *)

IInv == TypeOK /\ JobInv /\ OpenInv /\ ContentInv /\ LoadInv /\ DocInv

LEMMA InitIInv ==
    ASSUME Init
    PROVE  IInv
  <1>1. TypeOK
    <2>1. <<>> \in Seq(Steps) /\ <<>> \in Seq(Contents)
      OBVIOUS
    <2>2. Short \in Contents
      BY ContentFacts
    <2>3. Placed
      BY <2>2 DEF Init, Placed
    <2>4. Busy
      BY <2>1 DEF Init, Busy
    <2>5. left \in [Operations -> Nat]
      BY ThreadsAssumption DEF Init
    <2>6. Counted
      <3>1. 0 \in 0..MaxWritten
        BY ThreadsAssumption
      <3>2. authority \in 0..MaxWritten /\ newest \in [Documents -> 0..MaxWritten]
        BY <3>1 DEF Init
      <3>3. known \in [Processes -> [{"analysis", "settings"} -> 0..MaxWritten]]
        BY <3>1 DEF Init
      <3>4. {cut, crowded, overlapped, keyless} \subseteq BOOLEAN
        BY DEF Init
      <3> QED
        BY <2>5, <3>2, <3>3, <3>4 DEF Counted
    <2> QED
      BY <2>3, <2>4, <2>6, TypesInParts
  <1>2. /\ \A q \in Paths : at[q] = Nowhere
        /\ \A w \in Writers : todo[w] = <<>> /\ open[w] = Nowhere /\ got[w] = <<>>
    BY DEF Init
  <1>3. JobInv
    BY <1>2, NoJob DEF JobInv
  <1>4. OpenInv /\ ContentInv
    BY <1>2 DEF OpenInv, ContentInv
  <1>5. LoadInv
    <2>1. ~(Len(<<>>) >= 2)
      OBVIOUS
    <2>2. \A w \in Writers : ~Loader(w)
      BY <1>2 DEF Loader, LoadOf
    <2>3. ~Exists("pem")
      BY <1>2, CertificatePaths DEF Exists
    <2> QED
      BY <1>2, <2>1, <2>2, <2>3 DEF LoadInv
  <1>6. DocInv
    <2>1. \A d \in Documents : ~Exists(d) /\ Loaded(d) = 0 /\ newest[d] = 0
      BY <1>2, DocumentPaths DEF Exists, Loaded, Init
    <2>2. live = {}
      BY DEF Init
    <2> QED
      BY <1>2, <2>1, <2>2, DocumentPaths DEF DocInv
  <1> QED
    BY <1>1, <1>3, <1>4, <1>5, <1>6 DEF IInv

LEMMA NextIInv ==
    ASSUME IInv, Next
    PROVE  IInv'
  <1>1. JobInv'
    BY JobStep DEF IInv
  <1>2. TypeOK'
    BY <1>1, TypeStep DEF IInv
  <1>3. OpenInv' /\ ContentInv'
    BY FileStep DEF IInv
  <1>4. LoadInv'
    BY <1>1, LoadStep DEF IInv
  <1>5. DocInv'
    BY DocStep DEF IInv
  <1> QED
    BY <1>1, <1>2, <1>3, <1>4, <1>5 DEF IInv

LEMMA StutterIInv ==
    ASSUME IInv, UNCHANGED vars
    PROVE  IInv'
  <1>1. /\ TypeOK' /\ JobInv' /\ OpenInv' /\ ContentInv'
    BY DEF IInv, vars, disk, past, TypeOK, JobInv, OpenInv, NameOf, ContentInv
  <1>2. LoadInv'
    BY DEF IInv, vars, disk, past, LoadInv, Alone, Loader, StageOk, Paired, Exists, Held
  <1>3. DocInv'
    BY DEF IInv, vars, disk, past, DocInv, Ready, Loaded, Exists, Held
  <1> QED
    BY <1>1, <1>2, <1>3 DEF IInv

\* The invariant the rest follows from: what each thread has left to do is the rest of a job of this
\* code (storage.rs, certificate.rs, config.rs, ui.rs), a file that a thread has open is under no name
\* but the one it writes, and how far a load or a save has come says what is in its files.
THEOREM FilesInvariance == Spec => []IInv
  <1>1. IInv /\ [Next]_vars => IInv'
    BY NextIInv, StutterIInv
  <1> QED
    BY InitIInv, <1>1, PTL DEF Spec

\* Every variable keeps its type: no two names are of one file (fs::rename), and a thread without a job
\* has no file open (fs::write closes what it opens).
THEOREM FilesTypes == Spec => []TypeOK
  <1>1. IInv => TypeOK
    BY DEF IInv
  <1> QED
    BY <1>1, FilesInvariance, PTL

LEMMA IInvWhole ==
    ASSUME IInv
    PROVE  FilesAreWhole
  <1>1. BodiesAreWhole
    <2>1. ASSUME NEW body \in Bodies, Exists(body), ~cut,
                 \A w \in Writers : open[w] # at[Main(body)]
          PROVE  Held(body) = body
      <3>1. Main(body) \in Paths /\ Main(body)[1] = body /\ Right(body) = {body}
        BY PathFacts, ContentFacts DEF Replaced
      <3>2. content[at[Main(body)]] \in {body, Short} /\ content[at[Main(body)]] # Short
        BY <2>1, <3>1 DEF IInv, ContentInv, Exists
      <3> QED
        BY <3>2 DEF Held
    <2> QED
      BY <2>1 DEF BodiesAreWhole
  <1>2. AuthorityMatches
    BY DEF IInv, LoadInv, Alone, AuthorityMatches
  <1>3. DocumentsAreWhole
    <2>1. ASSUME NEW d \in Documents, ~crowded PROVE Loaded(d) >= newest[d]
      <3>1. Loaded(d) \in 0..MaxWritten /\ newest[d] \in 0..MaxWritten
        BY LoadedTyped DEF IInv, TypeOK
      <3> QED
        BY <2>1, <3>1, ThreadsAssumption DEF IInv, DocInv
    <2> QED
      BY <2>1 DEF IInv, DocInv, DocumentsAreWhole
  <1> QED
    BY <1>1, <1>2, <1>3 DEF FilesAreWhole

\* What is read from the data directory is what was written: a body that nobody has open is the one of
\* its hash (BodyStore::put), the key and the certificate of a capture belong together
\* (load_or_create_ca), and a document is what was last put in its place (AppSettings::save,
\* TrafficBaseline::save, HostDossierIndex::save), through any crashes and failed writes.
THEOREM WholeFiles == Spec => []FilesAreWhole
  BY IInvWhole, FilesInvariance, PTL
=============================================================================
