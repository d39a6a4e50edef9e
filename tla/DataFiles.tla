----------------------------- MODULE DataFiles -----------------------------
(***************************************************************************)
(* The files below the data directory: bodies under their hash             *)
(* (storage.rs), the key and certificate of the local authority            *)
(* (certificate.rs), and the documents the UI thread keeps (config.rs,     *)
(* baseline.rs, dossier.rs, and persist_analysis_state of ui.rs).  Several *)
(* threads of several processes write them; a file is emptied when it is   *)
(* opened and filled later, a rename is one step, and a thread that has a  *)
(* file open goes on writing it under whatever name it has.                *)
(***************************************************************************)
EXTENDS Naturals, Sequences, FiniteSets

CONSTANTS
    Processes, Threads, UI,     \* UI \in Threads is the UI thread of each process
    Bodies,
    Nowhere,                    \* no file
    Short,                      \* what a file holds that was opened and not yet filled
    MaxWritten,                 \* bound: generations of keys and versions of documents
    Budgets                     \* bound: how often each operation may happen in a behaviour

Documents == {"settings", "baselines", "dossiers"}
Certificates == {"key", "pem", "der"}
Operations == {"puts", "loads", "saves", "launches", "faults"}

ASSUME ThreadsAssumption == UI \in Threads /\ MaxWritten \in Nat /\ Budgets \subseteq [Operations -> Nat]
ASSUME NamesAssumption == 
    /\ Bodies \cap 0..MaxWritten = {} /\ Bodies \cap (Documents \cup Certificates) = {}
    /\ Short \notin Bodies \cup 0..MaxWritten /\ Nowhere \notin Nat

Named == Bodies \cup Documents \cup Certificates
Main(name) == <<name, "main">>
Temporary(name) == <<name, "tmp">>
Paths == {Main(name) : name \in Named} \cup {Temporary(name) : name \in Bodies \cup Documents}
Writers == Processes \X Threads
ProcessOf(w) == w[1]
Files == 1..Cardinality(Paths) + Cardinality(Writers)     \* one for each that may hold one
Contents == Bodies \cup (0..MaxWritten) \cup {Short}

VARIABLES
    at,         \* the directory: which file is at a path
    content,    \* what each file holds
    todo,       \* what a thread has yet to do of its job
    open,       \* the file a thread has open
    got,        \* what load_or_create_ca read, in order
    live,       \* the processes that run
    known,      \* by process: the version of its analysis and of its settings
    newest,     \* history: the latest version of each document put in place
    authority,  \* the generation of the key last made
    cut,        \* history: a write was cut short
    crowded,    \* history: two processes ran at once
    overlapped, \* history: two threads were in load_or_create_ca at once
    keyless,    \* history: the key was deleted
    left        \* bound

disk == <<at, content>>
past == <<newest, cut, crowded, overlapped, keyless>>
vars == <<disk, todo, open, got, live, known, authority, past, left>>

Step(op, path, what) == [op |-> op, path |-> path, what |-> what]
Ops == {"create", "fill", "rename", "read"}
Steps == [op : Ops, path : Paths, what : Contents]

TypeOK ==
    /\ at \in [Paths -> Files \cup {Nowhere}] /\ content \in [Files -> Contents]
    /\ open \in [Writers -> Files \cup {Nowhere}] /\ live \subseteq Processes
    /\ todo \in [Writers -> Seq(Steps)] /\ got \in [Writers -> Seq(Contents)]
    /\ \A w \in Writers : /\ ProcessOf(w) \notin live => todo[w] = <<>>
                          /\ todo[w] = <<>> => open[w] = Nowhere
    /\ \A p, q \in Paths : at[p] = at[q] /\ at[p] # Nowhere => p = q
    /\ authority \in 0..MaxWritten /\ newest \in [Documents -> 0..MaxWritten]
    /\ known \in [Processes -> [{"analysis", "settings"} -> 0..MaxWritten]]
    /\ {cut, crowded, overlapped, keyless} \subseteq BOOLEAN /\ left \in [Operations -> Nat]

Init ==
    /\ at = [path \in Paths |-> Nowhere] /\ content = [file \in Files |-> Short]
    /\ todo = [w \in Writers |-> <<>>] /\ open = [w \in Writers |-> Nowhere]
    /\ got = [w \in Writers |-> <<>>]
    /\ live = {} /\ known = [p \in Processes |-> [analysis |-> 0, settings |-> 0]]
    /\ newest = [d \in Documents |-> 0] /\ authority = 0
    /\ cut = FALSE /\ crowded = FALSE /\ overlapped = FALSE /\ keyless = FALSE
    /\ left \in Budgets

Spend(operation) == left[operation] > 0 /\ left' = [left EXCEPT ![operation] = @ - 1]
Idle(w) == ProcessOf(w) \in live /\ todo[w] = <<>>
Exists(name) == at[Main(name)] # Nowhere
Held(name) == content[at[Main(name)]]

----------------------------------------------------------------------------
(* Jobs, as the steps they take. *)

\* fs::write
Write(path, what) == <<Step("create", path, Short), Step("fill", path, what)>>

\* Mutant: the file is written in place.
ReplaceInPlace(name, what) == Write(Main(name), what)

\* fs::write of the temporary file, fs::rename
Replace(name, what) ==
    Write(Temporary(name), what) \o <<Step("rename", Main(name), Short)>>

Reads == <<Step("read", Main("key"), Short), Step("read", Main("pem"), Short), Step("read", Main("der"), Short)>>
Generate(n) == Write(Main("key"), n) \o Write(Main("pem"), n) \o Write(Main("der"), n)

\* BodyStore::put
Put(w) ==
    /\ Idle(w) /\ Spend("puts")
    /\ \E body \in Bodies :
          todo' = [todo EXCEPT ![w] = IF Exists(body) THEN <<>> ELSE Replace(body, body)]
    /\ UNCHANGED <<disk, open, got, live, known, authority, past>>

\* load_or_create_ca, of a capture that starts or of the button Install / Repair Trust, and the
\* certificate file read after it. Nothing is compared with what is there.
Loading(w) == \E i \in DOMAIN todo[w] : todo[w][i].op = "read"
LoadAuthority(w) ==
    /\ Idle(w) /\ Spend("loads")
    /\ IF \A file \in Certificates : Exists(file)
       THEN todo' = [todo EXCEPT ![w] = Reads] /\ UNCHANGED authority
       ELSE /\ authority < MaxWritten /\ authority' = authority + 1
            /\ todo' = [todo EXCEPT ![w] = Generate(authority') \o Reads]
    /\ got' = [got EXCEPT ![w] = <<>>]
    /\ overlapped' = (overlapped \/ \E v \in Writers : Loading(v))
    /\ UNCHANGED <<disk, open, live, known, newest, cut, crowded, keyless>>

\* Sessions change the analysis, a dialog the settings, and the UI thread saves: the baseline
\* first, then the dossiers.
Saved(p, kind, n) ==
    IF kind = "settings" THEN Replace("settings", n)
    ELSE Replace("baselines", n) \o Replace("dossiers", n)
Save(p) ==
    /\ Idle(<<p, UI>>) /\ Spend("saves")
    /\ \E kind \in {"analysis", "settings"} :
          /\ known[p][kind] < MaxWritten
          /\ known' = [known EXCEPT ![p][kind] = @ + 1]
          /\ todo' = [todo EXCEPT ![<<p, UI>>] = Saved(p, kind, known'[p][kind])]
    /\ UNCHANGED <<disk, open, got, live, authority, past>>

----------------------------------------------------------------------------
(* Steps. *)

Rest(w) == [todo EXCEPT ![w] = Tail(@)]
Next1(w, op) == todo[w] # <<>> /\ Head(todo[w]).op = op
Unused == {file \in Files : /\ \A path \in Paths : at[path] # file
                            /\ \A w \in Writers : open[w] # file}

Create(w) ==
    /\ Next1(w, "create") /\ todo' = Rest(w)
    /\ Unused # {}
    /\ LET path == Head(todo[w]).path
           file == IF at[path] # Nowhere THEN at[path] ELSE CHOOSE f \in Unused : TRUE
       IN /\ at' = [at EXCEPT ![path] = file] /\ content' = [content EXCEPT ![file] = Short]
          /\ open' = [open EXCEPT ![w] = file]
    /\ UNCHANGED <<got, live, known, authority, past, left>>

Fill(w) ==
    /\ Next1(w, "fill") /\ todo' = Rest(w)
    /\ content' = [content EXCEPT ![open[w]] = Head(todo[w]).what]
    /\ open' = [open EXCEPT ![w] = Nowhere]
    /\ UNCHANGED <<at, got, live, known, authority, past, left>>

Latest(name, what) ==
    IF name \in Documents /\ what # Short THEN [newest EXCEPT ![name] = IF what > @ THEN what ELSE @]
    ELSE newest

\* Mutant: the temporary file stays.
RenameAsCopy(w) ==
    /\ Next1(w, "rename")
    /\ LET to == Head(todo[w]).path
           from == Temporary(to[1])
       IN IF at[from] # Nowhere
          THEN /\ at' = [at EXCEPT ![to] = at[from]]
               /\ newest' = Latest(to[1], content[at[from]])
               /\ todo' = Rest(w)
          ELSE todo' = [todo EXCEPT ![w] = <<>>] /\ UNCHANGED <<at, newest>>
    /\ UNCHANGED <<content, open, got, live, known, authority, cut, crowded, overlapped, keyless, left>>

\* The job ends with an error when another thread took the temporary file away.
Rename(w) ==
    /\ Next1(w, "rename")
    /\ LET to == Head(todo[w]).path
           from == Temporary(to[1])
       IN IF at[from] # Nowhere
          THEN /\ at' = [at EXCEPT ![to] = at[from], ![from] = Nowhere]
               /\ newest' = Latest(to[1], content[at[from]])
               /\ todo' = Rest(w)
          ELSE todo' = [todo EXCEPT ![w] = <<>>] /\ UNCHANGED <<at, newest>>
    /\ UNCHANGED <<content, open, got, live, known, authority, cut, crowded, overlapped, keyless, left>>

\* A key or certificate that cannot be parsed, or is not there, ends the job; the DER file is not
\* parsed.
Read(w) ==
    /\ Next1(w, "read")
    /\ LET path == Head(todo[w]).path
       IN IF at[path] # Nowhere /\ (path # Main("der") => content[at[path]] # Short)
          THEN got' = [got EXCEPT ![w] = Append(@, content[at[path]])] /\ todo' = Rest(w)
          ELSE todo' = [todo EXCEPT ![w] = <<>>] /\ UNCHANGED got
    /\ UNCHANGED <<disk, open, live, known, authority, past, left>>

\* The write fails, the disk being full, and the job with it.
WriteFails(w) ==
    /\ Next1(w, "fill") /\ Spend("faults") /\ cut' = TRUE
    /\ todo' = [todo EXCEPT ![w] = <<>>] /\ open' = [open EXCEPT ![w] = Nowhere]
    /\ UNCHANGED <<disk, got, live, known, authority, newest, crowded, overlapped, keyless>>

----------------------------------------------------------------------------

\* What load gives: nothing, too, when the file cannot be parsed.
Loaded(document) == IF Exists(document) /\ Held(document) # Short THEN Held(document) ELSE 0

\* main and new; the program does not start when the settings cannot be read. Baseline and
\* dossiers may be of different saves: their version here is that of the later one.
Launch(p) ==
    /\ p \notin live /\ Spend("launches")
    /\ Exists("settings") => Held("settings") # Short
    /\ live' = live \cup {p} /\ crowded' = (crowded \/ live # {})
    /\ known' = [known EXCEPT ![p] = [analysis |-> Loaded("baselines"), settings |-> Loaded("settings")]]
    /\ UNCHANGED <<disk, todo, open, got, authority, newest, cut, overlapped, keyless>>

\* The process ends, its threads wherever they are.
Crash(p) ==
    /\ p \in live /\ live' = live \ {p}
    /\ LET Mine(w) == ProcessOf(w) = p
       IN /\ cut' = (cut \/ \E w \in Writers : Mine(w) /\ open[w] # Nowhere)
          /\ todo' = [w \in Writers |-> IF Mine(w) THEN <<>> ELSE todo[w]]
          /\ open' = [w \in Writers |-> IF Mine(w) THEN Nowhere ELSE open[w]]
          /\ got' = [w \in Writers |-> IF Mine(w) THEN <<>> ELSE got[w]]
    /\ UNCHANGED <<disk, known, authority, newest, crowded, overlapped, keyless, left>>

\* Someone deletes a file of the authority, to have it made again.
Delete ==
    /\ Spend("faults")
    /\ \E file \in Certificates :
          /\ Exists(file) /\ at' = [at EXCEPT ![Main(file)] = Nowhere]
          /\ keyless' = (keyless \/ file = "key")
    /\ UNCHANGED <<content, todo, open, got, live, known, authority, newest, cut, crowded, overlapped>>

Next ==
    \/ \E w \in Writers : \/ Put(w) \/ LoadAuthority(w) \/ Create(w) \/ Fill(w) \/ Rename(w)
                          \/ Read(w) \/ WriteFails(w)
    \/ \E p \in Processes : Save(p) \/ Launch(p) \/ Crash(p)
    \/ Delete

Spec == Init /\ [][Next]_vars

----------------------------------------------------------------------------

\* The file under the hash of a body holds that body, as soon as no thread has it open, unless a
\* write was cut short: two threads that put one body share the temporary file (BodyStore::put).
BodiesAreWhole ==
    \A body \in Bodies :
        Exists(body) /\ ~cut /\ (\A w \in Writers : open[w] # at[Main(body)]) => Held(body) = body

\* As long as threads did not load it at once, the key and certificate a capture works with belong
\* together, whatever crashes, failed writes and deletions there were (load_or_create_ca).
AuthorityMatches ==
    ~overlapped /\ ~keyless => \A w \in Writers : Len(got[w]) >= 2 => got[w][1] = got[w][2]

\* As long as one process ran at a time, a document holds what was last put in place, in whole;
\* and the dossiers are no newer than the baseline saved before them (persist_analysis_state,
\* TrafficBaseline::save, HostDossierIndex::save, AppSettings::save). A launch that could not read
\* a document starts from nothing and its next save replaces what there was.
DocumentsAreWhole ==
    ~crowded => /\ \A d \in Documents : Exists(d) => Held(d) # Short
                /\ \A d \in Documents : Loaded(d) >= newest[d]
                /\ Loaded("dossiers") <= Loaded("baselines")

\* What is read from the data directory is what was written (storage.rs, certificate.rs,
\* config.rs, baseline.rs, dossier.rs).
FilesAreWhole == BodiesAreWhole /\ AuthorityMatches /\ DocumentsAreWhole
=============================================================================
