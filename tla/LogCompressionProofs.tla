------------------------- MODULE LogCompressionProofs -------------------------
(***************************************************************************)
(* Proofs about LogCompression, for every set of names and every number of *)
(* files and processes: its state is of its types, and no log is lost.     *)
(*                                                                         *)
(* Nothing is lost because of the order of ages: of the files that have a  *)
(* name at the same time, the compressed one is the oldest and the .txt    *)
(* file the youngest, so that whatever replaces a file is younger.         *)
(***************************************************************************)
EXTENDS LogCompression, TLAPS

\* The files that have name n, in each form, are of that name.
Named ==
  \A n \in Names : \A c \in {txt[n], plain[n], bz2[n]} :
    c # NoFile => c \in Files /\ names[c] = n

Older(c, d) == c # NoFile /\ d # NoFile => c < d

ByAge ==
  \A n \in Names :
    Older(bz2[n], plain[n]) /\ Older(plain[n], txt[n]) /\ Older(bz2[n], txt[n])

Kept ==
  \A c \in Files :
    \/ c \in {txt[names[c]], plain[names[c]], bz2[names[c]]}
    \/ c \in removed \/ Replaced(c)

CInv == TypeOK /\ Named /\ ByAge /\ Kept

-----------------------------------------------------------------------------

\* The parts of the type invariant that the proofs use.
LEMMA Types ==
  ASSUME TypeOK
  PROVE  /\ names \in Seq(Names) /\ Len(names) \in Nat /\ Files = 1..Len(names)
         /\ \A c \in Files : names[c] \in Names /\ c \in Nat /\ c # NoFile
         /\ txt \in [Names -> {NoFile} \cup Files]
         /\ plain \in [Names -> {NoFile} \cup Files]
         /\ bz2 \in [Names -> {NoFile} \cup Files]
         /\ removed \subseteq Files /\ failed \subseteq Files /\ full \subseteq Files
         /\ entry \in Names /\ todo \subseteq Names
BY DEF TypeOK, Files, NoFile

LEMMA InitHolds == Init => CInv
<1> SUFFICES ASSUME Init PROVE CInv
  OBVIOUS
<1>1. /\ Len(names) = 0 /\ Files = {} /\ names \in Seq(Names)
      /\ \A n \in Names : txt[n] = NoFile /\ plain[n] = NoFile /\ bz2[n] = NoFile
  BY DEF Init, Files
<1>2. /\ txt \in [Names -> {NoFile} \cup Files]
      /\ plain \in [Names -> {NoFile} \cup Files]
      /\ bz2 \in [Names -> {NoFile} \cup Files]
  BY DEF Init
<1>3. launches \in 1..MaxLaunches
  BY CompressionAssumption DEF Init
<1>4. TypeOK
  BY <1>1, <1>2, <1>3 DEF Init, TypeOK
<1>5. Named /\ ByAge /\ Kept
  BY <1>1 DEF Named, ByAge, Older, Kept
<1> QED BY <1>4, <1>5 DEF CInv

\* A step that changes no file keeps what is said of the files.
LEMMA FilesUnchanged ==
  ASSUME CInv, UNCHANGED <<names, txt, plain, bz2, removed>>, TypeOK'
  PROVE  CInv'
BY DEF CInv, Named, ByAge, Older, Kept, Replaced, Files

LEMMA CreateStep ==
  ASSUME CInv, NEW n \in Names, Create(n)
  PROVE  CInv'
<1>0. TypeOK /\ Named /\ ByAge /\ Kept
  BY DEF CInv
<1>1. /\ txt[n] = NoFile /\ names' = Append(names, n)
      /\ txt' = [txt EXCEPT ![n] = Len(names')]
      /\ UNCHANGED <<plain, bz2, full, removed, failed, pc, todo, entry, launches>>
  BY DEF Create, threadVars
<1> DEFINE new == Len(names) + 1
<1>2. /\ names' \in Seq(Names) /\ Len(names') = new /\ new \in Nat
      /\ Files' = Files \cup {new} /\ new \notin Files /\ new # NoFile
      /\ names'[new] = n /\ \A c \in Files : names'[c] = names[c] /\ c < new
  BY <1>0, <1>1, Types DEF Files, NoFile
<1>3. /\ txt' \in [Names -> {NoFile} \cup Files'] /\ txt'[n] = new
      /\ \A m \in Names : m # n => txt'[m] = txt[m]
  BY <1>0, <1>1, <1>2, Types
<1>4. plain' \in [Names -> {NoFile} \cup Files'] /\ bz2' \in [Names -> {NoFile} \cup Files']
  BY <1>0, <1>1, <1>2, Types
<1>5. TypeOK'
  BY <1>0, <1>1, <1>2, <1>3, <1>4 DEF TypeOK
<1>6. Named'
  <2>1. ASSUME NEW m \in Names, NEW c \in {txt'[m], plain'[m], bz2'[m]}, c # NoFile
        PROVE  c \in Files' /\ names'[c] = m
    <3>1. CASE c = new /\ m = n
      BY <1>2, <3>1
    <3>2. CASE c \in {txt[m], plain[m], bz2[m]}
      <4>1. c \in Files /\ names[c] = m
        BY <1>0, <2>1, <3>2 DEF Named
      <4> QED BY <1>2, <4>1
    <3> QED BY <1>1, <1>3, <2>1, <3>1, <3>2
  <2> QED BY <2>1 DEF Named
<1>7. ByAge'
  <2>1. \A m \in Names : plain[m] \in {NoFile} \cup Files /\ bz2[m] \in {NoFile} \cup Files
    BY <1>0, Types
  <2> QED BY <1>0, <1>1, <1>2, <1>3, <2>1 DEF ByAge, Older
<1>8. Kept'
  <2>1. ASSUME NEW c \in Files
        PROVE  \/ c \in {txt'[names'[c]], plain'[names'[c]], bz2'[names'[c]]}
               \/ c \in removed' \/ Replaced(c)'
    <3>1. names'[c] = names[c] /\ names[c] \in Names /\ c # NoFile
      BY <1>0, <1>2, Types
    <3>2. Replaced(c) => Replaced(c)'
      BY <1>2, <3>1 DEF Replaced
    <3> QED BY <1>0, <1>1, <1>3, <3>1, <3>2 DEF Kept
  <2>2. new \in {txt'[names'[new]], plain'[names'[new]], bz2'[names'[new]]}
    BY <1>2, <1>3
  <2> QED BY <1>2, <2>1, <2>2 DEF Kept
<1> QED BY <1>5, <1>6, <1>7, <1>8 DEF CInv

LEMMA RemoveStep ==
  ASSUME CInv, NEW n \in Names, Remove(n)
  PROVE  CInv'
<1>0. TypeOK /\ Named /\ ByAge /\ Kept
  BY DEF CInv
<1>1. /\ txt[n] # NoFile /\ txt' = [txt EXCEPT ![n] = NoFile]
      /\ removed' = removed \cup {txt[n]}
      /\ UNCHANGED <<names, plain, bz2, full, failed, pc, todo, entry, launches>>
  BY DEF Remove, HasTxt, threadVars
<1>2. /\ txt' \in [Names -> {NoFile} \cup Files] /\ txt'[n] = NoFile
      /\ \A m \in Names : m # n => txt'[m] = txt[m]
      /\ txt[n] \in Files /\ Files' = Files
  BY <1>0, <1>1, Types DEF Files
<1>3. TypeOK'
  BY <1>0, <1>1, <1>2 DEF TypeOK
<1>4. Named' /\ ByAge'
  BY <1>0, <1>1, <1>2 DEF Named, ByAge, Older
<1>5. Kept'
  <2>1. \A c \in Files : names[c] \in Names /\ (Replaced(c) => Replaced(c)')
    BY <1>0, <1>1, <1>2, Types DEF Replaced
  <2> QED BY <1>0, <1>1, <1>2, <2>1 DEF Kept
<1> QED BY <1>3, <1>4, <1>5 DEF CInv

LEMMA RenameStep ==
  ASSUME CInv, Rename
  PROVE  CInv'
<1>0. TypeOK /\ Named /\ ByAge /\ Kept /\ entry \in Names
  BY Types DEF CInv
<1>1. /\ txt[entry] # NoFile
      /\ plain' = [plain EXCEPT ![entry] = txt[entry]]
      /\ txt' = [txt EXCEPT ![entry] = NoFile]
      /\ UNCHANGED <<names, bz2, full, removed, failed, todo, entry, launches>>
      /\ pc' = "compress"
  BY DEF Rename
<1>2. /\ txt' \in [Names -> {NoFile} \cup Files] /\ txt'[entry] = NoFile
      /\ plain' \in [Names -> {NoFile} \cup Files] /\ plain'[entry] = txt[entry]
      /\ \A m \in Names : m # entry => txt'[m] = txt[m] /\ plain'[m] = plain[m]
      /\ Files' = Files
  BY <1>0, <1>1, Types DEF Files
<1>3. TypeOK'
  BY <1>0, <1>1, <1>2 DEF TypeOK
<1>4. Named' /\ ByAge'
  BY <1>0, <1>1, <1>2 DEF Named, ByAge, Older
<1>5. ASSUME NEW c \in Files
      PROVE  \/ c \in {txt'[names'[c]], plain'[names'[c]], bz2'[names'[c]]}
             \/ c \in removed' \/ Replaced(c)'
  <2>1. names[c] \in Names /\ c # NoFile
    BY <1>0, Types
  <2>2. Replaced(c) => Replaced(c)'
    BY <1>1, <1>2 DEF Replaced
  <2>3. CASE c = plain[names[c]] /\ names[c] = entry
    <3>1. txt[entry] \in Files /\ names[txt[entry]] = names[c] /\ c < txt[entry]
      BY <1>0, <1>1, <2>1, <2>3 DEF Named, ByAge, Older
    <3> QED BY <1>1, <1>2, <3>1 DEF Replaced
  <2>4. CASE ~(c = plain[names[c]] /\ names[c] = entry)
    BY <1>0, <1>1, <1>2, <2>1, <2>2, <2>4 DEF Kept
  <2> QED BY <2>3, <2>4
<1>6. Kept'
  BY <1>2, <1>5 DEF Kept
<1> QED BY <1>3, <1>4, <1>6 DEF CInv

\* What bzip2 does, in a step of the thread or at the end of the process.
LEMMA CompressedStep ==
  ASSUME CInv, pc = "compress", Compressed, pc' \in {"scan", "over"},
         UNCHANGED <<failed, todo, entry, launches>>
  PROVE  CInv'
<1>0. TypeOK /\ Named /\ ByAge /\ Kept /\ entry \in Names
  BY Types DEF CInv
<1>1. /\ plain[entry] # NoFile
      /\ bz2' = [bz2 EXCEPT ![entry] = plain[entry]]
      /\ plain' = [plain EXCEPT ![entry] = NoFile]
      /\ UNCHANGED <<names, txt, full, removed>>
  BY <1>0 DEF Compressed, TypeOK
<1>2. /\ bz2' \in [Names -> {NoFile} \cup Files] /\ bz2'[entry] = plain[entry]
      /\ plain' \in [Names -> {NoFile} \cup Files] /\ plain'[entry] = NoFile
      /\ \A m \in Names : m # entry => bz2'[m] = bz2[m] /\ plain'[m] = plain[m]
      /\ Files' = Files
  BY <1>0, <1>1, Types DEF Files
<1>3. TypeOK'
  BY <1>0, <1>1, <1>2 DEF TypeOK
<1>4. Named' /\ ByAge'
  BY <1>0, <1>1, <1>2 DEF Named, ByAge, Older
<1>5. ASSUME NEW c \in Files
      PROVE  \/ c \in {txt'[names'[c]], plain'[names'[c]], bz2'[names'[c]]}
             \/ c \in removed' \/ Replaced(c)'
  <2>1. names[c] \in Names /\ c # NoFile
    BY <1>0, Types
  <2>2. Replaced(c) => Replaced(c)'
    BY <1>1, <1>2 DEF Replaced
  <2>3. CASE c = bz2[names[c]] /\ names[c] = entry
    <3>1. plain[entry] \in Files /\ names[plain[entry]] = names[c] /\ c < plain[entry]
      BY <1>0, <1>1, <2>1, <2>3 DEF Named, ByAge, Older
    <3> QED BY <1>1, <1>2, <3>1 DEF Replaced
  <2>4. CASE ~(c = bz2[names[c]] /\ names[c] = entry)
    BY <1>0, <1>1, <1>2, <2>1, <2>2, <2>4 DEF Kept
  <2> QED BY <2>3, <2>4
<1>6. Kept'
  BY <1>2, <1>5 DEF Kept
<1> QED BY <1>3, <1>4, <1>6 DEF CInv

-----------------------------------------------------------------------------

LEMMA NextStep == CInv /\ [Next]_vars => CInv'
<1> SUFFICES ASSUME CInv, [Next]_vars PROVE CInv'
  OBVIOUS
<1> USE DEF fileVars, threadVars
<1>0. TypeOK /\ txt[entry] \in {NoFile} \cup Files /\ plain[entry] \in {NoFile} \cup Files
  BY Types DEF CInv
<1>1. ASSUME NEW n \in Names, Create(n) PROVE CInv'
  BY <1>1, CreateStep
<1>2. ASSUME NEW n \in Names, Grow(n) PROVE CInv'
  <2>1. full' \subseteq Files
    BY <1>0, <1>2, Types DEF Grow, HasTxt
  <2>2. TypeOK'
    BY <1>0, <1>2, <2>1 DEF Grow, TypeOK, Files
  <2> QED BY <1>2, <2>2, FilesUnchanged DEF Grow
<1>3. ASSUME NEW n \in Names, Remove(n) PROVE CInv'
  BY <1>3, RemoveStep
<1>4. CASE Scan \/ Sleep \/ \E n \in Names : SizeThrows(n) \/ Skip(n) \/ Select(n)
  <2>1. UNCHANGED <<names, txt, plain, bz2, removed>>
    BY <1>4 DEF Scan, Sleep, SizeThrows, Skip, Select
  <2>2. TypeOK'
    BY <1>0, <1>4 DEF TypeOK, Files, Scan, Sleep, SizeThrows, Skip, Select, Goes, HasTxt
  <2> QED BY <2>1, <2>2, FilesUnchanged
<1>5. CASE Rename
  BY <1>5, RenameStep
<1>6. CASE RenameThrows
  <2>1. failed' \subseteq Files
    BY <1>0, <1>6, Types DEF RenameThrows
  <2>2. TypeOK'
    BY <1>0, <1>6, <2>1 DEF TypeOK, Files, RenameThrows
  <2> QED BY <1>6, <2>2, FilesUnchanged DEF RenameThrows
<1>7. CASE Compress
  BY <1>7, CompressedStep DEF Compress
<1>8. CASE CompressFails
  <2>1. failed' \subseteq Files
    BY <1>0, <1>8, Types DEF CompressFails, TypeOK
  <2>2. TypeOK'
    BY <1>0, <1>8, <2>1 DEF TypeOK, Files, CompressFails
  <2> QED BY <1>8, <2>2, FilesUnchanged DEF CompressFails
<1>9. CASE Die
  <2>1. CASE UNCHANGED fileVars
    <3>1. TypeOK'
      BY <1>0, <1>9, <2>1 DEF TypeOK, Files, Die
    <3> QED BY <2>1, <3>1, FilesUnchanged
  <2>2. CASE pc = "compress" /\ Compressed
    BY <1>9, <2>2, CompressedStep DEF Die
  <2> QED BY <1>9, <2>1, <2>2 DEF Die
<1>10. CASE Launch
  <2>1. TypeOK'
    BY <1>0, <1>10, CompressionAssumption DEF TypeOK, Files, Launch
  <2> QED BY <1>10, <2>1, FilesUnchanged DEF Launch
<1>11. CASE UNCHANGED vars
  <2>1. TypeOK'
    BY <1>0, <1>11 DEF TypeOK, Files, vars
  <2> QED BY <1>11, <2>1, FilesUnchanged DEF vars
<1> QED BY <1>1, <1>2, <1>3, <1>4, <1>5, <1>6, <1>7, <1>8, <1>9, <1>10, <1>11
        DEF Next, ThreadStep

LEMMA InvImplies == CInv => NothingLost
<1> SUFFICES ASSUME CInv, NEW c \in Files
             PROVE  /\ \A f, g \in Forms(c) : f = g
                    /\ Forms(c) = {} => c \in removed \/ Replaced(c)
  BY DEF NothingLost
<1>1. names[c] \in Names /\ c # NoFile /\ c \in Nat
  BY Types DEF CInv
<1>2. Older(bz2[names[c]], plain[names[c]]) /\ Older(plain[names[c]], txt[names[c]])
        /\ Older(bz2[names[c]], txt[names[c]])
  BY <1>1 DEF CInv, ByAge
<1>3. \A f, g \in Forms(c) : f = g
  BY <1>1, <1>2 DEF Forms, Older
<1>4. Forms(c) = {} => c \notin {txt[names[c]], plain[names[c]], bz2[names[c]]}
  BY DEF Forms
<1> QED BY <1>3, <1>4 DEF CInv, Kept

\* The state is of its types; the file at hand has been renamed when bzip2 is
\* called for it.
THEOREM TypeCorrect == Spec => []TypeOK
<1>1. CInv => TypeOK
  BY DEF CInv
<1> QED BY <1>1, InitHolds, NextStep, PTL DEF Spec

\* No log is lost on its way, whatever fails and whenever the process ends.
THEOREM NoLogIsLost == Spec => []NothingLost
BY InitHolds, NextStep, InvImplies, PTL DEF Spec

=============================================================================
