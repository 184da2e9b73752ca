---------------------------- MODULE LogCompression ----------------------------
(***************************************************************************)
(* The log directory and the thread that watches it: every 30 seconds it   *)
(* goes over the directory, drops the extension of each .txt file of 1 MB  *)
(* or more and has bzip2 compress it.                                      *)
(*                                                                         *)
(* glog names its files without that extension, so that the .txt files are *)
(* those others put there and may take away again.  A file is known by the *)
(* number of its creation; a name may be used again.                       *)
(***************************************************************************)
EXTENDS Integers, Sequences

CONSTANTS
  Names,       \* file names without extension
  MaxFiles,    \* bound: files created
  MaxLaunches  \* bound: processes, one after the other

ASSUME CompressionAssumption ==
  MaxFiles \in Nat /\ MaxLaunches \in Nat \ {0}

VARIABLES
  names,    \* the name of each file created
  txt,      \* for each name, the file with extension .txt
  plain,    \* the file without extension
  bz2,      \* the compressed file
  full,     \* the files of 1 MB or more
  removed,  \* the files others have taken away
  failed,   \* the files whose renaming or compression failed in this pass
  pc,       \* where the thread is; "over" when the process has ended
  todo,     \* the directory entries still to be looked at
  entry,    \* the one at hand
  launches  \* processes so far

fileVars == <<names, txt, plain, bz2, full, removed>>
threadVars == <<pc, todo, entry>>
vars == <<fileVars, failed, threadVars, launches>>

NoFile == 0
Files == 1..Len(names)
HasTxt == {n \in Names : txt[n] # NoFile}

Init ==
  /\ names = <<>>
  /\ txt = [n \in Names |-> NoFile]
  /\ plain = [n \in Names |-> NoFile]
  /\ bz2 = [n \in Names |-> NoFile]
  /\ full = {} /\ removed = {} /\ failed = {}
  /\ pc = "sleep"
  /\ todo = {}
  /\ entry \in Names
  /\ launches = 1

-----------------------------------------------------------------------------
(* Others. *)

Create(n) ==
  /\ txt[n] = NoFile
  /\ Len(names) < MaxFiles
  /\ names' = Append(names, n)
  /\ txt' = [txt EXCEPT ![n] = Len(names')]
  /\ UNCHANGED <<plain, bz2, full, removed, failed, threadVars, launches>>

Grow(n) ==
  /\ n \in HasTxt
  /\ full' = full \cup {txt[n]}
  /\ UNCHANGED <<names, txt, plain, bz2, removed, failed, threadVars, launches>>

Remove(n) ==
  /\ n \in HasTxt
  /\ txt' = [txt EXCEPT ![n] = NoFile]
  /\ removed' = removed \cup {txt[n]}
  /\ UNCHANGED <<names, plain, bz2, full, failed, threadVars, launches>>

-----------------------------------------------------------------------------
(* The thread: checkAndCompressLog. *)

Scan ==
  /\ pc = "sleep"
  /\ pc' = "scan"
  /\ todo' = HasTxt
  /\ failed' = {}
  /\ UNCHANGED <<fileVars, entry, launches>>

Goes(next, left) == pc' = next /\ todo' = left

\* An entry that is gone when its size is asked: the exception leaves the
\* thread, and ends the process.
SizeThrows(n) ==
  /\ pc = "scan" /\ n \in todo
  /\ txt[n] = NoFile
  /\ pc' = "over"
  /\ UNCHANGED <<fileVars, failed, todo, entry, launches>>

Skip(n) ==
  /\ pc = "scan" /\ n \in todo
  /\ txt[n] # NoFile /\ txt[n] \notin full
  /\ Goes("scan", todo \ {n})
  /\ UNCHANGED <<fileVars, failed, entry, launches>>

Select(n) ==
  /\ pc = "scan" /\ n \in todo
  /\ txt[n] \in full
  /\ Goes("rename", todo \ {n})
  /\ entry' = n
  /\ UNCHANGED <<fileVars, failed, launches>>

\* Mutant of Rename: that the file is still there is not found out.
RenameUnchecked ==
  /\ pc = "rename"
  /\ plain' = [plain EXCEPT ![entry] = txt[entry]]
  /\ txt' = [txt EXCEPT ![entry] = NoFile]
  /\ pc' = "compress"
  /\ UNCHANGED <<names, bz2, full, removed, failed, todo, entry, launches>>

\* The file takes the name without extension, from whatever has it.
Rename ==
  /\ pc = "rename"
  /\ txt[entry] # NoFile
  /\ plain' = [plain EXCEPT ![entry] = txt[entry]]
  /\ txt' = [txt EXCEPT ![entry] = NoFile]
  /\ pc' = "compress"
  /\ UNCHANGED <<names, bz2, full, removed, failed, todo, entry, launches>>

\* Mutant of RenameThrows: the exception is caught outside of the loop.
RenameThrowsOut ==
  /\ pc = "rename"
  /\ failed' = failed \cup ({txt[entry]} \ {NoFile})
  /\ Goes("sleep", {})
  /\ UNCHANGED <<fileVars, entry, launches>>

\* It cannot be renamed, or has just been taken away: that is logged.
RenameThrows ==
  /\ pc = "rename"
  /\ failed' = failed \cup ({txt[entry]} \ {NoFile})
  /\ pc' = "scan"
  /\ UNCHANGED <<fileVars, todo, entry, launches>>

\* bzip2 --force replaces a compressed file of that name.
Compressed ==
  /\ bz2' = [bz2 EXCEPT ![entry] = plain[entry]]
  /\ plain' = [plain EXCEPT ![entry] = NoFile]
  /\ UNCHANGED <<names, txt, full, removed>>

Compress ==
  /\ pc = "compress"
  /\ Compressed
  /\ pc' = "scan"
  /\ UNCHANGED <<failed, todo, entry, launches>>

\* Mutant of CompressFails: the file is deleted whatever bzip2 returned.
CompressFailsAndDeletes ==
  /\ pc = "compress"
  /\ failed' = failed \cup {plain[entry]}
  /\ plain' = [plain EXCEPT ![entry] = NoFile]
  /\ pc' = "scan"
  /\ UNCHANGED <<names, txt, bz2, full, removed, todo, entry, launches>>

\* bzip2 fails, or is interrupted by the Ctrl-C that the process ignores as
\* long as system() runs: that is logged, and the file stays as it is.
CompressFails ==
  /\ pc = "compress"
  /\ failed' = failed \cup {plain[entry]}
  /\ pc' = "scan"
  /\ UNCHANGED <<fileVars, todo, entry, launches>>

Sleep ==
  /\ pc = "scan" /\ todo = {}
  /\ pc' = "sleep"
  /\ UNCHANGED <<fileVars, failed, todo, entry, launches>>

-----------------------------------------------------------------------------
(* The process ends at any time; a running bzip2 may or may not end with it. *)

Die ==
  /\ pc # "over"
  /\ pc' = "over"
  /\ UNCHANGED fileVars \/ (pc = "compress" /\ Compressed)
  /\ UNCHANGED <<failed, todo, entry, launches>>

Launch ==
  /\ pc = "over"
  /\ launches < MaxLaunches
  /\ launches' = launches + 1
  /\ pc' = "sleep"
  /\ UNCHANGED <<fileVars, failed, todo, entry>>

ThreadStep ==
  \/ Scan \/ Sleep \/ Rename \/ RenameThrows \/ Compress \/ CompressFails
  \/ \E n \in Names : SizeThrows(n) \/ Skip(n) \/ Select(n)

Next ==
  \/ \E n \in Names : Create(n) \/ Grow(n) \/ Remove(n)
  \/ ThreadStep \/ Die \/ Launch

Spec == Init /\ [][Next]_vars

\* The thread runs, as does bzip2.  Whether renaming or compressing a file
\* ever succeeds is left open.
FairSpec == Spec /\ WF_vars(ThreadStep)

-----------------------------------------------------------------------------
(* Properties. *)

\* The state is of its types; the file at hand has been renamed when bzip2 is
\* called for it.
TypeOK ==
  /\ names \in Seq(Names)
  /\ {txt, plain, bz2} \subseteq [Names -> {NoFile} \cup Files]
  /\ full \subseteq Files /\ removed \subseteq Files /\ failed \subseteq Files
  /\ pc \in {"sleep", "scan", "rename", "compress", "over"}
  /\ todo \subseteq Names /\ entry \in Names
  /\ launches \in 1..MaxLaunches
  /\ pc = "compress" => plain[entry] # NoFile

Replaced(c) == \E d \in Files : d > c /\ names[d] = names[c]

\* The forms in which a file is there.
Forms(c) ==
  {form \in {"txt", "plain", "bz2"} :
     \/ form = "txt" /\ txt[names[c]] = c
     \/ form = "plain" /\ plain[names[c]] = c
     \/ form = "bz2" /\ bz2[names[c]] = c}

\* No log is lost on its way, whatever fails and whenever the process ends:
\* each file is there in one of its forms, in one only, unless others took it
\* away or a later file of its name has taken its place.
NothingLost ==
  \A c \in Files :
    /\ \A f, g \in Forms(c) : f = g
    /\ Forms(c) = {} => c \in removed \/ Replaced(c)

Settled(c) ==
  \/ c \in failed \cup removed
  \/ c \in Files /\ (bz2[names[c]] = c \/ Replaced(c))

\* A full .txt file gets compressed, unless renaming or compressing this very
\* file fails, it is taken away or replaced, or the process ends first: what
\* happens to one file does not keep another from its turn.  As long as it is
\* a full .txt file this holds anew in every pass: if it could not be renamed
\* it is tried again.
FullGetsCompressed ==
  \A c \in 1..MaxFiles :
    (\E n \in Names : txt[n] = c /\ c \in full) ~> (Settled(c) \/ pc = "over")

=============================================================================
