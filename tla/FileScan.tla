------------------------------- MODULE FileScan -------------------------------
(***************************************************************************)
(* redactr scan and redactr scan --redact --yes (runScan in                *)
(* cmd/redactr/main.go, internal/filescan) on a tree in which their user   *)
(* and other scans work at the same time.                                  *)
(*                                                                         *)
(* A text is a sequence of passages:                                       *)
(*   "words"     nothing that the scanner finds                            *)
(*   "secret"    a secret, which becomes a marker                          *)
(*   "keyed"     an assignment such as AWS_ACCESS_KEY_ID=AKIA...: the      *)
(*               specific finding displaces the catch-all around it, so    *)
(*               that only the value becomes a marker                      *)
(*   "keymark"   such an assignment of a marker, which the catch-all finds *)
(*   "mark"      a marker                                                  *)
(*   "nul"       bytes with a NUL                                          *)
(* How findings are selected and replaced inside a text is the subject of  *)
(* Redaction.  The mode of a file is left out.                             *)
(***************************************************************************)
EXTENDS Integers, Sequences, FiniteSets

CONSTANTS
  Terminals,  \* processes of the command line
  Files,      \* files
  Walk,       \* the paths below the root in the order of filepath.WalkDir
  Target,     \* the file that a path leads to, through a link or not
  Skipped,    \* paths in .git, node_modules, vendor, ..., or above 5 MB
  Texts,      \* what the user may save: a bound
  MaxLen,     \* passages of a text that is a mixture of two: a bound
  Faults,     \* which events of FaultKinds may happen
  MaxSeen,    \* how many kinds of them in one behaviour: a bound
  Absent      \* no file

\* "race"        a file is saved or deleted while a scan is redacting it
\* "overlap"     two scans redact a file at the same time
\* "kill"        a scan is killed
\* "disk"        a file cannot be opened for writing, or not written completely
\* "unreadable"  a file cannot be read
FaultKinds == {"race", "overlap", "kill", "disk", "unreadable"}

Passages == {"words", "secret", "keyed", "keymark", "mark", "nul"}

Paths == {Walk[i] : i \in 1 .. Len(Walk)}

ASSUME FileScanAssumption ==
  /\ Walk \in Seq(Paths)
  /\ Target \in [Paths -> Files]
  /\ Skipped \subseteq Paths
  /\ Texts \subseteq Seq(Passages)
  /\ Faults \subseteq FaultKinds
  /\ Absent \notin Seq(Passages)

VARIABLES
  file,   \* the text of each file, or Absent
  pc,     \* each terminal: "idle", "walk", "trunc" or "write"
  mode,   \* "report" or "redact"
  listed, \* the paths that the walk is sure to find
  todo,   \* the paths of Walk that are left
  mem,    \* the text that was read
  count,  \* findings reported, or redactions counted
  saved,  \* history: what the user last saved
  since,  \* history: the files the user has not touched since the command began
  last,   \* history: what the last command of each terminal said
  seen    \* history: the kinds of faults that have happened

command == <<mode, listed>>
vars == <<file, pc, mode, listed, todo, mem, count, saved, since, last, seen>>

\* The findings of Scan in a text.
Found(passage) == passage \in {"secret", "keyed", "keymark"}

Raw(passage) == passage \in {"secret", "keyed"}

Replaced(passage) ==
  CASE passage = "keyed" -> "keymark"
    [] Found(passage)    -> "mark"
    [] OTHER             -> passage

\* Redact: the text and, as n, the number of findings applied.
Redact(text) == [i \in DOMAIN text |-> Replaced(text[i])]

Findings(text) == {i \in DOMAIN text : Found(text[i])}

LooksBinary(text) == text # <<>> /\ text[1] = "nul"

Note(kind) ==
  /\ kind \in Faults
  /\ seen' = seen \cup {kind}
  /\ Cardinality(seen') <= MaxSeen

At(t) == Target[Head(todo[t])]

\* The terminals that have read a file which they are about to write.
Redacting(f) == {t \in Terminals : pc[t] \in {"trunc", "write"} /\ At(t) = f}

NoteIfRedacting(f, kind) == IF Redacting(f) = {} THEN UNCHANGED seen ELSE Note(kind)

Goto(t, label) == pc' = [pc EXCEPT ![t] = label]

NextPath(t) == todo' = [todo EXCEPT ![t] = Tail(todo[t])]

-----------------------------------------------------------------------------
(* The commands                                                            *)

\* The walk meets what is there when it begins, and may meet what is made later:
\* WalkDir reads a directory when it comes to it.
Begin(t, m) ==
  /\ pc[t] = "idle"
  /\ Goto(t, "walk")
  /\ mode' = [mode EXCEPT ![t] = m]
  /\ listed' = [listed EXCEPT ![t] = {p \in Paths : file[Target[p]] # Absent}]
  /\ todo' = [todo EXCEPT ![t] = Walk]
  /\ since' = [since EXCEPT ![t] = {f \in Files : file[f] # Absent}]
  /\ last' = [last EXCEPT ![t] = "nothing"]
  /\ UNCHANGED <<file, mem, count, saved, seen>>

Walks(t, m) == pc[t] = "walk" /\ todo[t] # <<>> /\ mode[t] = m

ReadableAnyway(t) == file[At(t)] # Absent

Listed(t) == Head(todo[t]) \in listed[t]

\* The file exists and does not look binary.
Readable(t) == file[At(t)] # Absent /\ ~LooksBinary(file[At(t)])

HasFindings(t) == Readable(t) /\ Findings(file[At(t)]) # {}

\* There is nothing to do at a path, or the walk does not come to it.
Passed(t) == ~Listed(t) \/ ~HasFindings(t)

ScanSkipsRest(t) ==
  /\ Walks(t, "report")
  /\ Head(todo[t]) \in Skipped \/ Passed(t)
  /\ todo' = [todo EXCEPT ![t] = <<>>]
  /\ UNCHANGED <<file, pc, command, mem, count, saved, since, last, seen>>

\* Scan passes over directories it never descends into, large, empty, missing
\* and binary files, and those without a finding.
ScanGoesOn(t) ==
  /\ Walks(t, "report")
  /\ Head(todo[t]) \in Skipped \/ Passed(t)
  /\ NextPath(t)
  /\ UNCHANGED <<file, pc, command, mem, count, saved, since, last, seen>>

ScanReports(t) ==
  /\ Walks(t, "report")
  /\ Head(todo[t]) \notin Skipped
  /\ HasFindings(t)
  /\ count' = [count EXCEPT ![t] = @ + Cardinality(Findings(file[At(t)]))]
  /\ NextPath(t)
  /\ UNCHANGED <<file, pc, command, mem, saved, since, last, seen>>

\* RedactFile leaves missing and binary files and those without a finding as
\* they are; it does not look at the directory or the size.
RedactFileGoesOn(t) ==
  /\ Walks(t, "redact")
  /\ Passed(t)
  /\ NextPath(t)
  /\ UNCHANGED <<file, pc, command, mem, count, saved, since, last, seen>>

RedactFileReads(t) ==
  /\ Walks(t, "redact")
  /\ HasFindings(t)
  /\ mem' = [mem EXCEPT ![t] = file[At(t)]]
  /\ Goto(t, "trunc")
  /\ NoteIfRedacting(At(t), "overlap")
  /\ UNCHANGED <<file, command, todo, count, saved, since, last>>

\* An error of reading passes the file over, in either mode.
ReadFails(t) ==
  /\ pc[t] = "walk"
  /\ todo[t] # <<>>
  /\ Note("unreadable")
  /\ NextPath(t)
  /\ UNCHANGED <<file, pc, command, mem, count, saved, since, last>>

\* os.WriteFile opens the file and truncates it, or creates it.
Truncate(t) ==
  /\ pc[t] = "trunc"
  /\ file' = [file EXCEPT ![At(t)] = <<>>]
  /\ Goto(t, "write")
  /\ UNCHANGED <<command, todo, mem, count, saved, since, last, seen>>

\* runScan ignores the error of RedactFile and counts its redactions.
Counted(t) ==
  /\ count' = [count EXCEPT ![t] = @ + Cardinality(Findings(mem[t]))]
  /\ mem' = [mem EXCEPT ![t] = <<>>]
  /\ NextPath(t)
  /\ Goto(t, "walk")

\* What is in a file after a text was written to its start: what somebody else
\* has written there in the meantime may be longer, or be another file by now.
Written(text, current) ==
  IF current \in {<<>>, text} THEN {text}
  ELSE {text, current} \cup
       IF current = Absent THEN {}
       ELSE {mixture \in {Append(text, current[i]) : i \in DOMAIN current} :
               Len(mixture) <= MaxLen}

WriteOriginal(t) ==
  /\ pc[t] = "write"
  /\ file' = [file EXCEPT ![At(t)] = mem[t]]
  /\ Counted(t)
  /\ UNCHANGED <<command, saved, since, last, seen>>

Write(t) ==
  /\ pc[t] = "write"
  /\ \E text \in Written(Redact(mem[t]), file[At(t)]) :
       file' = [file EXCEPT ![At(t)] = text]
  /\ Counted(t)
  /\ UNCHANGED <<command, saved, since, last, seen>>

\* Nothing was written, or a part of the text.
WriteFails(t) ==
  /\ pc[t] \in {"trunc", "write"}
  /\ Note("disk")
  /\ \E n \in 0 .. Len(mem[t]) - 1 :
       file' = IF pc[t] = "trunc" THEN file
               ELSE [file EXCEPT ![At(t)] = SubSeq(Redact(mem[t]), 1, n)]
  /\ Counted(t)
  /\ UNCHANGED <<command, saved, since, last>>

\* The process ends, and its memory is gone.
Exits(t) ==
  /\ Goto(t, "idle")
  /\ mode' = [mode EXCEPT ![t] = "report"]
  /\ listed' = [listed EXCEPT ![t] = {}]
  /\ todo' = [todo EXCEPT ![t] = <<>>]
  /\ mem' = [mem EXCEPT ![t] = <<>>]
  /\ count' = [count EXCEPT ![t] = 0]

\* "done", "no secrets found", or the number of secrets and an error code.
Finish(t) ==
  /\ pc[t] = "walk"
  /\ todo[t] = <<>>
  /\ Exits(t)
  /\ last' = [last EXCEPT ![t] = IF mode[t] = "redact" THEN "done"
                                 ELSE IF count[t] = 0 THEN "clean" ELSE "found"]
  /\ UNCHANGED <<file, saved, since, seen>>

Killed(t) ==
  /\ pc[t] # "idle"
  /\ Note("kill")
  /\ Exits(t)
  /\ since' = [since EXCEPT ![t] = {}]
  /\ UNCHANGED <<file, saved, last>>

-----------------------------------------------------------------------------
(* The user                                                                *)

Saves(f, text) ==
  /\ text # file[f]
  /\ NoteIfRedacting(f, "race")
  /\ file' = [file EXCEPT ![f] = text]
  /\ saved' = [saved EXCEPT ![f] = text]
  /\ since' = [t \in Terminals |-> since[t] \ {f}]
  /\ UNCHANGED <<pc, command, todo, mem, count, last>>

-----------------------------------------------------------------------------
Init ==
  /\ file \in [Files -> Texts \cup {Absent}]
  /\ pc = [t \in Terminals |-> "idle"]
  /\ mode = [t \in Terminals |-> "report"]
  /\ listed = [t \in Terminals |-> {}]
  /\ todo = [t \in Terminals |-> <<>>]
  /\ mem = [t \in Terminals |-> <<>>]
  /\ count = [t \in Terminals |-> 0]
  /\ saved = file
  /\ since = [t \in Terminals |-> {}]
  /\ last = [t \in Terminals |-> "nothing"]
  /\ seen = {}

Next ==
  \/ \E t \in Terminals :
       \/ Begin(t, "report") \/ Begin(t, "redact")
       \/ ScanGoesOn(t) \/ ScanReports(t)
       \/ RedactFileGoesOn(t) \/ RedactFileReads(t)
       \/ ReadFails(t)
       \/ Truncate(t) \/ Write(t) \/ WriteFails(t)
       \/ Finish(t) \/ Killed(t)
  \/ \E f \in Files, text \in Texts \cup {Absent} : Saves(f, text)

Spec == Init /\ [][Next]_vars

-----------------------------------------------------------------------------
(* Properties                                                              *)

\* Every variable holds values of the kind the code gives it.
TypeOK ==
  /\ file \in [Files -> Seq(Passages) \cup {Absent}]
  /\ pc \in [Terminals -> {"idle", "walk", "trunc", "write"}]
  /\ mode \in [Terminals -> {"report", "redact"}]
  /\ listed \in [Terminals -> SUBSET Paths]
  /\ todo \in [Terminals -> Seq(Paths)]
  /\ mem \in [Terminals -> Seq(Passages)]
  /\ count \in [Terminals -> Nat]
  /\ saved \in [Files -> Seq(Passages) \cup {Absent}]
  /\ since \in [Terminals -> SUBSET Files]
  /\ last \in [Terminals -> {"nothing", "done", "clean", "found"}]
  /\ seen \subseteq FaultKinds

Without(kinds) == seen \cap kinds = {}

\* What a text may be after any number of redactions.
Redactions(text) ==
  IF text = Absent \/ LooksBinary(text) THEN {text}
  ELSE {text, Redact(text), Redact(Redact(text))}

\* Redacting in place loses nothing: unless the user or a second scan works on
\* a file that is being redacted, and unless a scan is killed or cannot write,
\* every file is what its user last saved, whole, with or without its secrets;
\* no deleted file comes back and no binary file is changed.
OnlyRedacted ==
  Without({"race", "overlap", "kill", "disk"}) =>
    \A f \in Files :
      \/ file[f] \in Redactions(saved[f])
      \/ file[f] = <<>> /\ \E t \in Redacting(f) : pc[t] = "write"

\* The files a command meets and its user has not touched since it began.
Met(t, paths) == {Target[p] : p \in paths} \cap since[t]

HasRaw(f) ==
  /\ file[f] # Absent
  /\ ~LooksBinary(file[f])
  /\ \E i \in DOMAIN file[f] : Raw(file[f][i])

\* "done" means that no secret is left, in any directory, whoever else has been
\* scanning, editing other files or dying in the meantime.
DoneMeansRedacted ==
  \A t \in Terminals :
    last[t] = "done" /\ Without({"race", "disk", "unreadable"}) =>
      \A f \in Met(t, Paths) : ~HasRaw(f)

\* "no secrets found", on which a commit or a build depends, means that none is
\* there, whatever other scans are doing with the same files.
CleanMeansClean ==
  \A t \in Terminals :
    last[t] = "clean" /\ Without({"race", "unreadable"}) =>
      \A f \in Met(t, Paths \ Skipped) : ~HasRaw(f)

=============================================================================
