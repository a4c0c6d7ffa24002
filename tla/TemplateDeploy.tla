--------------------------- MODULE TemplateDeploy ---------------------------
(***************************************************************************)
(* use_simd_dispatch of R/template.R: the copy of the scaffold into a      *)
(* package, file by file, then the entry in DESCRIPTION and the lines of   *)
(* .Rbuildignore and .gitignore.  Calls follow one another in the same     *)
(* package, with any prefix, with or without overwrite; each may be cut    *)
(* off anywhere, by an interrupt or because a file cannot be written; and  *)
(* between them the author edits and deletes files.                        *)
(*                                                                         *)
(* A file is known by who wrote it and whether it was written to its end.  *)
(* The arguments the function refuses at its start change nothing and are  *)
(* left out.  That a prefix makes the contents of a file is Substitute in  *)
(* ConfigureStage.                                                         *)
(***************************************************************************)
EXTENDS Integers

CONSTANTS
  NumFiles, \* the files of the template that are copied, in that order
  Scripts,  \* those that rsd_make_executable_if_script looks for
  Prefixes, \* the prefixes that are asked for
  Lines     \* the lines wanted in an ignore file

Files == 1..NumFiles

ASSUME FilesAssumption  == NumFiles \in Nat \ {0} /\ Scripts \subseteq Files
ASSUME PrefixAssumption == {"nobody", "user"} \cap Prefixes = {}
ASSUME LinesAssumption  == "user" \notin Lines

VARIABLES
  disk,    \* the package: its files, which are executable, DESCRIPTION, ignores
  prefix, overwrite, \* the arguments of the last call
  at,      \* what the call does next
  next,    \* the file it has come to
  outcome, \* how it ended
  before   \* history: disk when it began

vars == <<disk, prefix, overwrite, at, next, outcome, before>>

Absent   == [by |-> "nobody", whole |-> TRUE]
Whole(p) == [by |-> p, whole |-> TRUE]
Torn(p)  == [by |-> p, whole |-> FALSE]

Contents     == [by : {"nobody", "user"} \cup Prefixes, whole : BOOLEAN]
Descriptions == [user : {"absent", "whole", "cut"}, linking : BOOLEAN]
IgnoreFiles  == {".Rbuildignore", ".gitignore"}

\* How often a line of the author, or one of Lines, is in an ignore file.
Counts == [Lines \cup {"user"} -> Nat]

Disks == [file : [Files -> Contents], executable : SUBSET Files,
          description : Descriptions, ignores : [IgnoreFiles -> Counts]]

-----------------------------------------------------------------------------

\* A package as its author has it; of Lines some may be there already.
Init ==
  /\ disk \in [file : [Files -> {Absent, Whole("user")}],
               executable : {{}},
               description : {[user |-> "absent", linking |-> FALSE],
                              [user |-> "whole", linking |-> FALSE],
                              [user |-> "whole", linking |-> TRUE]},
               ignores : [IgnoreFiles -> [Lines \cup {"user"} -> 0..1]]]
  /\ prefix \in Prefixes
  /\ overwrite = FALSE
  /\ at = "idle"
  /\ next = 1
  /\ outcome = "none"
  /\ before = disk

Call(p, o) ==
  /\ at = "idle"
  /\ prefix' = p
  /\ overwrite' = o
  /\ at' = "file"
  /\ next' = 1
  /\ outcome' = "none"
  /\ before' = disk
  /\ UNCHANGED disk

Fails ==
  /\ at' = "idle"
  /\ outcome' = "failed"
  /\ UNCHANGED <<prefix, overwrite, next, before>>

\* An interrupt, or a file that cannot be read or opened.
GiveUp ==
  /\ at # "idle"
  /\ Fails
  /\ UNCHANGED disk

\* Faulty variant: the files that are there are passed over.
RefuseSkips ==
  /\ at = "file"
  /\ disk.file[next] # Absent
  /\ ~overwrite
  /\ at' = "mode"
  /\ UNCHANGED <<disk, prefix, overwrite, next, outcome, before>>

Refuse ==
  /\ at = "file"
  /\ disk.file[next] # Absent
  /\ ~overwrite
  /\ Fails
  /\ UNCHANGED disk

\* Faulty variant: only the first file is protected.
MayWriteAfterFirst == disk.file[next] # Absent => overwrite \/ next > 1

MayWrite == disk.file[next] # Absent => overwrite

\* writeLines of the substituted text, to its end or cut off.
WriteFile ==
  /\ at = "file"
  /\ MayWrite
  /\ disk' = [disk EXCEPT !.file[next] = Whole(prefix)]
  /\ at' = "mode"
  /\ UNCHANGED <<prefix, overwrite, next, outcome, before>>

CutFile ==
  /\ at = "file"
  /\ MayWrite
  /\ disk' = [disk EXCEPT !.file[next] = Torn(prefix)]
  /\ Fails

SetMode ==
  /\ at = "mode"
  /\ disk' = [disk EXCEPT !.executable = @ \cup (Scripts \cap {next})]
  /\ IF next = NumFiles
     THEN at' = "description" /\ UNCHANGED next
     ELSE at' = "file" /\ next' = next + 1
  /\ UNCHANGED <<prefix, overwrite, outcome, before>>

(***************************************************************************)
(* rsd_update_description rewrites the whole of DESCRIPTION, if there is   *)
(* one.  A write that is cut off loses fields of the author, and whether   *)
(* LinkingTo was written by then is open.                                  *)
(***************************************************************************)
UpdateDescription ==
  /\ at = "description"
  /\ disk' = [disk EXCEPT !.description.linking =
                @ \/ disk.description.user # "absent"]
  /\ at' = ".Rbuildignore"
  /\ UNCHANGED <<prefix, overwrite, next, outcome, before>>

CutDescription ==
  /\ at = "description"
  /\ disk.description.user # "absent"
  /\ \E written \in BOOLEAN :
       disk' = [disk EXCEPT !.description =
                  [user |-> "cut", linking |-> written]]
  /\ Fails

\* Faulty variant: the lines are added whether they are there or not.
AppendedAgain(counts) ==
  [l \in Lines \cup {"user"} |-> counts[l] + IF l \in Lines THEN 1 ELSE 0]

\* rsd_append_unique_lines
Appended(counts) ==
  [l \in Lines \cup {"user"} |->
     counts[l] + IF l \in Lines /\ counts[l] = 0 THEN 1 ELSE 0]

AppendIgnores ==
  /\ at \in IgnoreFiles
  /\ disk' = [disk EXCEPT !.ignores[at] = Appended(@)]
  /\ IF at = ".Rbuildignore"
     THEN at' = ".gitignore" /\ UNCHANGED outcome
     ELSE at' = "idle" /\ outcome' = "done"
  /\ UNCHANGED <<prefix, overwrite, next, before>>

\* The file is written from its beginning: what comes last is lost first.
CutIgnores ==
  /\ at \in IgnoreFiles
  /\ \E counts \in {disk.ignores[at],
                    [l \in Lines \cup {"user"} |-> 0],
                    [disk.ignores[at] EXCEPT !["user"] = 0]} :
       disk' = [disk EXCEPT !.ignores[at] = counts]
  /\ Fails

\* The author edits, completes or adds a file, or removes it.
Edit(f) ==
  /\ at = "idle"
  /\ disk' = [disk EXCEPT !.file[f] = Whole("user")]
  /\ outcome' = "none"
  /\ UNCHANGED <<prefix, overwrite, at, next, before>>

Delete(f) ==
  /\ at = "idle"
  /\ disk' = [disk EXCEPT !.file[f] = Absent, !.executable = @ \ {f}]
  /\ outcome' = "none"
  /\ UNCHANGED <<prefix, overwrite, at, next, before>>

Next ==
  \/ \E p \in Prefixes, o \in BOOLEAN : Call(p, o)
  \/ GiveUp \/ Refuse
  \/ WriteFile \/ CutFile \/ SetMode
  \/ UpdateDescription \/ CutDescription
  \/ AppendIgnores \/ CutIgnores
  \/ \E f \in Files : Edit(f) \/ Delete(f)

Spec == Init /\ [][Next]_vars

-----------------------------------------------------------------------------

TypeOK ==
  /\ disk \in Disks
  /\ prefix \in Prefixes
  /\ overwrite \in BOOLEAN
  /\ at \in {"idle", "file", "mode", "description"} \cup IgnoreFiles
  /\ next \in Files
  /\ outcome \in {"none", "done", "failed"}
  /\ before \in Disks

(***************************************************************************)
(* A call that returns leaves a package that can be built, whatever the    *)
(* calls before it left: all files of the template whole and of one        *)
(* prefix, the scripts executable, LinkingTo declared if there is a        *)
(* DESCRIPTION, every line in the ignore files, and no more often than it  *)
(* was; and what the author had in those three files is still there.       *)
(***************************************************************************)
Deployed ==
  outcome = "done" =>
    /\ disk.file = [f \in Files |-> Whole(prefix)]
    /\ Scripts \subseteq disk.executable
    /\ disk.description.user = before.description.user
    /\ disk.description.linking <=> disk.description.user # "absent"
    /\ \A i \in IgnoreFiles :
         /\ disk.ignores[i]["user"] = before.ignores[i]["user"]
         /\ \A l \in Lines :
              disk.ignores[i][l] = IF before.ignores[i][l] = 0 THEN 1
                                   ELSE before.ignores[i][l]

(***************************************************************************)
(* Without overwrite a call, returned, failed or still under way, has not  *)
(* touched a file it found, and it returns only if it found none at all:   *)
(* after a call that failed half-way nothing but overwrite, or deleting    *)
(* what it left, gets the author any further.                              *)
(***************************************************************************)
Resumed == at # "idle" \/ outcome # "none"

RefusesToOverwrite ==
  Resumed /\ ~overwrite =>
    /\ \A f \in Files : before.file[f] # Absent => disk.file[f] = before.file[f]
    /\ outcome = "done" => \A f \in Files : before.file[f] = Absent

(***************************************************************************)
(* A package comes to declare that it links to RsimdDispatch only with the *)
(* complete scaffold in it, of one prefix; no step of a failing copy adds  *)
(* the entry.                                                              *)
(***************************************************************************)
LinkingComesLast ==
  [][disk'.description.linking /\ ~disk.description.linking =>
       /\ disk.file = [f \in Files |-> Whole(prefix)]
       /\ Scripts \subseteq disk.executable]_vars

=============================================================================
