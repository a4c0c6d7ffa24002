------------------------ MODULE TemplateDeploy_proofs ------------------------
(***************************************************************************)
(* Proofs about TemplateDeploy, for any number of files, any scripts among *)
(* them, any prefixes and any lines.  The invariant says how far a call    *)
(* has come: which files are written, that those after are as it found     *)
(* them, and which of the other three files are still as it found them.    *)
(***************************************************************************)
EXTENDS TemplateDeploy, TLAPS

\* The files the call has written.
Written == IF at = "file" THEN 1..(next - 1)
           ELSE IF at = "mode" THEN 1..next ELSE Files

\* The scripts it has come to.
Passed == IF at \in {"file", "mode"} THEN 1..(next - 1) ELSE Files

Running == at # "idle" \/ outcome = "done"

Copied ==
  Running =>
    /\ \A f \in Written : disk.file[f] = Whole(prefix)
    /\ Scripts \cap Passed \subseteq disk.executable

Found ==
  ~overwrite /\ Resumed =>
    /\ \A f \in Files : before.file[f] # Absent => disk.file[f] = before.file[f]
    /\ Running => \A f \in Written : before.file[f] = Absent
    /\ Running => \A f \in Files \ Written : disk.file[f] = before.file[f]

Linked == disk.description.linking => disk.description.user # "absent"

Texts ==
  Running =>
    /\ disk.description.user = before.description.user
    /\ at \in IgnoreFiles \cup {"idle"} =>
         (disk.description.linking <=> disk.description.user # "absent")
    /\ at \in {"file", "mode", "description", ".Rbuildignore"} =>
         disk.ignores[".Rbuildignore"] = before.ignores[".Rbuildignore"]
    /\ at # "idle" => disk.ignores[".gitignore"] = before.ignores[".gitignore"]
    /\ at \in {".gitignore", "idle"} =>
         disk.ignores[".Rbuildignore"] = Appended(before.ignores[".Rbuildignore"])
    /\ at = "idle" =>
         disk.ignores[".gitignore"] = Appended(before.ignores[".gitignore"])

Ended == at # "idle" => outcome = "none"

IInv == TypeOK /\ Ended /\ Copied /\ Found /\ Linked /\ Texts

USE DEF Files, IgnoreFiles

-----------------------------------------------------------------------------

LEMMA AppendedCounts ==
  ASSUME NEW c \in Counts
  PROVE  /\ Appended(c) \in Counts
         /\ Appended(c)["user"] = c["user"]
         /\ \A l \in Lines : Appended(c)[l] = IF c[l] = 0 THEN 1 ELSE c[l]
<1> USE LinesAssumption DEF Counts, Appended
<1>1. \A l \in Lines \cup {"user"} :
        c[l] + (IF l \in Lines /\ c[l] = 0 THEN 1 ELSE 0) \in Nat
  OBVIOUS
<1>2. Appended(c) \in Counts
  BY <1>1
<1>3. Appended(c)["user"] = c["user"]
  OBVIOUS
<1>4. ASSUME NEW l \in Lines
      PROVE  Appended(c)[l] = IF c[l] = 0 THEN 1 ELSE c[l]
  OBVIOUS
<1> QED BY <1>2, <1>3, <1>4

\* What the steps write are contents a file can have.
LEMMA WrittenContents ==
  /\ Absent \in Contents
  /\ Whole("user") \in Contents
  /\ \A p \in Prefixes : Whole(p) \in Contents /\ Torn(p) \in Contents
  /\ \A p \in Prefixes : Whole(p) # Absent
BY PrefixAssumption DEF Absent, Whole, Torn, Contents

LEMMA TypeInit == Init => TypeOK
<1> SUFFICES ASSUME Init PROVE TypeOK
  OBVIOUS
<1>1. disk \in Disks
  <2>1. PICK F \in [Files -> {Absent, Whole("user")}],
             D \in {[user |-> "absent", linking |-> FALSE],
                    [user |-> "whole", linking |-> FALSE],
                    [user |-> "whole", linking |-> TRUE]},
             I \in [IgnoreFiles -> [Lines \cup {"user"} -> 0..1]] :
          disk = [file |-> F, executable |-> {}, description |-> D,
                  ignores |-> I]
    BY DEF Init
  <2>2. F \in [Files -> Contents]
    BY WrittenContents
  <2>3. D \in Descriptions
    <3>1. D = [user |-> "absent", linking |-> FALSE] => D \in Descriptions
      BY DEF Descriptions
    <3>2. D = [user |-> "whole", linking |-> FALSE] => D \in Descriptions
      BY DEF Descriptions
    <3>3. D = [user |-> "whole", linking |-> TRUE] => D \in Descriptions
      BY DEF Descriptions
    <3> QED BY <3>1, <3>2, <3>3
  <2>4. I \in [IgnoreFiles -> Counts]
    BY DEF Counts
  <2> QED BY <2>1, <2>2, <2>3, <2>4 DEF Disks
<1>2. next \in Files
  BY FilesAssumption DEF Init
<1> QED BY <1>1, <1>2 DEF Init, TypeOK

LEMMA InvInit == Init => IInv
<1> SUFFICES ASSUME Init PROVE IInv
  OBVIOUS
<1>1. TypeOK
  BY TypeInit
<1>2. ~Running /\ ~Resumed
  BY DEF Init, Running, Resumed
<1>3. Linked
  <2>1. disk.description \in {[user |-> "absent", linking |-> FALSE],
                              [user |-> "whole", linking |-> FALSE],
                              [user |-> "whole", linking |-> TRUE]}
    BY DEF Init
  <2> QED BY <2>1 DEF Linked
<1> QED BY <1>1, <1>2, <1>3 DEF IInv, Init, Ended, Copied, Found, Texts

-----------------------------------------------------------------------------
(***************************************************************************)
(* The parts of the disk, and what writing to one of them does.            *)
(***************************************************************************)
LEMMA DiskParts ==
  ASSUME NEW d \in Disks
  PROVE  /\ d.file \in [Files -> Contents]
         /\ d.executable \subseteq Files
         /\ d.description \in Descriptions
         /\ d.description.user \in {"absent", "whole", "cut"}
         /\ d.description.linking \in BOOLEAN
         /\ d.ignores \in [IgnoreFiles -> Counts]
BY DEF Disks, Descriptions

LEMMA DiskWithFile ==
  ASSUME NEW d \in Disks, NEW f \in Files, NEW c \in Contents
  PROVE  [d EXCEPT !.file[f] = c] \in Disks
BY DEF Disks

LEMMA DiskWithExecutable ==
  ASSUME NEW d \in Disks, NEW x \in SUBSET Files
  PROVE  [d EXCEPT !.executable = x] \in Disks
BY DEF Disks

LEMMA DiskWithDescription ==
  ASSUME NEW d \in Disks, NEW u \in {"absent", "whole", "cut"},
         NEW l \in BOOLEAN
  PROVE  [d EXCEPT !.description = [user |-> u, linking |-> l]] \in Disks
<1>1. [user |-> u, linking |-> l] \in Descriptions
  BY DEF Descriptions
<1> QED BY <1>1 DEF Disks

LEMMA DiskWithIgnores ==
  ASSUME NEW d \in Disks, NEW i \in IgnoreFiles, NEW c \in Counts
  PROVE  [d EXCEPT !.ignores[i] = c] \in Disks
BY DEF Disks

LEMMA TypeStep == TypeOK /\ [Next]_vars => TypeOK'
<1> SUFFICES ASSUME TypeOK, [Next]_vars PROVE TypeOK'
  OBVIOUS
<1> USE FilesAssumption DEF TypeOK
<1>1. ASSUME NEW p \in Prefixes, NEW o \in BOOLEAN, Call(p, o) PROVE TypeOK'
  BY <1>1 DEF Call
<1>2. CASE GiveUp \/ Refuse
  BY <1>2 DEF GiveUp, Refuse, Fails
<1>3. CASE WriteFile
  <2>1. disk' \in Disks
    BY <1>3, DiskWithFile, WrittenContents DEF WriteFile
  <2> QED BY <1>3, <2>1 DEF WriteFile
<1>4. CASE CutFile
  <2>1. disk' \in Disks
    BY <1>4, DiskWithFile, WrittenContents DEF CutFile
  <2> QED BY <1>4, <2>1 DEF CutFile, Fails
<1>5. CASE SetMode
  <2>1. disk.executable \cup (Scripts \cap {next}) \in SUBSET Files
    BY DiskParts
  <2>2. disk' \in Disks
    BY <1>5, <2>1, DiskWithExecutable DEF SetMode
  <2>3. next' \in Files /\ at' \in {"file", "description"}
    BY <1>5 DEF SetMode
  <2> QED BY <1>5, <2>2, <2>3 DEF SetMode
<1>6. CASE UpdateDescription
  <2> DEFINE l == disk.description.linking \/ disk.description.user # "absent"
  <2>1. disk.description = [user |-> disk.description.user,
                            linking |-> disk.description.linking]
    BY DiskParts DEF Descriptions
  <2>2. disk' = [disk EXCEPT !.description =
                   [user |-> disk.description.user, linking |-> l]]
    BY <1>6, <2>1 DEF UpdateDescription
  <2>3. disk' \in Disks
    BY <2>2, DiskParts, DiskWithDescription
  <2> QED BY <1>6, <2>3 DEF UpdateDescription
<1>7. CASE CutDescription
  <2>1. disk' \in Disks
    BY <1>7, DiskWithDescription DEF CutDescription
  <2> QED BY <1>7, <2>1 DEF CutDescription, Fails
<1>8. CASE AppendIgnores
  <2>1. disk.ignores[at] \in Counts
    BY <1>8, DiskParts DEF AppendIgnores
  <2>2. disk' = [disk EXCEPT !.ignores[at] = Appended(disk.ignores[at])]
    BY <1>8 DEF AppendIgnores
  <2>3. disk' \in Disks
    BY <1>8, <2>1, <2>2, AppendedCounts, DiskWithIgnores DEF AppendIgnores
  <2>4. at' \in {"idle", ".gitignore"} /\ outcome' \in {"none", "done", "failed"}
    BY <1>8 DEF AppendIgnores
  <2> QED BY <1>8, <2>3, <2>4 DEF AppendIgnores
<1>9. CASE CutIgnores
  <2>1. disk.ignores[at] \in Counts
    BY <1>9, DiskParts DEF CutIgnores
  <2>2. PICK c \in Counts : disk' = [disk EXCEPT !.ignores[at] = c]
    BY <1>9, <2>1 DEF CutIgnores, Counts
  <2>3. disk' \in Disks
    BY <1>9, <2>2, DiskWithIgnores DEF CutIgnores
  <2> QED BY <1>9, <2>3 DEF CutIgnores, Fails
<1>10. ASSUME NEW f \in Files, Edit(f) PROVE TypeOK'
  <2>1. disk' \in Disks
    BY <1>10, DiskWithFile, WrittenContents DEF Edit
  <2> QED BY <1>10, <2>1 DEF Edit
<1>11. ASSUME NEW f \in Files, Delete(f) PROVE TypeOK'
  <2> DEFINE d == [disk EXCEPT !.file[f] = Absent]
  <2>1. d \in Disks
    BY DiskWithFile, WrittenContents
  <2>2. disk.executable \ {f} \in SUBSET Files
    BY DiskParts
  <2>3. disk' = [d EXCEPT !.executable = disk.executable \ {f}]
    BY <1>11, DiskParts DEF Delete, Disks
  <2>4. disk' \in Disks
    BY <2>1, <2>2, <2>3, DiskWithExecutable
  <2> QED BY <1>11, <2>4 DEF Delete
<1>12. CASE UNCHANGED vars
  BY <1>12 DEF vars
<1> QED
  BY <1>1, <1>2, <1>3, <1>4, <1>5, <1>6, <1>7, <1>8, <1>9, <1>10, <1>11, <1>12
  DEF Next

-----------------------------------------------------------------------------
(***************************************************************************)
(* A step preserves each part of the invariant.                            *)
(***************************************************************************)
Fail == GiveUp \/ Refuse \/ CutFile \/ CutDescription \/ CutIgnores

LEMMA FailEnds ==
  Fail => at' = "idle" /\ outcome' = "failed" /\ at # "idle"
          /\ overwrite' = overwrite /\ before' = before
BY DEF Fail, GiveUp, Refuse, CutFile, CutDescription, CutIgnores, Fails

LEMMA CopiedStep == IInv /\ [Next]_vars => Copied'
<1> SUFFICES ASSUME IInv, [Next]_vars PROVE Copied'
  OBVIOUS
<1> USE FilesAssumption DEF IInv, TypeOK
<1>1. ASSUME NEW p \in Prefixes, NEW o \in BOOLEAN, Call(p, o) PROVE Copied'
  BY <1>1 DEF Call, Copied, Written, Passed
<1>2. CASE Fail
  BY <1>2, FailEnds DEF Copied, Running
<1>3. CASE WriteFile
  <2>1. /\ Written = 1..(next - 1) /\ Written' = 1..next
        /\ Passed = 1..(next - 1) /\ Passed' = 1..(next - 1)
    BY <1>3 DEF WriteFile, Written, Passed
  <2>2. /\ disk'.file = [disk.file EXCEPT ![next] = Whole(prefix)]
        /\ disk'.executable = disk.executable /\ prefix' = prefix
    BY <1>3, DiskParts DEF WriteFile, Disks
  <2>3. Running
    BY <1>3 DEF WriteFile, Running
  <2>4. \A f \in 1..next : disk'.file[f] = Whole(prefix)
    BY <2>1, <2>2, <2>3, DiskParts DEF Copied
  <2> QED BY <2>1, <2>2, <2>3, <2>4 DEF Copied, Whole
<1>4. CASE SetMode
  <2>1. /\ Written = 1..next /\ Written' = 1..next
        /\ Passed = 1..(next - 1) /\ Passed' = 1..next
    BY <1>4 DEF SetMode, Written, Passed
  <2>2. /\ disk'.file = disk.file /\ prefix' = prefix
        /\ disk'.executable = disk.executable \cup (Scripts \cap {next})
    BY <1>4, DiskParts DEF SetMode, Disks
  <2>3. Running
    BY <1>4 DEF SetMode, Running
  <2>4. Scripts \cap 1..next \subseteq disk'.executable
    BY <2>1, <2>2, <2>3 DEF Copied
  <2> QED BY <2>1, <2>2, <2>3, <2>4 DEF Copied, Whole
<1>5. CASE UpdateDescription
  <2>1. Written = Files /\ Written' = Files /\ Passed = Files /\ Passed' = Files
    BY <1>5 DEF UpdateDescription, Written, Passed
  <2>2. /\ disk'.file = disk.file /\ prefix' = prefix
        /\ disk'.executable = disk.executable
    BY <1>5, DiskParts DEF UpdateDescription, Disks
  <2>3. Running
    BY <1>5 DEF UpdateDescription, Running
  <2> QED BY <2>1, <2>2, <2>3 DEF Copied, Whole
<1>6. CASE AppendIgnores
  <2>1. Written = Files /\ Written' = Files /\ Passed = Files /\ Passed' = Files
    BY <1>6 DEF AppendIgnores, Written, Passed
  <2>2. /\ disk'.file = disk.file /\ prefix' = prefix
        /\ disk'.executable = disk.executable
    BY <1>6, DiskParts DEF AppendIgnores, Disks
  <2>3. Running
    BY <1>6 DEF AppendIgnores, Running
  <2> QED BY <2>1, <2>2, <2>3 DEF Copied, Whole
<1>7. ASSUME NEW f \in Files, Edit(f) \/ Delete(f) PROVE Copied'
  BY <1>7 DEF Edit, Delete, Copied, Running
<1>8. CASE UNCHANGED vars
  BY <1>8 DEF vars, Copied, Running, Written, Passed, Whole
<1> QED
  BY <1>1, <1>2, <1>3, <1>4, <1>5, <1>6, <1>7, <1>8 DEF Next, Fail

\* The files as the call found them, while it leaves them as they are.
LEMMA FoundKept ==
  ASSUME IInv, Resumed, Running' => Running /\ Written' = Written,
         disk'.file = disk.file, overwrite' = overwrite, before' = before
  PROVE  Found'
BY DEF IInv, Found

LEMMA FoundStep == IInv /\ [Next]_vars => Found'
<1> SUFFICES ASSUME IInv, [Next]_vars PROVE Found'
  OBVIOUS
<1> USE FilesAssumption DEF IInv, TypeOK
<1>1. ASSUME NEW p \in Prefixes, NEW o \in BOOLEAN, Call(p, o) PROVE Found'
  BY <1>1 DEF Call, Found, Written
<1>2. CASE GiveUp \/ Refuse \/ CutDescription \/ CutIgnores
  <2>1. Fail
    BY <1>2 DEF Fail
  <2>2. disk'.file = disk.file
    BY <1>2, DiskParts
    DEF GiveUp, Refuse, CutDescription, CutIgnores, Disks
  <2> QED BY <2>1, <2>2, FailEnds, FoundKept DEF Running, Resumed
<1>3. CASE WriteFile \/ CutFile
  <2>1. at = "file" /\ Written = 1..(next - 1) /\ Running /\ Resumed
    BY <1>3 DEF WriteFile, CutFile, Written, Running, Resumed
  <2>2. PICK c \in Contents : disk'.file = [disk.file EXCEPT ![next] = c]
    BY <1>3, DiskParts, WrittenContents DEF WriteFile, CutFile, Disks
  <2>3. overwrite' = overwrite /\ before' = before
    BY <1>3 DEF WriteFile, CutFile, Fails
  <2>4. ~overwrite => disk.file[next] = Absent
    BY <1>3 DEF WriteFile, CutFile, MayWrite
  <2>5. ~overwrite => before.file[next] = Absent
    BY <2>1, <2>4 DEF Found
  <2>6. ASSUME ~overwrite, NEW f \in Files, before.file[f] # Absent
        PROVE  disk'.file[f] = before.file[f]
    BY <2>1, <2>2, <2>5, <2>6, DiskParts DEF Found
  <2>7. Running' => Written' = 1..next
    BY <1>3 DEF WriteFile, CutFile, Fails, Running, Written
  <2>8. ~overwrite => \A f \in 1..next : before.file[f] = Absent
    BY <2>1, <2>5 DEF Found
  <2>9. ~overwrite => \A f \in Files \ 1..next : disk'.file[f] = before.file[f]
    BY <2>1, <2>2, DiskParts DEF Found
  <2> QED BY <2>3, <2>6, <2>7, <2>8, <2>9 DEF Found
<1>4. CASE SetMode
  <2>1. Running /\ Resumed /\ Written = 1..next /\ Written' = 1..next
    BY <1>4 DEF SetMode, Written, Running, Resumed
  <2>2. /\ disk'.file = disk.file
        /\ overwrite' = overwrite /\ before' = before
    BY <1>4, DiskParts DEF SetMode, Disks
  <2> QED BY <2>1, <2>2, FoundKept
<1>5. CASE UpdateDescription \/ AppendIgnores
  <2>1. Running /\ Resumed /\ Written = Files /\ Written' = Files
    BY <1>5 DEF UpdateDescription, AppendIgnores, Written, Running, Resumed
  <2>2. /\ disk'.file = disk.file
        /\ overwrite' = overwrite /\ before' = before
    BY <1>5, DiskParts DEF UpdateDescription, AppendIgnores, Disks
  <2> QED BY <2>1, <2>2, FoundKept
<1>6. ASSUME NEW f \in Files, Edit(f) \/ Delete(f) PROVE Found'
  BY <1>6 DEF Edit, Delete, Found, Resumed
<1>7. CASE UNCHANGED vars
  BY <1>7 DEF vars, Found, Resumed, Running, Written
<1> QED
  BY <1>1, <1>2, <1>3, <1>4, <1>5, <1>6, <1>7 DEF Next

LEMMA LinkedStep == IInv /\ [Next]_vars => Linked'
<1> SUFFICES ASSUME IInv, [Next]_vars PROVE Linked'
  OBVIOUS
<1> USE DiskParts DEF IInv, TypeOK, Linked
<1>1. CASE UpdateDescription
  <2>1. /\ disk'.description.user = disk.description.user
        /\ disk'.description.linking =
             (disk.description.linking \/ disk.description.user # "absent")
    BY <1>1 DEF UpdateDescription, Disks, Descriptions
  <2> QED BY <2>1
<1>2. CASE CutDescription
  <2>1. PICK w \in BOOLEAN :
          disk'.description = [user |-> "cut", linking |-> w]
    BY <1>2 DEF CutDescription, Disks
  <2> QED BY <2>1
<1>3. CASE ~UpdateDescription /\ ~CutDescription
  <2>1. disk'.description = disk.description
    BY <1>3 DEF Next, vars, Call, GiveUp, Refuse, WriteFile, CutFile, SetMode,
                AppendIgnores, CutIgnores, Edit, Delete, Disks
  <2> QED BY <2>1
<1> QED BY <1>1, <1>2, <1>3

LEMMA TextsStep == IInv /\ [Next]_vars => Texts'
<1> SUFFICES ASSUME IInv, [Next]_vars PROVE Texts'
  OBVIOUS
<1> USE FilesAssumption DEF IInv, TypeOK
<1>1. ASSUME NEW p \in Prefixes, NEW o \in BOOLEAN, Call(p, o) PROVE Texts'
  BY <1>1 DEF Call, Texts
<1>2. CASE Fail
  BY <1>2, FailEnds DEF Texts, Running
<1>3. CASE WriteFile \/ SetMode
  <2>1. /\ disk'.description = disk.description
        /\ disk'.ignores = disk.ignores
        /\ before' = before
    BY <1>3, DiskParts DEF WriteFile, SetMode, Disks
  <2>2. /\ at \in {"file", "mode"}
        /\ at' \in {"file", "mode", "description"}
    BY <1>3 DEF WriteFile, SetMode
  <2> QED BY <2>1, <2>2 DEF Texts, Running
<1>4. CASE UpdateDescription
  <2>1. /\ disk'.description.user = disk.description.user
        /\ disk'.description.linking =
             (disk.description.linking \/ disk.description.user # "absent")
        /\ disk'.ignores = disk.ignores
        /\ before' = before
        /\ at = "description" /\ at' = ".Rbuildignore"
    BY <1>4, DiskParts DEF UpdateDescription, Disks, Descriptions
  <2>2. disk'.description.linking <=> disk'.description.user # "absent"
    BY <2>1 DEF Linked
  <2> QED BY <2>1, <2>2 DEF Texts, Running
<1>5. CASE AppendIgnores
  <2>1. /\ disk'.description = disk.description
        /\ before' = before
        /\ at \in IgnoreFiles
        /\ disk'.ignores = [disk.ignores EXCEPT ![at] = Appended(disk.ignores[at])]
    BY <1>5, DiskParts DEF AppendIgnores, Disks
  <2>2. Running
    BY <2>1 DEF Running
  <2>3. CASE at = ".Rbuildignore"
    <3>1. at' = ".gitignore"
      BY <1>5, <2>3 DEF AppendIgnores
    <3>2. /\ disk'.ignores[".Rbuildignore"] =
               Appended(disk.ignores[".Rbuildignore"])
          /\ disk'.ignores[".gitignore"] = disk.ignores[".gitignore"]
      BY <2>1, <2>3, DiskParts
    <3> QED BY <2>1, <2>2, <2>3, <3>1, <3>2 DEF Texts, Appended
  <2>4. CASE at = ".gitignore"
    <3>1. at' = "idle"
      BY <1>5, <2>4 DEF AppendIgnores
    <3>2. /\ disk'.ignores[".gitignore"] = Appended(disk.ignores[".gitignore"])
          /\ disk'.ignores[".Rbuildignore"] = disk.ignores[".Rbuildignore"]
      BY <2>1, <2>4, DiskParts
    <3> QED BY <2>1, <2>2, <2>4, <3>1, <3>2 DEF Texts, Appended
  <2> QED BY <2>1, <2>3, <2>4
<1>6. ASSUME NEW f \in Files, Edit(f) \/ Delete(f) PROVE Texts'
  BY <1>6 DEF Edit, Delete, Texts, Running
<1>7. CASE UNCHANGED vars
  BY <1>7 DEF vars, Texts, Running, Appended
<1> QED
  BY <1>1, <1>2, <1>3, <1>4, <1>5, <1>6, <1>7 DEF Next, Fail

LEMMA EndedStep == IInv /\ [Next]_vars => Ended'
BY FailEnds
DEF IInv, Ended, Next, vars, Fail, Call, WriteFile, SetMode, UpdateDescription,
    AppendIgnores, Edit, Delete

LEMMA InvStep == IInv /\ [Next]_vars => IInv'
BY TypeStep, EndedStep, CopiedStep, FoundStep, LinkedStep, TextsStep DEF IInv

LEMMA InvHolds == Spec => []IInv
BY InvInit, InvStep, PTL DEF Spec

-----------------------------------------------------------------------------
(***************************************************************************)
(* Every variable stays in its range.                                      *)
(***************************************************************************)
THEOREM TypeCorrect == Spec => []TypeOK
<1>1. IInv => TypeOK
  BY DEF IInv
<1> QED BY InvHolds, <1>1, PTL

(***************************************************************************)
(* use_simd_dispatch leaves a complete package whenever it returns,        *)
(* whatever calls before it failed where.                                  *)
(***************************************************************************)
THEOREM DeploysCompletely == Spec => []Deployed
<1>1. IInv => Deployed
  <2> SUFFICES ASSUME IInv, outcome = "done" PROVE Deployed
    BY DEF Deployed
  <2> USE DEF IInv, TypeOK
  <2>1. at = "idle" /\ Running
    BY DEF Ended, Running
  <2>2. Written = Files /\ Passed = Files
    BY <2>1 DEF Written, Passed
  <2>3. disk.file = [f \in Files |-> Whole(prefix)]
    BY <2>1, <2>2, DiskParts DEF Copied
  <2>4. Scripts \subseteq disk.executable
    BY <2>1, <2>2, FilesAssumption DEF Copied
  <2>5. ASSUME NEW i \in IgnoreFiles
        PROVE  /\ before.ignores[i] \in Counts
               /\ disk.ignores[i] = Appended(before.ignores[i])
    BY <2>1, DiskParts DEF Texts
  <2>6. /\ disk.description.user = before.description.user
        /\ disk.description.linking <=> disk.description.user # "absent"
    BY <2>1 DEF Texts
  <2> QED BY <2>3, <2>4, <2>5, <2>6, AppendedCounts DEF Deployed
<1> QED BY InvHolds, <1>1, PTL

(***************************************************************************)
(* Without overwrite it touches no file it finds, and gets to its end only *)
(* in a package that had none of them.                                     *)
(***************************************************************************)
THEOREM NeverOverwrites == Spec => []RefusesToOverwrite
<1>1. IInv => RefusesToOverwrite
  <2> SUFFICES ASSUME IInv, Resumed, ~overwrite PROVE RefusesToOverwrite
    BY DEF RefusesToOverwrite
  <2>1. outcome = "done" => Running /\ Written = Files
    BY DEF IInv, Ended, Running, Written
  <2> QED BY <2>1 DEF IInv, Found, RefusesToOverwrite
<1> QED BY InvHolds, <1>1, PTL

(***************************************************************************)
(* LinkingTo is declared only once the scaffold is complete.               *)
(***************************************************************************)
THEOREM DeclaresLast == Spec => LinkingComesLast
<1> DEFINE Late == disk'.description.linking /\ ~disk.description.linking =>
                     /\ disk.file = [f \in Files |-> Whole(prefix)]
                     /\ Scripts \subseteq disk.executable
<1>1. IInv /\ [Next]_vars => [Late]_vars
  <2> SUFFICES ASSUME IInv, [Next]_vars,
                      disk'.description.linking, ~disk.description.linking
               PROVE  /\ disk.file = [f \in Files |-> Whole(prefix)]
                      /\ Scripts \subseteq disk.executable
    OBVIOUS
  <2> USE DEF IInv, TypeOK
  <2>1. at = "description"
    <3>1. disk'.description # disk.description
      OBVIOUS
    <3> QED
      BY <3>1, DiskParts
      DEF Next, vars, Call, GiveUp, Refuse, Fails, WriteFile, CutFile, SetMode,
          UpdateDescription, CutDescription, AppendIgnores, CutIgnores, Edit,
          Delete, Disks
  <2>2. Running /\ Written = Files /\ Passed = Files
    BY <2>1 DEF Running, Written, Passed
  <2> QED BY <2>2, DiskParts, FilesAssumption DEF Copied
<1>2. []IInv /\ [][Next]_vars => [][Late]_vars
  BY <1>1, PTL
<1>3. [][Late]_vars => LinkingComesLast
  BY DEF LinkingComesLast
<1> QED BY InvHolds, <1>2, <1>3, PTL DEF Spec

=============================================================================
