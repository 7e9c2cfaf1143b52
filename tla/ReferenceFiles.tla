---------------------------- MODULE ReferenceFiles ----------------------------
(***************************************************************************)
(* The reference files of a problem: ReferenceEditor in                      *)
(* authoring/ProblemStudio.tsx, with the explorer of reference/.             *)
(* A file has no identity but its path.  Uploaded files are read by the      *)
(* browser, and the list they are added to is the one from before reading.   *)
(***************************************************************************)
EXTENDS Naturals, Sequences, FiniteSets, FiniteSetsExt, Lists

CONSTANTS
    None,
    MaxFiles,   \* bound: files
    MaxChanges  \* bound: edits, uploads, new files and renamings

VARIABLES
    files,    \* files: path and content
    selected, \* selected
    mounted,  \* the tab of the reference files is open
    reading,  \* uploads being read: the files before, the files to add
    \* to state the properties
    changes,  \* changes made; the content of a file is the number of the change
    mine,     \* the contents nobody has replaced or removed
    mishaps   \* a renaming that made two files one, a path left empty, an overtaken upload

fileVars == <<files, selected, mounted, reading, changes, mine, mishaps>>

\* The names that addFile makes, a file chosen for upload, and the empty path.
Auto(n)   == <<"auto", n>>
Upload    == <<"upload">>
Empty     == <<>>
Paths(fs) == {fs[i].path : i \in DOMAIN fs}
FirstPath(fs) == IF fs = <<>> THEN None ELSE fs[1].path
Contents(fs) == {fs[i].content : i \in DOMAIN fs}

Init ==
    /\ files \in {<<>>, <<[path |-> Auto(1), content |-> 0]>>}
    /\ selected = FirstPath(files) /\ mounted = TRUE
    /\ reading = {}
    /\ changes = 0 /\ mine = {} /\ mishaps = {}

----------------------------------------------------------------------------
\* The file that is edited: the first with the selected path.
Current == {i \in DOMAIN files : files[i].path = selected}
Editing == mounted /\ Current # {}
Edited  == files[Min(Current)]

Change ==
    /\ changes < MaxChanges
    /\ changes' = changes + 1

\* The explorer shows the files whose path has a name in it.
setSelected(path) ==
    /\ mounted
    /\ path \in Paths(files) \ {Empty, selected}
    /\ selected' = path
    /\ UNCHANGED <<files, mounted, reading, changes, mine, mishaps>>

\* Every file of that path is updated.
update(content) ==
    /\ Editing
    /\ Change
    /\ files' = [i \in DOMAIN files |->
                    IF files[i].path = selected THEN [files[i] EXCEPT !.content = content] ELSE files[i]]
    /\ mine' = (mine \ {Edited.content}) \cup {content}
    /\ UNCHANGED <<selected, mounted, reading, mishaps>>

\* An empty path is not followed by the selection.
rename(path) ==
    /\ Editing
    /\ path # selected
    /\ Change
    /\ files' = [i \in DOMAIN files |->
                    IF files[i].path = selected THEN [files[i] EXCEPT !.path = path] ELSE files[i]]
    /\ selected' = IF path = Empty THEN selected ELSE path
    /\ mishaps' = mishaps \cup (IF path \in Paths(files) THEN {"clash"} ELSE {})
                          \cup (IF path = Empty THEN {"blank"} ELSE {})
    /\ UNCHANGED <<mounted, reading, mine>>

\* The first after their number that is free.
FreeNumber == Min({n \in (Len(files) + 1)..(2 * Len(files) + 1) : Auto(n) \notin Paths(files)})

addFile ==
    /\ mounted
    /\ Len(files) < MaxFiles
    /\ Change
    /\ files' = Append(files, [path |-> Auto(FreeNumber), content |-> changes + 1])
    /\ selected' = Auto(FreeNumber)
    /\ mine' = mine \cup {changes + 1}
    /\ UNCHANGED <<mounted, reading, mishaps>>

\* Every file of that path is removed.
removeFile ==
    /\ Editing
    /\ files' = Kept(files, {i \in DOMAIN files : files[i].path # selected})
    /\ selected' = FirstPath(files')
    /\ mine' = mine \ {Edited.content}
    /\ UNCHANGED <<mounted, reading, changes, mishaps>>

\* The name, or the name with the first number that makes it free.
FreeName(name, taken) ==
    IF name \notin taken THEN name
    ELSE Append(name, Min({i \in 1..(Cardinality(taken) + 1) : Append(name, i) \notin taken}))

onUpload(names) ==
    /\ mounted
    /\ Len(files) + Len(names) <= MaxFiles
    /\ Change
    /\ LET first == FreeName(names[1], Paths(files))
           paths == IF Len(names) = 1 THEN <<first>>
                    ELSE <<first, FreeName(names[2], Paths(files) \cup {first})>>
       IN reading' = reading \cup {[before |-> files,
                                    added |-> [i \in DOMAIN paths |->
                                                  [path |-> paths[i], content |-> 0]]]}
    /\ UNCHANGED <<files, selected, mounted, mine, mishaps>>

UploadRead(r) ==
    /\ r \in reading
    /\ reading' = reading \ {r}
    /\ files' = r.before \o r.added
    /\ selected' = IF mounted THEN r.added[1].path ELSE selected
    /\ mishaps' = mishaps \cup (IF r.before # files THEN {"overtaken"} ELSE {})
    /\ UNCHANGED <<mounted, changes, mine>>

\* A file cannot be read: the others of the upload are not added either.
UploadFails(r) ==
    /\ r \in reading
    /\ reading' = reading \ {r}
    /\ UNCHANGED <<files, selected, mounted, changes, mine, mishaps>>

\* By the author or by a tool of the assistant.
LeaveTab ==
    /\ mounted
    /\ mounted' = FALSE
    /\ UNCHANGED <<files, selected, reading, changes, mine, mishaps>>

OpenTab ==
    /\ ~mounted
    /\ mounted' = TRUE
    /\ selected' = FirstPath(files)
    /\ UNCHANGED <<files, reading, changes, mine, mishaps>>

----------------------------------------------------------------------------
Next ==
    \/ \E path \in Paths(files) : setSelected(path)
    \/ update(changes + 1)
    \/ \E path \in {Auto(1), Auto(2), Upload, Empty} : rename(path)
    \/ addFile \/ removeFile
    \/ \E names \in {<<Upload>>, <<Upload, Append(Upload, 1)>>} : onUpload(names)
    \/ \E r \in reading : UploadRead(r) \/ UploadFails(r)
    \/ LeaveTab \/ OpenTab

Spec == Init /\ [][Next]_fileVars

----------------------------------------------------------------------------
(* Properties *)

\* Files get one path only when one is renamed to another's.
NamesDistinct == "clash" \notin mishaps => Cardinality(Paths(files)) = Len(files)

\* What the author wrote is there until it is replaced or removed, unless two files have
\* become one or an upload was read while it was written.
FilesKept == mishaps \cap {"clash", "overtaken"} = {} => mine \subseteq Contents(files)

\* While there are files the author edits one, unless its path has been emptied.
SomethingSelected == ("blank" \notin mishaps /\ mounted /\ files # <<>>) => Editing

FilesSound == NamesDistinct /\ FilesKept /\ SomethingSelected

\* Behind it: what an upload adds to the list from before has other paths than that list.
File == [path : Seq({"auto", "upload"} \cup Nat), content : Nat]
Distinct(fs) == \A i, j \in DOMAIN fs : fs[i].path = fs[j].path => i = j
FilesInv ==
    /\ files \in Seq(File) /\ changes \in Nat
    /\ \A r \in reading : r.before \in Seq(File) /\ r.added \in Seq(File) /\ r.added # <<>>
    /\ "clash" \notin mishaps =>
          Distinct(files) /\ \A r \in reading : Distinct(r.before \o r.added)
    /\ FilesKept /\ SomethingSelected
=============================================================================
