------------------------------ MODULE Directory ------------------------------
(***************************************************************************)
(* What PostgreSQL may rely on when it works on PGDATA through the overlay *)
(* of a root and a template: a directory with open, remove, rename and     *)
(* mkdir, in which a file holds what was last written to it.               *)
(*                                                                         *)
(* Two clauses say where this promise is weaker than that of a plain       *)
(* directory.  A file of the template that was removed is there again for  *)
(* a call that would change it (Seen).  A crash may leave a file of the    *)
(* template torn, or empty, if the interrupted call was to change it.      *)
(***************************************************************************)
CONSTANTS
    Names, Dirs, DirOf,       \* file names, and the directory each is in
    Data,                     \* what PostgreSQL writes
    Requests,                 \* the calls: records with op, name and arguments
    TemplateFiles,            \* names of the template's files
    TemplateDirs,
    Absent, Empty, Torn,      \* no file, an empty file, half a file
    Idle                      \* no call

VARIABLES
    files,   \* the content of each file; a template file holds its name
    dirs,    \* the directories there are
    request, \* the call that has been made and not yet answered
    result   \* the last answer

directory == <<files, dirs, request, result>>

(* The file as a call that changes it finds it.                            *)
Seen(n) == IF files[n] = Absent /\ n \in TemplateFiles THEN n ELSE files[n]

(* After an open, and a write through it if d is not Absent.               *)
Opened(old, conf, d) ==
    IF d # Absent THEN d ELSE IF old = Absent \/ conf.truncate THEN Empty ELSE old

Answer(r) == result' = r /\ request' = Idle

Ask(r) ==
    /\ request = Idle
    /\ request' = r /\ result' = "none"
    /\ UNCHANGED <<files, dirs>>

Asked(op) == request # Idle /\ request.op = op

OpenToRead ==
    /\ Asked("read")
    /\ Answer(IF files[request.name] = Absent THEN "missing" ELSE "ok")
    /\ UNCHANGED <<files, dirs>>

OpenToChange ==
    /\ Asked("open")
    /\ LET n == request.name
           conf == request.conf
           creates == conf.create \/ conf.createNew
       IN  \/ /\ Seen(n) = Absent /\ (creates => DirOf[n] \notin dirs)
              /\ Answer("missing") /\ UNCHANGED files
           \/ /\ Seen(n) # Absent /\ conf.createNew
              /\ Answer("exists") /\ UNCHANGED files
           \/ /\ IF Seen(n) = Absent THEN creates /\ DirOf[n] \in dirs ELSE ~conf.createNew
              /\ files' = [files EXCEPT ![n] = Opened(Seen(n), conf, request.data)]
              /\ Answer("ok")
    /\ UNCHANGED dirs

Remove ==
    /\ Asked("remove")
    /\ Answer(IF files[request.name] = Absent THEN "missing" ELSE "ok")
    /\ files' = [files EXCEPT ![request.name] = Absent]
    /\ UNCHANGED dirs

(* A rename that fails for want of the target's directory has already      *)
(* brought a removed template file back.                                   *)
Rename ==
    /\ Asked("rename")
    /\ LET from == request.name
           to == request.to
       IN  IF Seen(from) = Absent
           THEN Answer("missing") /\ UNCHANGED files
           ELSE IF DirOf[to] \notin dirs
           THEN Answer("missing") /\ files' = [files EXCEPT ![from] = Seen(from)]
           ELSE Answer("ok") /\ files' = [files EXCEPT ![from] = Absent, ![to] = Seen(from)]
    /\ UNCHANGED dirs

(* mkdir may be told that a directory of the template is new.              *)
MakeDir ==
    /\ Asked("mkdir")
    /\ \/ request.dir \in dirs /\ Answer("exists")
       \/ request.dir \notin dirs \ TemplateDirs /\ Answer("ok")
    /\ dirs' = dirs \cup {request.dir}
    /\ UNCHANGED files

Crash ==
    /\ \/ UNCHANGED files
       \/ /\ Asked("open") \/ Asked("rename")
          /\ request.name \in TemplateFiles
          /\ \E c \in {Seen(request.name), Empty, Torn} :
                files' = [files EXCEPT ![request.name] = c]
    /\ Answer("none")
    /\ UNCHANGED dirs

Init ==
    /\ files = [n \in Names |-> IF n \in TemplateFiles THEN n ELSE Absent]
    /\ dirs = TemplateDirs
    /\ request = Idle /\ result = "none"

Next ==
    \/ \E r \in Requests : Ask(r)
    \/ OpenToRead \/ OpenToChange \/ Remove \/ Rename \/ MakeDir
    \/ Crash

Spec == Init /\ [][Next]_directory
=============================================================================
