------------------------------ MODULE MCOverlay ------------------------------
(* Two files of the template in a directory that only the template has, a  *)
(* new file beside them that archives skip, and a new file in a directory  *)
(* that PostgreSQL has to make.                                            *)
EXTENDS Overlay, TLC

CONSTANTS top, base, extra, t1, t2, f1, s1

Placement == t1 :> base @@ t2 :> base @@ f1 :> extra @@ s1 :> base

Open_(create, createNew, truncate, read) ==
    [create |-> create, createNew |-> createNew, truncate |-> truncate, read |-> read]

(* O_RDWR, alone and with O_CREAT, O_CREAT|O_EXCL or O_CREAT|O_TRUNC, and  *)
(* O_WRONLY with O_CREAT|O_TRUNC.                                          *)
PostgresOpens ==
    {Open_(FALSE, FALSE, FALSE, TRUE), Open_(TRUE, FALSE, FALSE, TRUE),
     Open_(TRUE, TRUE, FALSE, TRUE), Open_(TRUE, FALSE, TRUE, TRUE),
     Open_(TRUE, FALSE, TRUE, FALSE)}
=============================================================================
