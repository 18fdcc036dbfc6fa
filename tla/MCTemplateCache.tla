--------------------------- MODULE MCTemplateCache ---------------------------
(* Lives of processes are interchangeable.  Symmetry is not used: the run  *)
(* checks liveness too.                                                    *)
EXTENDS TemplateCache
=============================================================================
